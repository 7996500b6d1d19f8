---------------------------- MODULE VersionLint ----------------------------
(***************************************************************************)
(* The version lint tasks of one package version and the replicas that     *)
(* work on them (versionTaskProcessorImpl): the version_lint_task table,   *)
(* the acquire loop that turns a task into document tasks, and the         *)
(* readiness loop that every replica runs over all waiting tasks and that  *)
(* gives the version its verdict.  Several tasks may exist for a version:  *)
(* a manual request has no event id to be unique by.                       *)
(*                                                                         *)
(* The document tasks are seen as the version side sees them: a batch per  *)
(* SaveDocTasksAndUpdVer, pending until every task in it is finished, then *)
(* "success" or, when one of them failed, "error", with the steps module   *)
(* Batch allows it and DocLint is shown to take.  As in DocLint a replica  *)
(* is its executor id, every transaction is a step, and a definition       *)
(* marked (mutation) is a plausible bug in the one after it.               *)
(***************************************************************************)
EXTENDS Naturals, Sequences, FiniteSets

CONSTANTS
    VTasks,        \* version lint tasks
    Execs,         \* executor ids
    NoExec,        \* executor_id of a task nobody has taken yet
    NoTask,        \* no task in hand
    RestartLimit,  \* restarts after which a task is failed instead of taken
    MaxFaults      \* bound on failing database calls and on settled batches that change

ASSUME ExecsAssumption == NoExec \notin Execs
ASSUME TasksAssumption == NoTask \notin VTasks
ASSUME BoundsAssumption == RestartLimit \in Nat /\ MaxFaults \in Nat

VARIABLES
    task,     \* version_lint_task: the row of every task
    batches,  \* document_lint_task: the batches inserted for every task
    passed,   \* history: tasks that have had a batch without a failure
    linted,   \* linted_version.lint_status, "none" when there is no row
    hasDocs,  \* the version has documents of a supported API type
    worker,   \* the acquire loop of every replica
    checker,  \* the readiness loop of every replica
    retry,    \* handleProcessingFailed in progress, per loop
    alive,    \* replicas that have not crashed
    faults    \* database calls that have failed so far

docVars == <<batches, passed>>
vars == <<task, docVars, linted, hasDocs, worker, checker, retry, alive, faults>>

Outcomes == {"success", "error"}
Statuses == {"not_started", "processing", "waiting_for_docs"} \cup Outcomes

Row == [status : Statuses,
        executor : Execs \cup {NoExec},
        restarts : Nat,
        stale : BOOLEAN]  \* last_active is older than 30 seconds

\* Both loops of a replica call handleProcessingFailed.
Loops == Execs \X {"acquire", "check"}

NoRow == [status |-> "not_started", executor |-> NoExec, restarts |-> 0,
          stale |-> FALSE]
NoRetry == [pc |-> "none", task |-> NoTask, restarts |-> 0, row |-> NoRow]
Retry == [pc : {"none", "read", "write"}, task : VTasks \cup {NoTask},
          restarts : Nat, row : Row]

\* restarts is the count in the task as this loop read it.
IdleWorker == [pc |-> "idle", task |-> NoTask, restarts |-> 0, plan |-> "empty"]
Worker == [pc : {"idle", "loading", "saving"}, task : VTasks \cup {NoTask},
           restarts : Nat, plan : {"empty", "pending", "error"}]

Item == [task : VTasks, restarts : Nat,
         verdict : {"unread", "notReady"} \cup Outcomes]
Checker == [pc : {"idle", "listed", "deciding", "dead"}, todo : SUBSET Item]
IdleChecker == [pc |-> "idle", todo |-> {}]

Finished(t) == task[t].status \in Outcomes

\* (mutation) tasks whose executor has gone silent are not selected
Free_NotStartedOnly(t) == task[t].status = "not_started"

\* The tasks queryVersionTask selects, in any order because of "skip locked".
Free(t) == \/ task[t].status = "not_started"
           \/ task[t].status \in {"processing", "waiting_for_docs"} /\ task[t].stale

\* Every update of a row sets last_active as well.
WithStatus(t, status) ==
    [task EXCEPT ![t] = [status |-> status, executor |-> task[t].executor,
                         restarts |-> task[t].restarts, stale |-> FALSE]]

Init == /\ task = [t \in VTasks |-> NoRow]
        /\ batches = [t \in VTasks |-> <<>>]
        /\ passed = {}
        /\ linted = "none"
        /\ hasDocs \in BOOLEAN
        /\ worker = [e \in Execs |-> IdleWorker]
        /\ checker = [e \in Execs |-> IdleChecker]
        /\ retry = [l \in Loops |-> NoRetry]
        /\ alive = Execs
        /\ faults = 0

Ready(e, loop) == e \in alive /\ retry[<<e, loop>>].pc = "none"

\* A database call of the loop fails.
Fault == faults < MaxFaults /\ faults' = faults + 1

\* handleProcessingFailed is called with the loop's copy of the task.
ProcessingFailed(e, loop, t, restarts) ==
    retry' = [retry EXCEPT ![<<e, loop>>] =
        [pc |-> "read", task |-> t, restarts |-> restarts, row |-> NoRow]]

-----------------------------------------------------------------------------
(* acquireFreeTasks, processTask and FindFreeVersionTask                    *)

Polling(e) == Ready(e, "acquire") /\ worker[e].pc = "idle"

\* (mutation) restarts are counted down
RestartsAfter_CountedDown(t) == IF task[t].status = "not_started"
                                THEN task[t].restarts ELSE task[t].restarts - 1

RestartsAfter(t) == IF task[t].status = "not_started"
                    THEN task[t].restarts ELSE task[t].restarts + 1

TakeVersionTask(e, t) ==
    /\ Polling(e)
    /\ Free(t) /\ task[t].status # "waiting_for_docs"
    /\ task[t].restarts < RestartLimit
    /\ task' = [task EXCEPT ![t] = [status |-> "processing", executor |-> e,
                                    restarts |-> RestartsAfter(t), stale |-> FALSE]]
    /\ worker' = [worker EXCEPT ![e] =
          [pc |-> "loading", task |-> t, restarts |-> 0, plan |-> "empty"]]
    /\ UNCHANGED <<docVars, linted, hasDocs, checker, retry, alive, faults>>

FailVersionTask(e, t) ==
    /\ Polling(e)
    /\ Free(t) /\ task[t].status # "waiting_for_docs"
    /\ task[t].restarts >= RestartLimit
    /\ task' = WithStatus(t, "error")
    /\ UNCHANGED <<docVars, linted, hasDocs, worker, checker, retry, alive, faults>>

\* A waiting task whose replica is gone gets a new executor, and goes back to
\* processing: it is neither loaded now nor does it have to be.
AdoptWaitingTask(e, t) ==
    /\ Polling(e)
    /\ Free(t) /\ task[t].status = "waiting_for_docs"
    /\ task' = [task EXCEPT ![t] =
          [status |-> "processing", executor |-> e, restarts |-> task[t].restarts,
           stale |-> FALSE]]
    /\ UNCHANGED <<docVars, linted, hasDocs, worker, checker, retry, alive, faults>>

FindNoVersionTask(e) ==
    /\ Polling(e)
    /\ \A t \in VTasks : ~Free(t)
    /\ UNCHANGED vars

-----------------------------------------------------------------------------
(* processVersionLintTask                                                   *)

\* GetTaskById, then the documents and their rulesets.  The documents may be
\* unavailable; a type without an active ruleset makes the later insert fail;
\* when the rulesets cannot be read, every document task is created as failed.
LoadTask(e) ==
    /\ Ready(e, "acquire") /\ worker[e].pc = "loading"
    /\ LET t == worker[e].task
           Plan(p) == worker' = [worker EXCEPT ![e] =
               [pc |-> "saving", task |-> t, restarts |-> task[t].restarts, plan |-> p]]
           GiveUp == worker' = [worker EXCEPT ![e] = IdleWorker]
       IN \/ task[t].executor # e /\ GiveUp /\ UNCHANGED <<retry, faults>>
          \/ Fault /\ GiveUp /\ UNCHANGED retry
          \/ /\ task[t].executor = e
             /\ \/ Plan(IF hasDocs THEN "pending" ELSE "empty") /\ UNCHANGED <<retry, faults>>
                \/ hasDocs /\ Fault /\ Plan("error") /\ UNCHANGED retry
                \/ /\ GiveUp
                   /\ ProcessingFailed(e, "acquire", t, task[t].restarts)
                   /\ UNCHANGED faults
    /\ UNCHANGED <<task, docVars, linted, hasDocs, checker, alive>>

\* (mutation) the version task is set to waiting before its documents exist
SaveDocTasksAndUpdVer_VersionOnly(t, plan) ==
    /\ UNCHANGED <<docVars, linted>>
    /\ task' = WithStatus(t, IF plan = "error" THEN "error" ELSE "waiting_for_docs")

\* The batch is inserted and the version task updated by its id alone.
SaveDocTasksAndUpdVer(t, plan) ==
    /\ batches' = [batches EXCEPT ![t] = Append(batches[t], plan)]
    /\ task' = WithStatus(t, IF plan = "error" THEN "error" ELSE "waiting_for_docs")
    /\ UNCHANGED <<passed, linted>>

\* (mutation) the linted version is left out
EmptyVersionCompleted_TaskOnly(t) ==
    /\ task' = WithStatus(t, "success")
    /\ UNCHANGED <<docVars, linted>>

EmptyVersionCompleted(t) ==
    /\ task' = WithStatus(t, "success")
    /\ linted' = "success"
    /\ UNCHANGED docVars

SavePlan(e) ==
    /\ Ready(e, "acquire") /\ worker[e].pc = "saving"
    /\ LET t == worker[e].task
           Save == IF worker[e].plan = "empty" THEN EmptyVersionCompleted(t)
                   ELSE SaveDocTasksAndUpdVer(t, worker[e].plan)
       IN \/ Save /\ UNCHANGED <<retry, faults>>
          \/ /\ Fault
             /\ Save \/ UNCHANGED <<task, docVars, linted>>
             /\ ProcessingFailed(e, "acquire", t, worker[e].restarts)
    /\ worker' = [worker EXCEPT ![e] = IdleWorker]
    /\ UNCHANGED <<hasDocs, checker, alive>>

-----------------------------------------------------------------------------
(* checkDocReady                                                            *)

Waiting == {t \in VTasks : task[t].status = "waiting_for_docs"}

\* GetWaitingForDocTasks returns the waiting tasks of every replica.
ListWaiting(e) ==
    /\ Ready(e, "check") /\ checker[e].pc = "idle"
    /\ Waiting # {}
    /\ checker' = [checker EXCEPT ![e] = [pc |-> "listed", todo |->
          {[task |-> t, restarts |-> task[t].restarts, verdict |-> "unread"] : t \in Waiting}]]
    /\ UNCHANGED <<task, docVars, linted, hasDocs, worker, retry, alive, faults>>

BatchStatuses(t) == {batches[t][b] : b \in DOMAIN batches[t]}

\* (mutation) failed document tasks are not counted
Verdict_FailuresIgnored(t) == IF "pending" \in BatchStatuses(t) THEN "notReady" ELSE "success"

\* What the counts over the document tasks of t say.
Verdict(t) == IF "pending" \in BatchStatuses(t) THEN "notReady"
              ELSE IF "error" \in BatchStatuses(t) THEN "error" ELSE "success"

ReadDocTasks(e) ==
    /\ Ready(e, "check") /\ checker[e].pc = "listed"
    /\ checker' = [checker EXCEPT ![e] = [pc |-> "deciding", todo |->
          {[task |-> i.task, restarts |-> i.restarts, verdict |-> Verdict(i.task)] :
              i \in checker[e].todo}]]
    /\ UNCHANGED <<task, docVars, linted, hasDocs, worker, retry, alive, faults>>

\* The loop goes on to the next task of its list.
Done(e, i) ==
    LET rest == checker[e].todo \ {i}
    IN checker' = [checker EXCEPT ![e] =
          [pc |-> IF rest = {} THEN "idle" ELSE "deciding", todo |-> rest]]

Deciding(e, i) ==
    Ready(e, "check") /\ checker[e].pc = "deciding" /\ i \in checker[e].todo

\* UpdateLastActive, only where the executor is e.
RefreshWaiting(e, i) ==
    /\ Deciding(e, i) /\ i.verdict = "notReady"
    /\ task' = IF task[i.task].executor = e
               THEN WithStatus(i.task, task[i.task].status) ELSE task
    /\ Done(e, i)
    /\ UNCHANGED <<docVars, linted, hasDocs, worker, retry, alive, faults>>

VersionLintCompleted(t, verdict) ==
    /\ task' = WithStatus(t, "success")
    /\ linted' = verdict

\* GetLintedVersion has found the row; rows are not removed, so finding it and
\* overwriting it later is one step.
CompleteVersion(e, i) ==
    /\ Deciding(e, i) /\ i.verdict \in Outcomes
    /\ linted # "none"
    /\ \/ VersionLintCompleted(i.task, i.verdict) /\ UNCHANGED <<retry, faults>>
       \/ /\ Fault
          /\ VersionLintCompleted(i.task, i.verdict) \/ UNCHANGED <<task, linted>>
          /\ ProcessingFailed(e, "check", i.task, i.restarts)
    /\ Done(e, i)
    /\ UNCHANGED <<docVars, hasDocs, worker, alive>>

\* GetLintedVersion returns nil: there is no row, or any error at all, which
\* errors.As takes for sql.ErrNoRows.  The loop dies of the nil pointer.
CheckerPanics(e, i) ==
    /\ Deciding(e, i) /\ i.verdict \in Outcomes
    /\ \/ linted = "none" /\ UNCHANGED faults
       \/ Fault
    /\ checker' = [checker EXCEPT ![e] = [pc |-> "dead", todo |-> {}]]
    /\ UNCHANGED <<task, docVars, linted, hasDocs, worker, retry, alive>>

-----------------------------------------------------------------------------
(* handleProcessingFailed                                                   *)

\* VersionLintFailed looks the version up with the empty fields of a row it has
\* not read, finds nothing and rolls its own update back.
VersionLintFailed(l) ==
    /\ retry[l].pc = "read" /\ retry[l].restarts >= RestartLimit
    /\ retry' = [retry EXCEPT ![l] = NoRetry]
    /\ UNCHANGED <<task, faults>>

\* IncRestartCount reads the row without a lock ...
IncRestartRead(l) ==
    /\ retry[l].pc = "read" /\ retry[l].restarts < RestartLimit
    /\ \/ /\ retry' = [retry EXCEPT ![l] =
               [pc |-> "write", task |-> retry[l].task, restarts |-> retry[l].restarts,
                row |-> task[retry[l].task]]]
          /\ UNCHANGED faults
       \/ Fault /\ retry' = [retry EXCEPT ![l] = NoRetry]
    /\ UNCHANGED task

\* ... and writes all of its columns back, whatever has happened to it since.
IncRestartWrite(l) ==
    /\ retry[l].pc = "write"
    /\ LET t == retry[l].task
           row == retry[l].row
       IN task' = [task EXCEPT ![t] =
             [status |-> row.status, executor |-> row.executor,
              restarts |-> row.restarts + 1, stale |-> row.stale \/ task[t].stale]]
    /\ retry' = [retry EXCEPT ![l] = NoRetry]
    /\ UNCHANGED faults

HandleProcessingFailed(e, loop) ==
    /\ e \in alive
    /\ VersionLintFailed(<<e, loop>>) \/ IncRestartRead(<<e, loop>>) \/ IncRestartWrite(<<e, loop>>)
    /\ UNCHANGED <<docVars, linted, hasDocs, worker, checker, alive>>

-----------------------------------------------------------------------------
(* The document side, time and crashes                                      *)

\* SaveLintResult of one document of a batch that is not over yet.
SaveLintResult(t, b) ==
    /\ batches[t][b] = "pending"
    /\ linted # "inProgress"
    /\ linted' = "inProgress"
    /\ UNCHANGED <<task, docVars, hasDocs, worker, checker, retry, alive, faults>>

BatchBecomes(t, b, outcome) ==
    /\ batches' = [batches EXCEPT ![t][b] = outcome]
    /\ passed' = IF outcome = "success" THEN passed \cup {t} ELSE passed
    /\ UNCHANGED <<task, hasDocs, worker, checker, retry, alive>>

\* The last document task of a batch is finished: by SaveLintResult, or failed
\* for its restarts, which leaves the linted version alone.
FinishBatch(t, b) ==
    /\ batches[t][b] = "pending"
    /\ \E outcome \in Outcomes :
          /\ BatchBecomes(t, b, outcome)
          /\ \/ linted' = "inProgress"
             \/ outcome = "error" /\ UNCHANGED linted
    /\ UNCHANGED faults

\* A refresh that comes late sets a finished document task back to processing.
ReopenBatch(t, b) ==
    /\ batches[t][b] \in Outcomes
    /\ BatchBecomes(t, b, "pending")
    /\ Fault
    /\ UNCHANGED linted

\* A finished document task is saved again: by a run that was thought dead, or
\* as failed because the answer to the first call was lost.
RewriteBatch(t, b) ==
    /\ batches[t][b] \in Outcomes
    /\ \E outcome \in Outcomes : BatchBecomes(t, b, outcome)
    /\ Fault
    /\ linted' = "inProgress"

Expire(t) ==
    /\ task[t].status \in {"processing", "waiting_for_docs"} /\ ~task[t].stale
    /\ task' = [task EXCEPT ![t].stale = TRUE]
    /\ UNCHANGED <<docVars, linted, hasDocs, worker, checker, retry, alive, faults>>

\* One replica stays up.
Crash(e) ==
    /\ e \in alive
    /\ alive # {e}
    /\ alive' = alive \ {e}
    /\ worker' = [worker EXCEPT ![e] = IdleWorker]
    /\ checker' = [checker EXCEPT ![e] = IdleChecker]
    /\ retry' = [l \in Loops |-> IF l[1] = e THEN NoRetry ELSE retry[l]]
    /\ UNCHANGED <<task, docVars, linted, hasDocs, faults>>

-----------------------------------------------------------------------------
FindFreeVersionTask(e) ==
    \/ \E t \in VTasks : TakeVersionTask(e, t) \/ FailVersionTask(e, t) \/ AdoptWaitingTask(e, t)
    \/ FindNoVersionTask(e)

ProcessVersionLintTask(e) == LoadTask(e) \/ SavePlan(e)

CheckDocReady(e) ==
    \/ ListWaiting(e)
    \/ ReadDocTasks(e)
    \/ \E i \in checker[e].todo :
          RefreshWaiting(e, i) \/ CompleteVersion(e, i) \/ CheckerPanics(e, i)

Documents(t) == \E b \in DOMAIN batches[t] : \/ SaveLintResult(t, b) \/ FinishBatch(t, b)
                                             \/ ReopenBatch(t, b) \/ RewriteBatch(t, b)

Next == \/ \E e \in Execs : \/ FindFreeVersionTask(e)
                            \/ ProcessVersionLintTask(e)
                            \/ CheckDocReady(e)
                            \/ HandleProcessingFailed(e, "acquire")
                            \/ HandleProcessingFailed(e, "check")
                            \/ Crash(e)
        \/ \E t \in VTasks : Documents(t) \/ Expire(t)

Spec == Init /\ [][Next]_vars

\* Tickers restart both loops every 5 seconds, calls return, document tasks
\* settle (DocLint) and time passes.
Fairness ==
    /\ \A e \in Execs : /\ WF_vars(FindFreeVersionTask(e))
                        /\ WF_vars(ProcessVersionLintTask(e))
                        /\ WF_vars(CheckDocReady(e))
                        /\ WF_vars(HandleProcessingFailed(e, "acquire"))
                        /\ WF_vars(HandleProcessingFailed(e, "check"))
    /\ \A t \in VTasks : WF_vars(\E b \in DOMAIN batches[t] : FinishBatch(t, b)) /\ WF_vars(Expire(t))

FairSpec == Spec /\ Fairness

-----------------------------------------------------------------------------
\* The type of every variable; a busy loop has a task in hand.
TypeOK == /\ task \in [VTasks -> Row]
          /\ batches \in [VTasks -> Seq({"pending"} \cup Outcomes)]
          /\ passed \in SUBSET VTasks
          /\ linted \in {"none", "inProgress"} \cup Outcomes
          /\ hasDocs \in BOOLEAN
          /\ worker \in [Execs -> Worker]
          /\ \A e \in Execs : worker[e].pc # "idle" => worker[e].task \in VTasks
          /\ checker \in [Execs -> Checker]
          /\ retry \in [Loops -> Retry]
          /\ \A l \in Loops : retry[l].pc # "none" => retry[l].task \in VTasks
          /\ alive \in SUBSET Execs
          /\ faults \in 0..MaxFaults

\* A task that is waiting has documents to wait for, wherever "waiting" is
\* remembered: in the row, in a list a readiness loop works through, or in a row
\* IncRestartCount is about to write back.  Otherwise zero failures out of zero
\* documents would be a success.
WaitingHasDocs ==
    \A t \in VTasks : batches[t] = <<>> =>
        /\ task[t].status # "waiting_for_docs"
        /\ \A e \in Execs : \A i \in checker[e].todo : i.task # t
        /\ \A l \in Loops : retry[l].task = t => retry[l].row.status # "waiting_for_docs"

\* A version task that reads success left a row for its version, although the
\* readiness loop updates a row that may not be there and IncRestartCount may
\* bring an old row back.
SuccessHasVersion ==
    \A t \in VTasks : task[t].status = "success" => linted # "none"

\* A version with documents reads success only if the documents of some whole
\* batch have been linted without a failure, also when a document task is
\* reopened or saved again between the count and the verdict.
SuccessHasEvidence == linted = "success" /\ hasDocs => passed # {}

\* Every version task is finished at last and stays finished: a readiness loop
\* that died, a write lost in IncRestartCount or a failure that could not be
\* recorded is made up for by the lease and the restart limit.
EventuallyFinished == <>[](\A t \in VTasks : Finished(t))

-----------------------------------------------------------------------------
(* What the code says of itself and does not do                             *)

\* The readiness loop completes a task when the "version task is ready": none
\* of its document tasks is unfinished.
CompletedWhenReady ==
    [][\A t \in VTasks :
          /\ task[t].status = "waiting_for_docs"
          /\ task'[t].status = "success"
          => "pending" \notin BatchStatuses(t)]_vars
=============================================================================
