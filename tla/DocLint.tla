------------------------------ MODULE DocLint ------------------------------
(***************************************************************************)
(* The document lint tasks of one version and the replicas that work on    *)
(* them: the document_lint_task table as a leased work queue, the one      *)
(* worker every replica runs (docTaskProcessorImpl), the goroutine that    *)
(* refreshes a lease, and the result tables written by SaveLintResult.     *)
(*                                                                         *)
(* A replica is named by its executor id, a fresh uuid per process start:  *)
(* a restarted replica is a new member of Execs and a dead one never comes *)
(* back.  Each database transaction is one step; the code between two      *)
(* database calls is not, so the steps of two replicas interleave freely.  *)
(* A definition marked (mutation) is a plausible bug in the one after it,  *)
(* used by nothing but the runs that show a property refutes it.           *)
(***************************************************************************)
EXTENDS Naturals, FiniteSets

CONSTANTS
    Docs,        \* document lint tasks of the version
    Execs,       \* executor ids
    NoExec,      \* executor_id of a task nobody has taken yet
    NoDoc,       \* a nil *DocumentLintTask
    RestartLimit,  \* restarts after which a task is failed instead of taken
    MaxFaults    \* bound on the database calls that fail

ASSUME ExecsAssumption == NoExec \notin Execs
ASSUME DocsAssumption == NoDoc \notin Docs /\ Docs # {}
ASSUME RestartsAssumption == RestartLimit \in Nat
ASSUME FaultsAssumption == MaxFaults \in Nat

VARIABLES
    task,           \* document_lint_task: the row of every document
    linted,         \* linted_document.lint_status, "none" when there is no row
    fileResult,     \* documents that have a row in lint_file_result
    lintedVersion,  \* linted_version.lint_status of the version
    worker,         \* the worker goroutine of every replica
    armed,          \* refresh goroutines <<e, d>> still waiting in their select
    checked,        \* refresh goroutines <<e, d>> between the read and the write
    alive,          \* replicas that have not crashed
    faults          \* database calls that have failed so far

resultVars == <<linted, fileResult, lintedVersion>>
keepaliveVars == <<armed, checked>>
vars == <<task, resultVars, worker, keepaliveVars, alive, faults>>

Outcomes == {"success", "error"}

Task == [status : {"not_started", "processing"} \cup Outcomes,
         executor : Execs \cup {NoExec},
         restarts : 0..RestartLimit,
         stale : BOOLEAN]  \* last_active is older than 30 seconds

\* leftover is FindFreeDocTask's result variable between two of its rounds.
Worker == [pc : {"idle", "linting", "saving", "failing"},
           doc : Docs \cup {NoDoc},
           outcome : Outcomes,
           leftover : Docs \cup {NoDoc}]

IdleWorker == [pc |-> "idle", doc |-> NoDoc, outcome |-> "error",
               leftover |-> NoDoc]

\* An update of the status column always refreshes last_active as well.
WithStatus(d, status) ==
    [task EXCEPT ![d] = [task[d] EXCEPT !.status = status, !.stale = FALSE]]

Finished(d) == task[d].status \in Outcomes

\* The tasks queryItemToBuild selects.  "skip locked" makes the oldest task
\* invisible while another transaction holds it, so any free one may come first.
Free(d) == \/ task[d].status = "not_started"
           \/ task[d].status = "processing" /\ task[d].stale

-----------------------------------------------------------------------------
(* SaveDocTasksAndUpdVer has inserted the batch: a task whose ruleset could *)
(* not be found is inserted as failed by the replica that looked for it.    *)
InitialTasks ==
    [status : {"not_started"}, executor : {NoExec}, restarts : {0}, stale : {FALSE}]
    \cup [status : {"error"}, executor : Execs, restarts : {0}, stale : {FALSE}]

Init == /\ task \in [Docs -> InitialTasks]
        /\ linted = [d \in Docs |-> "none"]
        /\ fileResult = {}
        /\ lintedVersion = "none"
        /\ worker = [e \in Execs |-> IdleWorker]
        /\ armed = {}
        /\ checked = {}
        /\ alive = Execs
        /\ faults = 0

-----------------------------------------------------------------------------
(* docTaskProcessorImpl.processTask and FindFreeDocTask                     *)

Polling(e) == e \in alive /\ worker[e].pc = "idle"

\* processDocTask begins: it also starts the refresh goroutine.
StartRun(e, d) ==
    /\ worker' = [worker EXCEPT ![e] = [pc |-> "linting", doc |-> d,
                                        outcome |-> "error", leftover |-> NoDoc]]
    /\ armed' = armed \cup {<<e, d>>}
    /\ UNCHANGED checked

\* (mutation) one restart too many
RestartsLeft_OffByOne(d) == task[d].restarts <= RestartLimit

\* (mutation) a task is failed one restart early
RestartsLeft_OneEarly(d) == task[d].restarts + 1 < RestartLimit

RestartsLeft(d) == task[d].restarts < RestartLimit

\* (mutation) restart_count is not raised
RestartsAfter_NeverCounted(d) == task[d].restarts

\* Taking a task over from another run is a restart, the first run is not.
RestartsAfter(d) == IF task[d].status = "not_started"
                    THEN task[d].restarts ELSE task[d].restarts + 1

\* The free task found becomes e's.
TakeRow(e, d) ==
    /\ Free(d)
    /\ RestartsLeft(d)
    /\ task' = [task EXCEPT ![d] =
          [status |-> "processing", executor |-> e, stale |-> FALSE,
           restarts |-> RestartsAfter(d)]]

TakeDocTask(e, d) ==
    /\ Polling(e)
    /\ TakeRow(e, d)
    /\ StartRun(e, d)
    /\ UNCHANGED <<resultVars, alive, faults>>

\* The restart limit is reached: the task is failed and the loop goes for
\* another round, its result variable still holding the task, also when the
\* commit fails, for taskFailed is set by then.
FailDocTask(e, d) ==
    /\ Polling(e)
    /\ Free(d)
    /\ ~RestartsLeft(d)
    /\ \/ task' = WithStatus(d, "error") /\ UNCHANGED faults
       \/ faults < MaxFaults /\ faults' = faults + 1 /\ UNCHANGED task
    /\ worker' = [worker EXCEPT ![e].leftover = d]
    /\ UNCHANGED <<resultVars, keepaliveVars, alive>>

\* A round that finds nothing returns what an earlier round left in result.
FindNoDocTask(e) ==
    /\ Polling(e)
    /\ \A d \in Docs : ~Free(d)
    /\ IF worker[e].leftover = NoDoc
       THEN UNCHANGED vars
       ELSE /\ StartRun(e, worker[e].leftover)
            /\ UNCHANGED <<task, resultVars, alive, faults>>

\* FindFreeDocTask fails, before it has taken a task or after (the answer to the
\* commit is lost): processTask returns false and the leftover is dropped.
FindFails(e) ==
    /\ Polling(e)
    /\ faults < MaxFaults
    /\ faults' = faults + 1
    /\ worker' = [worker EXCEPT ![e] = IdleWorker]
    /\ \/ worker[e].leftover # NoDoc /\ UNCHANGED task
       \/ \E d \in Docs : TakeRow(e, d)
    /\ UNCHANGED <<resultVars, keepaliveVars, alive>>

-----------------------------------------------------------------------------
(* processDocTask                                                           *)

\* The linter has run: its report is readable, or it is not.
LintDocument(e) ==
    /\ e \in alive /\ worker[e].pc = "linting"
    /\ \E outcome \in Outcomes :
          worker' = [worker EXCEPT ![e].pc = "saving", ![e].outcome = outcome]
    /\ UNCHANGED <<task, resultVars, keepaliveVars, alive, faults>>

\* The document or its ruleset cannot be read, or no such linter exists.
AbortRun(e) ==
    /\ e \in alive /\ worker[e].pc = "linting"
    /\ worker' = [worker EXCEPT ![e].pc = "failing"]
    /\ UNCHANGED <<task, resultVars, keepaliveVars, alive, faults>>

\* (mutation) the update does not ask for the executor
SaveLintResult_Unfenced(e, d, outcome) ==
    /\ task' = WithStatus(d, outcome)
    /\ linted' = [linted EXCEPT ![d] = outcome]
    /\ fileResult' = IF outcome = "success" THEN fileResult \cup {d} ELSE fileResult
    /\ lintedVersion' = "inProgress"

\* (mutation) the version row is left to the version task
SaveLintResult_NoVersion(e, d, outcome) ==
    /\ task[d].executor = e
    /\ task' = WithStatus(d, outcome)
    /\ linted' = [linted EXCEPT ![d] = outcome]
    /\ fileResult' = IF outcome = "success" THEN fileResult \cup {d} ELSE fileResult
    /\ UNCHANGED lintedVersion

\* SaveLintResult commits: the task row is updated only where executor_id is
\* still e, and the version, document and file result rows go with it.
SaveLintResult(e, d, outcome) ==
    /\ task[d].executor = e
    /\ task' = WithStatus(d, outcome)
    /\ linted' = [linted EXCEPT ![d] = outcome]
    /\ fileResult' = IF outcome = "success" THEN fileResult \cup {d} ELSE fileResult
    /\ lintedVersion' = "inProgress"

\* (mutation) the number of updated rows is not looked at
SaveRefused_Unchecked(e, d) ==
    /\ task[d].executor # e
    /\ linted' = [linted EXCEPT ![d] = worker[e].outcome]
    /\ UNCHANGED <<task, fileResult, lintedVersion>>

\* No row was updated: the transaction is rolled back with an error.
SaveRefused(e, d) ==
    /\ task[d].executor # e
    /\ UNCHANGED <<task, resultVars>>

\* The call fails for the caller, whether or not its commit took effect.
SaveLost(e, d, outcome) ==
    /\ faults < MaxFaults
    /\ faults' = faults + 1
    /\ \/ SaveLintResult(e, d, outcome)
       \/ UNCHANGED <<task, resultVars>>

SaveRun(e) ==
    /\ e \in alive /\ worker[e].pc = "saving"
    /\ \/ /\ SaveLintResult(e, worker[e].doc, worker[e].outcome)
          /\ worker' = [worker EXCEPT ![e] = IdleWorker]
          /\ UNCHANGED faults
       \/ /\ SaveRefused(e, worker[e].doc)
          /\ worker' = [worker EXCEPT ![e].pc = "failing", ![e].outcome = "error"]
          /\ UNCHANGED faults
       \/ /\ SaveLost(e, worker[e].doc, worker[e].outcome)
          /\ worker' = [worker EXCEPT ![e].pc = "failing", ![e].outcome = "error"]
    /\ UNCHANGED <<keepaliveVars, alive>>

\* handleError: one attempt to record the failure; its own failure is logged.
HandleError(e) ==
    /\ e \in alive /\ worker[e].pc = "failing"
    /\ \/ SaveLintResult(e, worker[e].doc, "error") /\ UNCHANGED faults
       \/ SaveRefused(e, worker[e].doc) /\ UNCHANGED faults
       \/ SaveLost(e, worker[e].doc, "error")
    /\ worker' = [worker EXCEPT ![e] = IdleWorker]
    /\ UNCHANGED <<keepaliveVars, alive>>

-----------------------------------------------------------------------------
(* The refresh goroutine: a single select, then SetDocTaskStatus            *)

\* SetDocTaskStatus reads the row on a connection of its own.
KeepaliveCheck(e, d) ==
    /\ <<e, d>> \in armed
    /\ armed' = armed \ {<<e, d>>}
    /\ checked' = IF ~Finished(d) /\ task[d].executor = e
                  THEN checked \cup {<<e, d>>} ELSE checked
    /\ UNCHANGED <<task, resultVars, worker, alive, faults>>

\* ... and later updates it where executor_id is e, whatever its status is now.
KeepaliveWrite(e, d) ==
    /\ <<e, d>> \in checked
    /\ checked' = checked \ {<<e, d>>}
    /\ task' = IF task[d].executor = e
               THEN WithStatus(d, "processing")
               ELSE task
    /\ UNCHANGED <<resultVars, worker, armed, alive, faults>>

\* The run is over: runningC is closed and the goroutine leaves its select.
KeepaliveStop(e, d) ==
    /\ <<e, d>> \in armed
    /\ worker[e].pc = "idle" \/ worker[e].doc # d
    /\ armed' = armed \ {<<e, d>>}
    /\ UNCHANGED <<task, resultVars, worker, checked, alive, faults>>

-----------------------------------------------------------------------------
(* Time and crashes                                                         *)

\* 30 seconds pass without an update of the row.
Expire(d) ==
    /\ task[d].status = "processing" /\ ~task[d].stale
    /\ task' = [task EXCEPT ![d].stale = TRUE]
    /\ UNCHANGED <<resultVars, worker, keepaliveVars, alive, faults>>

\* A replica dies with everything in its memory; one replica stays up.
Crash(e) ==
    /\ e \in alive
    /\ alive # {e}
    /\ alive' = alive \ {e}
    /\ worker' = [worker EXCEPT ![e] = IdleWorker]
    /\ armed' = armed \ ({e} \X Docs)
    /\ checked' = checked \ ({e} \X Docs)
    /\ UNCHANGED <<task, resultVars, faults>>

-----------------------------------------------------------------------------
FindFreeDocTask(e) == \/ \E d \in Docs : TakeDocTask(e, d) \/ FailDocTask(e, d)
                      \/ FindNoDocTask(e)
                      \/ FindFails(e)

ProcessDocTask(e) == LintDocument(e) \/ AbortRun(e) \/ SaveRun(e) \/ HandleError(e)

Keepalive(e, d) == KeepaliveCheck(e, d) \/ KeepaliveWrite(e, d) \/ KeepaliveStop(e, d)

Next == \/ \E e \in Execs : FindFreeDocTask(e) \/ ProcessDocTask(e) \/ Crash(e)
        \/ \E e \in Execs, d \in Docs : Keepalive(e, d)
        \/ \E d \in Docs : Expire(d)

Spec == Init /\ [][Next]_vars

\* The 5 second ticker restarts the search; the linter call is cut off after
\* ten minutes; goroutines get to run; time passes.  A refresh goroutine whose
\* run is over cannot prefer its ticker to the closed channel for ever: select
\* picks a ready case at random, hence strong fairness.  Crashes and failing
\* database calls owe nothing to anybody.
Fairness == /\ \A e \in Execs : WF_vars(FindFreeDocTask(e)) /\ WF_vars(ProcessDocTask(e))
            /\ \A e \in Execs, d \in Docs : /\ WF_vars(KeepaliveCheck(e, d) \/ KeepaliveWrite(e, d))
                                        /\ SF_vars(KeepaliveStop(e, d))
            /\ \A d \in Docs : WF_vars(Expire(d))

FairSpec == Spec /\ Fairness

-----------------------------------------------------------------------------
\* The type of every variable; a worker that is not idle has a document.
TypeOK == /\ task \in [Docs -> Task]
          /\ linted \in [Docs -> Outcomes \cup {"none"}]
          /\ fileResult \in SUBSET Docs
          /\ lintedVersion \in {"none", "inProgress"}
          /\ worker \in [Execs -> Worker]
          /\ \A e \in Execs : worker[e].pc # "idle" => worker[e].doc \in Docs
          /\ armed \in SUBSET (Execs \X Docs)
          /\ checked \in SUBSET (Execs \X Docs)
          /\ alive \in SUBSET Execs
          /\ faults \in 0..MaxFaults

\* A task that reads success has its whole result: the linted document says
\* success, its report is stored and the version has a row.  SaveLintResult
\* must stay one transaction and must write nothing for an executor that has
\* lost the task, or the late error of one run splits the result of another.
SuccessHasResult ==
    \A d \in Docs : task[d].status = "success" =>
        /\ linted[d] = "success"
        /\ d \in fileResult
        /\ lintedVersion = "inProgress"

\* A result row changes, and a task becomes a success, only by the worker that
\* is ending a run on the document while the task row names its executor: a run
\* whose task was taken over by another replica leaves no trace in the results.
OnlyOwnerRecords ==
    [][\A d \in Docs :
          \/ linted'[d] # linted[d]
          \/ task'[d].status = "success" /\ task[d].status # "success"
          => \E e \in alive : /\ worker[e].doc = d
                              /\ worker[e].pc \in {"saving", "failing"}
                              /\ task[d].executor = e]_vars

\* What is left of the promise that a worker runs what the row gives to it: a run
\* that starts without the row is on a task whose restarts are used up.  No
\* replica takes such a task again, so that a stray run never works beside a run
\* that begins after it by taking the row.
StrayRunsAreExhausted ==
    [][\A e \in Execs :
          worker[e].pc = "idle" /\ worker'[e].pc = "linting" =>
             LET t == task'[worker'[e].doc]
             IN \/ t.status = "processing" /\ t.executor = e
                \/ t.restarts = RestartLimit]_vars

\* Every document task is finished at last and then stays finished, although
\* replicas crash, saves fail, leases lapse under live workers and a refresh
\* may reopen a finished task: each reopening spends one of the few restarts.
EventuallySettled == <>[](\A d \in Docs : Finished(d))

\* The task of a document as its readers see it.
Status(d) == IF Finished(d) THEN task[d].status ELSE "open"

Results == INSTANCE DocResults WITH
               status <- [d \in Docs |-> Status(d)], result <- linted,
               reports <- fileResult, version <- lintedVersion

\* Replicas, leases, refreshes, crashes and failing calls together do no more
\* to a document than record it whole, fail it for its restarts or reopen it.
ImplementsResults == Results!Spec

\* All documents together do no more to the version than module Batch says,
\* which is what VersionLint assumes of them: a success, in particular, is
\* never reached without a version row.
ImplementsBatch == Results!BatchSpec

-----------------------------------------------------------------------------
(* What the code says of itself and does not do                             *)

\* A finished task is not set back to processing: SetDocTaskStatus checks for
\* a finished task ("is already finished, skipping set status").
FinishedStaysFinished == [][\A d \in Docs : Finished(d) => Finished(d)']_vars

\* A task whose restart count exceeded the limit is failed, not run: a worker
\* starts only on a task that the row says it is processing.
RunsOnlyItsTask ==
    [][\A e \in Execs :
          worker[e].pc = "idle" /\ worker'[e].pc = "linting" =>
             /\ task'[worker'[e].doc].status = "processing"
             /\ task'[worker'[e].doc].executor = e]_vars
=============================================================================
