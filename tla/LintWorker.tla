----------------------------- MODULE LintWorker -----------------------------
(***************************************************************************)
(* The document worker inside one replica (docTaskProcessorImpl.Start and  *)
(* spectralExecutorImpl), working beside the requests and the clean-up of  *)
(* module Rulesets: a ticker that starts a run unless one is running, a    *)
(* flag that the run itself sets and clears, a semaphore around the linter *)
(* process, and a recover that ends a run that panics.                     *)
(*                                                                         *)
(* Of a document task a run keeps the ruleset: what happens to the task    *)
(* row is the subject of DocLint.  A definition marked (mutation) is a     *)
(* plausible bug in the one after it.                                      *)
(***************************************************************************)
EXTENDS Rulesets

CONSTANTS Runs  \* bound on the runs that exist at a time

VARIABLES
    running,  \* the flag of Start
    run,      \* the goroutines a tick has started
    permits   \* tokens in the channel of the semaphore

workerVars == <<running, run, permits>>
allVars == <<vars, workerVars>>

\* A run that has panicked is kept: it has left the flag as it was.
Run == [pc : {"none", "started", "finding", "preparing", "queueing", "linting",
              "ending", "panicked"},
        ruleset : Ids \cup {NoId}]

NoRun == [pc |-> "none", ruleset |-> NoId]
At(g, pc) == run[g].pc = pc
Becomes(g, pc) == run' = [run EXCEPT ![g].pc = pc]

WorkerInit == Init /\ running = FALSE /\ run = [g \in Runs |-> NoRun] /\ permits = 0

-----------------------------------------------------------------------------
(* Start                                                                    *)

\* The flag is read by the ticker's goroutine and set by the run: another tick
\* may come in between.
Tick(g) ==
    /\ ~running
    /\ At(g, "none") /\ Becomes(g, "started")
    /\ UNCHANGED <<running, permits>>

BeginRun(g) ==
    /\ At(g, "started") /\ Becomes(g, "finding")
    /\ running' = TRUE
    /\ UNCHANGED permits

\* FindFreeDocTask: a document task refers to a ruleset, and rows the clean-up
\* has deleted are skipped as locked.  The search may find nothing, or fail.
FindTask(g) ==
    /\ At(g, "finding")
    /\ \/ Becomes(g, "ending")
       \/ \E r \in used \ cleanup.noLint :
             run' = [run EXCEPT ![g] = [pc |-> "preparing", ruleset |-> r]]
    /\ UNCHANGED <<running, permits>>

\* (mutation) the flag is left set
EndRun_FlagKept(g) ==
    /\ At(g, "ending")
    /\ run' = [run EXCEPT ![g] = NoRun]
    /\ UNCHANGED <<running, permits>>

\* Any run that ends clears the flag, whether or not another one goes on.
EndRun(g) ==
    /\ At(g, "ending")
    /\ run' = [run EXCEPT ![g] = NoRun]
    /\ running' = FALSE
    /\ UNCHANGED permits

-----------------------------------------------------------------------------
(* processDocTask                                                           *)

\* GetRulesetWithData finds no row and no error: rs is nil.  The panic unwinds
\* the run past running.Store(false).
ReadRuleset(g) ==
    /\ At(g, "preparing")
    /\ Becomes(g, IF Exists(run[g].ruleset) THEN "queueing" ELSE "panicked")
    /\ UNCHANGED <<running, permits>>

\* The document, its ruleset or the temporary files cannot be had, or the
\* linter is not supported: handleError, then the next task.
GiveUpTask(g) ==
    /\ At(g, "preparing")
    /\ run' = [run EXCEPT ![g] = [pc |-> "finding", ruleset |-> NoId]]
    /\ UNCHANGED <<running, permits>>

\* (mutation) a permit for every core
Capacity_TwoCores == 2

Capacity == 1

\* (mutation) the semaphore is only looked at
StartLinter_NotAcquired(g) ==
    /\ At(g, "queueing") /\ Becomes(g, "linting")
    /\ permits < Capacity
    /\ UNCHANGED <<running, permits>>

\* LintLocalDoc waits for the semaphore and starts the linter.
StartLinter(g) ==
    /\ At(g, "queueing") /\ Becomes(g, "linting")
    /\ permits < Capacity
    /\ permits' = permits + 1
    /\ UNCHANGED running

\* The linter exits with a report, with an error, or is killed at its deadline;
\* the permit goes back in each case.  The result is saved, or that is refused.
LinterEnds(g) ==
    /\ At(g, "linting")
    /\ run' = [run EXCEPT ![g] = [pc |-> "finding", ruleset |-> NoId]]
    /\ permits' = permits - 1
    /\ UNCHANGED running

-----------------------------------------------------------------------------
StartOrEnd(g) == Tick(g) \/ BeginRun(g) \/ FindTask(g) \/ EndRun(g)

ProcessTask(g) == ReadRuleset(g) \/ GiveUpTask(g) \/ StartLinter(g) \/ LinterEnds(g)

WorkerNext == \/ Next /\ UNCHANGED workerVars
              \/ ClearTestData /\ UNCHANGED workerVars
              \/ \E g \in Runs : (StartOrEnd(g) \/ ProcessTask(g)) /\ UNCHANGED vars

WorkerSpec == WorkerInit /\ [][WorkerNext]_allVars

\* The ticker goes on, goroutines get to run, calls return and the linter is
\* killed after ten minutes.  Requests and the clean-up owe nothing.
WorkerFairSpec ==
    /\ WorkerSpec
    /\ WF_allVars((\E g \in Runs : Tick(g)) /\ UNCHANGED vars)
    /\ \A g \in Runs :
          WF_allVars((BeginRun(g) \/ FindTask(g) \/ EndRun(g) \/ ProcessTask(g)) /\ UNCHANGED vars)

-----------------------------------------------------------------------------
\* The type of every variable of the worker.
WorkerTypeOK == /\ running \in BOOLEAN
                /\ run \in [Runs -> Run]
                /\ permits \in Nat

\* One linter process at a time, although the flag lets two runs overlap.
OneLinter == \A g, h \in Runs : At(g, "linting") /\ At(h, "linting") => g = h

\* A run panics only over a ruleset the clean-up of test data has removed: no
\* DeleteRuleset and no activation, however late, takes the ruleset of a task away.
PanicsOnlyAfterCleanup ==
    \A g \in Runs : At(g, "panicked") =>
        /\ ruleset[run[g].ruleset].status = "cleaned"
        /\ ruleset[run[g].ruleset].name \in TestNames

\* The worker looks for tasks again and again, or a run of it has panicked:
\* neither overlapping runs nor a linter that is killed leave the flag set or
\* the semaphore taken for ever.
PollsAgain == []<>(\E g \in Runs : At(g, "finding")) \/ <>(\E g \in Runs : At(g, "panicked"))
=============================================================================
