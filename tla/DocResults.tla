---------------------------- MODULE DocResults -----------------------------
(***************************************************************************)
(* What the document queue promises its readers, without replicas, leases, *)
(* refreshes or failing calls: a document is recorded in one step, with    *)
(* its task, its result, its report and the version row together; besides  *)
(* that a task may only be failed for its restarts or, after a late        *)
(* refresh, be open again with its results left as they were.  DocLint     *)
(* implements it; Batch is what is left of it for the version side.        *)
(***************************************************************************)
CONSTANTS Docs  \* document lint tasks of the version, not empty

VARIABLES
    status,   \* the task: "open" until it is finished
    result,   \* linted_document.lint_status, "none" when there is no row
    reports,  \* documents that have a row in lint_file_result
    version   \* linted_version.lint_status

resultVars == <<result, reports, version>>
vars == <<status, resultVars>>

Outcomes == {"success", "error"}

Init == /\ status \in [Docs -> {"open", "error"}]
        /\ result = [d \in Docs |-> "none"]
        /\ reports = {}
        /\ version = "none"

\* SaveLintResult: everything or nothing.
Record(d, o) ==
    /\ status' = [status EXCEPT ![d] = o]
    /\ result' = [result EXCEPT ![d] = o]
    /\ reports' = IF o = "success" THEN reports \cup {d} ELSE reports
    /\ version' = "inProgress"

\* FindFreeDocTask fails a task whose restarts are used up.
Fail(d) ==
    /\ status[d] = "open"
    /\ status' = [status EXCEPT ![d] = "error"]
    /\ UNCHANGED resultVars

\* SetDocTaskStatus on a task that was finished after it had looked.
Reopen(d) ==
    /\ status[d] \in Outcomes
    /\ status' = [status EXCEPT ![d] = "open"]
    /\ UNCHANGED resultVars

Next == \E d \in Docs : Fail(d) \/ Reopen(d) \/ \E o \in Outcomes : Record(d, o)

Spec == Init /\ [][Next]_vars

-----------------------------------------------------------------------------
\* What the counts over the documents of the version say.
Outcome == IF \E d \in Docs : status[d] = "open" THEN "pending"
           ELSE IF \E d \in Docs : status[d] = "error" THEN "error" ELSE "success"

Seen == INSTANCE Batch WITH outcome <- Outcome, row <- version

\* The batch as a whole only does what the version side allows it to do.
BatchSpec == Seen!Spec
=============================================================================
