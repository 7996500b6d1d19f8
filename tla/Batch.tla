------------------------------- MODULE Batch -------------------------------
(***************************************************************************)
(* What the version side relies on of one batch of document tasks: its     *)
(* outcome, as checkDocReady counts it, and the version row the documents  *)
(* leave behind.  DocResults implements it for every set of documents, and *)
(* VersionLint takes these steps for the batches it sees.                  *)
(***************************************************************************)

VARIABLES
    outcome,  \* "pending" while a document task is unfinished
    row       \* linted_version.lint_status as the documents write it

Outcomes == {"success", "error"}

\* Nothing is saved yet; every document may have been inserted as failed.
Init == outcome \in {"pending", "error"} /\ row = "none"

\* A document is saved and others are still open.
Save == outcome = "pending" /\ UNCHANGED outcome /\ row' = "inProgress"

\* The last open document is saved, or failed for its restarts: only then the
\* version row may be left alone, and the outcome is an error.
Settle == /\ outcome = "pending"
          /\ outcome' \in Outcomes
          /\ \/ row' = "inProgress"
             \/ outcome' = "error" /\ UNCHANGED row

\* A finished document is set back to processing by a late refresh.
Reopen == outcome \in Outcomes /\ outcome' = "pending" /\ UNCHANGED row

\* A finished document is saved again.
Rewrite == outcome \in Outcomes /\ outcome' \in Outcomes /\ row' = "inProgress"

Next == Save \/ Settle \/ Reopen \/ Rewrite

Spec == Init /\ [][Next]_<<outcome, row>>
=============================================================================
