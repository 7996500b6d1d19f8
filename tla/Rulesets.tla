------------------------------ MODULE Rulesets ------------------------------
(***************************************************************************)
(* The rulesets: creation, activation, deletion and the clean-up of test   *)
(* data, called by concurrent requests, and the lint side that picks the   *)
(* active ruleset of an API type and linter (a slot) and refers to it.     *)
(*                                                                         *)
(* Tables: ruleset, ruleset_activation_history and, as one set, the lint   *)
(* data that refers to a ruleset (document_lint_task, linted_document,     *)
(* lint_file_result).  All of these have foreign keys to ruleset, so a     *)
(* ruleset that is referred to cannot be removed.  A definition marked     *)
(* (mutation) is a plausible bug in the one after it.                      *)
(***************************************************************************)
EXTENDS Naturals, FiniteSets

CONSTANTS
    Ids,            \* ruleset ids; an id is never used twice
    Slots,          \* pairs of API type and linter
    DefaultOf,      \* the ruleset the migration creates for every slot
    Names,          \* names a ruleset may be created with
    DefaultName,    \* the name of a default ruleset
    TestNames,      \* names that match the pattern of the clean-up
    Requests,       \* concurrent API requests
    NoId            \* no ruleset

ASSUME DefaultAssumption ==
    /\ DefaultOf \in [Slots -> Ids]
    /\ \A s, t \in Slots : DefaultOf[s] = DefaultOf[t] => s = t
ASSUME NamesAssumption == TestNames \subseteq Names /\ DefaultName \notin Names
ASSUME IdsAssumption == NoId \notin Ids

VARIABLES
    ruleset,      \* ruleset: the row of every id, "absent" before there is one;
                  \* afterwards "deleted" by DeleteRuleset or "cleaned" by ClearTestData
    openRecords,  \* ruleset_activation_history: rows with no deactivated_at, per id
    recorded,     \* ids with any row in ruleset_activation_history
    used,         \* ids the lint data refers to
    pick,         \* the ruleset a version task has selected and not used yet
    request,      \* the request handlers
    cleanup       \* the transaction of ClearTestData

historyVars == <<openRecords, recorded>>
lintVars == <<used, pick>>
vars == <<ruleset, historyVars, lintVars, request, cleanup>>

Row == [status : {"absent", "inactive", "active", "deleted", "cleaned"}, slot : Slots,
        name : Names \cup {DefaultName}, canBeDeleted : BOOLEAN]

Request == [op : {"none", "activate", "delete"}, id : Ids \cup {NoId},
            old : Ids \cup {NoId}]
NoRequest == [op |-> "none", id |-> NoId, old |-> NoId]

\* noLint and noHistory: ids whose every reference the transaction has deleted.
Cleanup == [pc : {"idle", "selected", "lintDeleted", "historyDeleted"},
            ids : SUBSET Ids, noLint : SUBSET Ids, noHistory : SUBSET Ids]
NoCleanup == [pc |-> "idle", ids |-> {}, noLint |-> {}, noHistory |-> {}]

Defaults == {DefaultOf[s] : s \in Slots}
SlotOfDefault(r) == CHOOSE s \in Slots : DefaultOf[s] = r

Exists(r) == ruleset[r].status \in {"inactive", "active"}
Active(s) == {r \in Ids : ruleset[r].status = "active" /\ ruleset[r].slot = s}

\* (mutation) the history has no foreign key
Referenced_LintOnly(r) == r \in used

\* A foreign key keeps the row of r.
Referenced(r) == r \in used \/ r \in recorded

Init == /\ ruleset \in
             {[r \in Ids |-> [status |-> IF r \in Defaults THEN "active" ELSE "absent",
                              slot |-> IF r \in Defaults THEN SlotOfDefault(r) ELSE s,
                              name |-> DefaultName,
                              canBeDeleted |-> FALSE]] : s \in Slots}
        /\ openRecords = [r \in Ids |-> IF r \in Defaults THEN 1 ELSE 0]
        /\ recorded = Defaults
        /\ used = {}
        /\ pick = NoId
        /\ request = [q \in Requests |-> NoRequest]
        /\ cleanup = NoCleanup

-----------------------------------------------------------------------------
(* rulesetServiceImpl                                                       *)

\* The name is checked first and by a unique constraint of name and API type.
CreateRuleset(r, s, n) ==
    /\ ruleset[r].status = "absent"
    /\ \A x \in Ids : Exists(x) => ruleset[x].name # n \/ ruleset[x].slot # s
    /\ ruleset' = [ruleset EXCEPT ![r] =
          [status |-> "inactive", slot |-> s, name |-> n, canBeDeleted |-> TRUE]]
    /\ UNCHANGED <<historyVars, lintVars, request, cleanup>>

\* (mutation) the active ruleset of the slot is not passed on
ActivateRead_NoCurrent(q, r) ==
    /\ request[q].op = "none"
    /\ Exists(r)
    /\ request' = [request EXCEPT ![q] = [op |-> "activate", id |-> r, old |-> NoId]]
    /\ UNCHANGED <<ruleset, historyVars, lintVars, cleanup>>

\* ActivateRuleset reads the ruleset and the active ones of its slot.
ActivateRead(q, r) ==
    /\ request[q].op = "none"
    /\ Exists(r)
    /\ \E old \in Active(ruleset[r].slot) :
          request' = [request EXCEPT ![q] = [op |-> "activate", id |-> r, old |-> old]]
    /\ UNCHANGED <<ruleset, historyVars, lintVars, cleanup>>

\* (mutation) the current ruleset is not looked at again under its lock
StillCurrent_Unchecked(old) == Exists(old)

\* SELECT ... FOR UPDATE SKIP LOCKED of the old ruleset finds it active.
StillCurrent(old) == ruleset[old].status = "active"

\* (mutation) the open record of the old ruleset is left open
HistoryAfter_LeftOpen(r, old) == [openRecords EXCEPT ![r] = openRecords[r] + 1]

\* The open records of old are closed, then one is opened for r.
HistoryAfter(r, old) ==
    [x \in Ids |-> (IF x = old THEN 0 ELSE openRecords[x]) + (IF x = r THEN 1 ELSE 0)]

Activated(r) == [ruleset[r] EXCEPT !.status = "active", !.canBeDeleted = FALSE]
Deactivated(r) == [ruleset[r] EXCEPT !.status = "inactive"]

\* The transaction of ActivateRuleset.  A record for a ruleset that is gone
\* breaks the foreign key and rolls everything back.  The rows ClearTestData
\* has deleted stay locked until its end, so closing one of them has to wait.
Activate(q) ==
    LET r == request[q].id
        old == request[q].old
    IN /\ request[q].op = "activate"
       /\ request' = [request EXCEPT ![q] = NoRequest]
       /\ old \notin cleanup.noHistory
       /\ IF StillCurrent(old) /\ Exists(r)
          THEN /\ ruleset' = [x \in Ids |->
                      IF x = r THEN Activated(x)
                      ELSE IF x = old THEN Deactivated(x) ELSE ruleset[x]]
               /\ openRecords' = HistoryAfter(r, old)
               /\ recorded' = recorded \cup {r}
               /\ cleanup' = [cleanup EXCEPT !.noHistory = @ \ {r}]
          ELSE UNCHANGED <<ruleset, historyVars, cleanup>>
       /\ UNCHANGED lintVars

\* The row of r once it is gone, and why: its id is not used again.
Removed(r, why) == [ruleset[r] EXCEPT !.status = why, !.canBeDeleted = FALSE]

\* DeleteRuleset reads the ruleset in the service and again in the transaction.
DeleteRead(q, r) ==
    /\ request[q].op = "none"
    /\ Exists(r) /\ ruleset[r].canBeDeleted
    /\ request' = [request EXCEPT ![q] = [op |-> "delete", id |-> r, old |-> NoId]]
    /\ UNCHANGED <<ruleset, historyVars, lintVars, cleanup>>

\* The row was not locked by the read; what still keeps it are the references.
Delete(q) ==
    LET r == request[q].id
    IN /\ request[q].op = "delete"
       /\ request' = [request EXCEPT ![q] = NoRequest]
       /\ IF Exists(r) /\ ~Referenced(r)
          THEN ruleset' = [ruleset EXCEPT ![r] = Removed(r, "deleted")]
          ELSE UNCHANGED ruleset
       /\ UNCHANGED <<historyVars, lintVars, cleanup>>

\* The call fails or its caller gives up before the transaction.
RequestFails(q) ==
    /\ request[q].op # "none"
    /\ request' = [request EXCEPT ![q] = NoRequest]
    /\ UNCHANGED <<ruleset, historyVars, lintVars, cleanup>>

-----------------------------------------------------------------------------
(* SelectLinterAndRuleset and the insert of the document tasks              *)

SelectLinterAndRuleset(s) ==
    /\ pick = NoId
    /\ pick' \in Active(s)
    /\ UNCHANGED <<ruleset, historyVars, used, request, cleanup>>

\* The insert fails when the ruleset is gone.
UsePicked ==
    /\ pick # NoId
    /\ IF Exists(pick)
       THEN /\ used' = used \cup {pick}
            /\ cleanup' = [cleanup EXCEPT !.noLint = @ \ {pick}]
       ELSE UNCHANGED <<used, cleanup>>
    /\ pick' = NoId
    /\ UNCHANGED <<ruleset, historyVars, request>>

-----------------------------------------------------------------------------
(* ClearTestData: one transaction, read committed, a statement a step       *)

\* (mutation) a filter that matches any name
TestRulesets_AnyName == {r \in Ids : ruleset[r].status = "inactive"}

TestRulesets == {r \in Ids : ruleset[r].status = "inactive" /\ ruleset[r].name \in TestNames}

CleanupSelect ==
    /\ cleanup.pc = "idle"
    /\ TestRulesets # {}
    /\ cleanup' = [NoCleanup EXCEPT !.pc = "selected", !.ids = TestRulesets]
    /\ UNCHANGED <<ruleset, historyVars, lintVars, request>>

CleanupLintData ==
    /\ cleanup.pc = "selected"
    /\ cleanup' = [cleanup EXCEPT !.pc = "lintDeleted", !.noLint = cleanup.ids]
    /\ UNCHANGED <<ruleset, historyVars, lintVars, request>>

CleanupHistory ==
    /\ cleanup.pc = "lintDeleted"
    /\ cleanup' = [cleanup EXCEPT !.pc = "historyDeleted", !.noHistory = cleanup.ids]
    /\ UNCHANGED <<ruleset, historyVars, lintVars, request>>

\* The rulesets are deleted by the ids selected first; the transaction commits
\* unless something has come to refer to one of them.
CleanupRulesets ==
    /\ cleanup.pc = "historyDeleted"
    /\ cleanup' = NoCleanup
    /\ IF \A r \in cleanup.ids : /\ r \in used => r \in cleanup.noLint
                                 /\ r \in recorded => r \in cleanup.noHistory
       THEN /\ ruleset' = [r \in Ids |-> IF r \in cleanup.ids /\ Exists(r)
                              THEN Removed(r, "cleaned")
                              ELSE ruleset[r]]
            /\ openRecords' = [r \in Ids |-> IF r \in cleanup.ids THEN 0 ELSE openRecords[r]]
            /\ recorded' = recorded \ cleanup.ids
            /\ used' = used \ cleanup.ids
       ELSE UNCHANGED <<ruleset, historyVars, used>>
    /\ UNCHANGED <<pick, request>>

ClearTestData == CleanupSelect \/ CleanupLintData \/ CleanupHistory \/ CleanupRulesets

-----------------------------------------------------------------------------
Handle(q) == \/ \E r \in Ids : ActivateRead(q, r) \/ DeleteRead(q, r)
             \/ Activate(q)
             \/ Delete(q)
             \/ RequestFails(q)

Next == \/ \E r \in Ids, s \in Slots, n \in Names : CreateRuleset(r, s, n)
        \/ \E q \in Requests : Handle(q)
        \/ \E s \in Slots : SelectLinterAndRuleset(s)
        \/ UsePicked

Spec == Init /\ [][Next]_vars

\* A test system, in which the clean-up of test data is called as well.
TestNext == Next \/ ClearTestData

TestSpec == Init /\ [][TestNext]_vars

-----------------------------------------------------------------------------
\* The type of every variable.
TypeOK == /\ ruleset \in [Ids -> Row]
          /\ openRecords \in [Ids -> Nat]
          /\ recorded \in SUBSET Ids
          /\ used \in SUBSET Ids
          /\ pick \in Ids \cup {NoId}
          /\ request \in [Requests -> Request]
          /\ \A q \in Requests : /\ request[q].op # "none" => request[q].id \in Ids
                                 /\ request[q].op = "activate" => request[q].old \in Ids
          /\ cleanup \in Cleanup

\* "There is always one active ruleset in the system for each supported API
\* type and linter", however activations and deletions overlap.
OneActivePerSlot ==
    \A s \in Slots : \E r \in Ids : Active(s) = {r}

\* What is left of that sentence when the clean-up of test data is called, in the
\* middle of activations too: a slot never has two active rulesets, and one that
\* has none has lost a test ruleset to the clean-up, never one to DeleteRuleset.
\* A slot in which no test ruleset ever was is never left empty.
SlotKeptOrCleaned ==
    \A s \in Slots :
        \/ \E r \in Ids : Active(s) = {r}
        \/ /\ Active(s) = {}
           /\ \E r \in Ids : /\ ruleset[r].status = "cleaned"
                            /\ ruleset[r].slot = s
                            /\ ruleset[r].name \in TestNames

\* The activation history agrees with the rulesets: an active ruleset has one
\* open record, any other ruleset has none.
HistoryAgrees ==
    \A r \in Ids : openRecords[r] = IF ruleset[r].status = "active" THEN 1 ELSE 0

\* A ruleset that is active, or that lint data refers to, is not removed: a
\* deletion that found it inactive and unused comes too late.  Of one that was
\* active and is neither now this says nothing: the API description has it deletable
\* (docs/api/linter_service_api.yaml:175 and 585-590), the code never deletes it,
\* for an activation clears can_be_deleted for good and leaves a history row.
KnownRulesetsStay ==
    [][\A r \in Ids : Exists(r) /\ (r \in used \/ ruleset[r].status = "active")
                          => Exists(r)']_vars

\* The rulesets as their readers see them.
Presence(r) == IF Exists(r) THEN "present"
               ELSE IF ruleset[r].status = "absent" THEN "absent" ELSE "removed"

SwitchedSlots == INSTANCE RulesetSlots WITH
                     state <- [r \in Ids |-> Presence(r)],
                     slot <- [r \in Ids |-> ruleset[r].slot],
                     active <- {r \in Ids : ruleset[r].status = "active"},
                     past <- recorded

\* Requests that read first and write later, overtake each other and fail
\* together do no more than switch one slot at a time to a ruleset that is
\* there, and never remove one that has been active, which is more than the API
\* description says (KnownRulesetsStay).
ImplementsSlots == SwitchedSlots!Spec
=============================================================================
