----------------------------- MODULE Validation -----------------------------
(***************************************************************************)
(* Who asks for a lint and what is said of it: publish events, which reach *)
(* every replica in any order, and manual requests insert version lint     *)
(* tasks (publishEventListenerImpl, ValidateVersion); GetVersionSummary    *)
(* and GetValidationResult tell a client how a version and its document    *)
(* stand, from several reads at several times.                             *)
(*                                                                         *)
(* The lint side appears by what it writes to the tables the summary       *)
(* reads: the transactions of DocLint and VersionLint, without the         *)
(* question of which replica runs them.  A version stands for a package    *)
(* version with its revision; it has one document, whose content, and so   *)
(* whose data hash, is its own.  A definition marked (mutation) is a       *)
(* plausible bug in the one after it.                                      *)
(***************************************************************************)
EXTENDS Naturals, FiniteSets

CONSTANTS
    Versions,    \* package versions with a revision
    Tasks,       \* ids of version lint tasks; an id is never used twice
    Events,      \* ids of publish events
    VersionOf,   \* the version a publish event is about
    NoEvent,     \* event_id of a manual task: null, which is not unique
    Rulesets,    \* rulesets a document may be linted with
    NoRuleset,   \* ruleset of a document that has not been linted
    Replicas,    \* replicas that listen to publish events
    Clients,     \* clients that ask for a summary or for one document
    AnsweredBy,  \* the replica a client's request is routed to
    MaxFaults    \* bound on the calls that fail and the replicas that crash

ASSUME VersionsAssumption == Versions # {}
ASSUME EventsAssumption == VersionOf \in [Events -> Versions] /\ NoEvent \notin Events
ASSUME RulesetsAssumption == NoRuleset \notin Rulesets
ASSUME ReplicasAssumption == IsFiniteSet(Replicas)
ASSUME ClientsAssumption == AnsweredBy \in [Clients -> Replicas]
ASSUME FaultsAssumption == MaxFaults \in Nat

VARIABLES
    tasks,       \* version_lint_task
    version,     \* linted_version.lint_status, "none" when there is no row
    document,    \* linted_document of the document of every version
    results,     \* lint_file_result: pairs of a version's content and a ruleset
    published,   \* events that have been published
    inbox,       \* <<replica, event>>: delivered and not listened to yet
    reader,      \* the answer every client is waiting for or has got
    noRows,      \* sql.ErrNoRows, a global variable of every process that is asked
    faults       \* calls that have failed and crashes so far

tableVars == <<version, document, results>>
eventVars == <<published, inbox>>
vars == <<tasks, tableVars, eventVars, reader, noRows, faults>>

Outcomes == {"success", "error"}

\* "open" stands for not_started, processing and waiting_for_docs.
Task == [status : {"absent", "open"} \cup Outcomes, version : Versions,
         event : Events \cup {NoEvent}]

Document == [status : {"none"} \cup Outcomes, ruleset : Rulesets \cup {NoRuleset}]
NoDocument == [status |-> "none", ruleset |-> NoRuleset]

\* accepted: a summary was asked for when the version had a task already.
\* issues: how the document is shown, "omitted" when it is left out.
Reader == [pc : {"idle", "version", "documents", "results", "tasks", "linted",
                 "report", "done"},
           version : Versions, accepted : BOOLEAN,
           status : {"none", "inProgress", "notFound", "failed"} \cup Outcomes,
           document : Document, issues : {"omitted", "failed", "shown"}]

\* What a query may answer instead of a row: the driver's value for no row, a
\* failure that is the same value whenever it happens (a pool that is full, a
\* connection that was closed), or one that equals no other (a report of the
\* server).
Errors == {"noRow", "recurring", "unique"}

Exists(t) == tasks[t].status # "absent"
TasksOf(v) == {t \in Tasks : Exists(t) /\ tasks[t].version = v}
Open(t) == tasks[t].status = "open"

\* The version of an id nobody has used and of a client that has not asked.
AnyVersion == CHOOSE v \in Versions : TRUE

\* Nobody else reads the variable.
Asked == {AnsweredBy[c] : c \in Clients}

Init == /\ tasks = [t \in Tasks |->
               [status |-> "absent", version |-> AnyVersion, event |-> NoEvent]]
        /\ version = [v \in Versions |-> "none"]
        /\ document = [v \in Versions |-> NoDocument]
        /\ results = {}
        /\ published = {}
        /\ inbox = {}
        /\ reader = [c \in Clients |->
               [pc |-> "idle", version |-> AnyVersion, accepted |-> FALSE, status |-> "none",
                document |-> NoDocument, issues |-> "omitted"]]
        /\ noRows = [r \in Asked |-> "sql"]
        /\ faults = 0

\* A call fails, or a replica.
Fault == faults < MaxFaults /\ faults' = faults + 1

\* A query answers with an error: no row, when there is none, or a failure.
Errs(e, none) == IF e = "noRow" THEN none /\ UNCHANGED faults ELSE Fault

\* errors.As(err, &sql.ErrNoRows) is true of any error and assigns it to the
\* variable, which is not what the driver answers for no row to begin with.
AsNoRows(r, e) == noRows' = [noRows EXCEPT ![r] = e]

\* errors.Is(err, sql.ErrNoRows), with whatever the variable holds by now.
IsNoRows(r, e) == e = noRows[r] /\ e # "unique"

-----------------------------------------------------------------------------
(* publishEventListenerImpl and ValidateVersion                             *)

\* (mutation) an event is a duplicate only while its task is open
Duplicate_OpenOnly(e) == \E t \in Tasks : Open(t) /\ tasks[t].event = e

\* version_lint_task_event_id_unique, which null values do not take part in.
Duplicate(e) == e # NoEvent /\ \E t \in Tasks : Exists(t) /\ tasks[t].event = e

\* The insert of a task, under an id nobody has used.
SaveVersionTask(v, e) ==
    \E t \in Tasks :
        /\ ~Exists(t)
        /\ tasks' = [tasks EXCEPT ![t] = [status |-> "open", version |-> v, event |-> e]]

PublishVersion(e) ==
    /\ e \notin published
    /\ published' = published \cup {e}
    /\ inbox' = inbox \cup (Replicas \X {e})
    /\ UNCHANGED <<tasks, tableVars, reader, noRows, faults>>

\* (mutation) the event is taken off the topic for everybody
Received_ByAll(r, e) == inbox' = inbox \ (Replicas \X {e})

\* The topic hands the message to this replica only; it is not handed out again.
Received(r, e) == inbox' = inbox \ {<<r, e>>}

\* A call to API Hub or the insert fails, or the package is not supported: the
\* event is logged and dropped.  Otherwise a task is inserted, unless the event
\* has one already.
Listen(r, e) ==
    /\ <<r, e>> \in inbox
    /\ Received(r, e)
    /\ \/ Fault /\ UNCHANGED tasks
       \/ Duplicate(e) /\ UNCHANGED <<tasks, faults>>
       \/ ~Duplicate(e) /\ SaveVersionTask(VersionOf[e], e) /\ UNCHANGED faults
    /\ UNCHANGED <<tableVars, published, reader, noRows>>

\* Ids are kept for the events that still need one.
ValidateVersion(v) ==
    /\ Cardinality({t \in Tasks : ~Exists(t)})
          > Cardinality({e \in Events : ~Duplicate(e)})
    /\ SaveVersionTask(v, NoEvent)
    /\ UNCHANGED <<tableVars, eventVars, reader, noRows, faults>>

\* A replica crashes, or is down, or does not listen yet, when an event comes:
\* the events that were its to hear are lost to it.  Its next process has the
\* variable as the library sets it.
Crash(r) ==
    /\ \E e \in Events : <<r, e>> \in inbox
    /\ Fault
    /\ inbox' = inbox \ ({r} \X Events)
    /\ noRows' = [q \in Asked |-> IF q = r THEN "sql" ELSE noRows[q]]
    /\ UNCHANGED <<tasks, tableVars, published, reader>>

-----------------------------------------------------------------------------
(* What the lint side writes                                                *)

\* (mutation) a report is stored for a content once, whatever the ruleset
Stored_OncePerContent(v, s) ==
    IF \E x \in Rulesets : <<v, x>> \in results THEN results ELSE results \cup {<<v, s>>}

\* The report goes with the hash of the content and the ruleset.
Stored(v, s) == results \cup {<<v, s>>}

\* One transaction; the version may have its verdict already.
SaveLintResult(v, s, outcome) ==
    /\ TasksOf(v) # {}
    /\ document' = [document EXCEPT ![v] = [status |-> outcome, ruleset |-> s]]
    /\ results' = IF outcome = "success" THEN Stored(v, s) ELSE results
    /\ version' = [version EXCEPT ![v] = "inProgress"]
    /\ UNCHANGED <<tasks, eventVars, reader, noRows, faults>>

Finish(t, status) ==
    /\ Open(t)
    /\ tasks' = [tasks EXCEPT ![t] = [status |-> status, version |-> tasks[t].version,
                                      event |-> tasks[t].event]]

VersionLintCompleted(t, verdict) ==
    /\ Finish(t, "success")
    /\ version[tasks[t].version] # "none"
    /\ version' = [version EXCEPT ![tasks[t].version] = verdict]
    /\ UNCHANGED <<document, results, eventVars, reader, noRows, faults>>

EmptyVersionCompleted(t) ==
    /\ Finish(t, "success")
    /\ document[tasks[t].version] = NoDocument
    /\ version' = [version EXCEPT ![tasks[t].version] = "success"]
    /\ UNCHANGED <<document, results, eventVars, reader, noRows, faults>>

\* The task is out of restarts: nothing else is written.
VersionLintFails(t) ==
    /\ Finish(t, "error")
    /\ UNCHANGED <<tableVars, eventVars, reader, noRows, faults>>

\* GetLintedVersion: a readiness loop looks up the version of a task it is about to
\* decide, finds no row, because no document was saved, or fails, and goes down
\* (VersionLint).
LookUpVersion(r, t) ==
    /\ Open(t)
    /\ \E e \in Errors : Errs(e, version[tasks[t].version] = "none") /\ AsNoRows(r, e)
    /\ UNCHANGED <<tasks, tableVars, eventVars, reader>>

-----------------------------------------------------------------------------
(* GetVersionSummary                                                        *)

At(c, pc) == reader[c].pc = pc

\* The client's state after a step; the rest of it stays.
Becomes(c, pc, status, doc, issues) ==
    reader' = [reader EXCEPT ![c] =
        [pc |-> pc, version |-> reader[c].version, accepted |-> reader[c].accepted,
         status |-> status, document |-> doc, issues |-> issues]]

\* A client asks once; another question is another client's.
Ask(c, v, pc, accepted) ==
    /\ At(c, "idle")
    /\ reader' = [reader EXCEPT ![c] =
          [pc |-> pc, version |-> v, accepted |-> accepted,
           status |-> "none", document |-> NoDocument, issues |-> "omitted"]]
    /\ UNCHANGED <<tasks, tableVars, eventVars, noRows, faults>>

AskSummary(c, v) == Ask(c, v, "version", TasksOf(v) # {})
AskDocument(c, v) == Ask(c, v, "linted", FALSE)

\* (mutation) a version without a row is not told apart
NotLinted_Never(v) == FALSE

NotLinted(v) == version[v] = "none"

\* GetVersionAndDocsSummary takes any error of its two queries for a version
\* that is not linted, and puts it in the place of sql.ErrNoRows.
ReadVersion(c) ==
    LET v == reader[c].version
    IN /\ At(c, "version")
       /\ \/ ~NotLinted(v) /\ Becomes(c, "documents", version[v], NoDocument, "omitted")
             /\ UNCHANGED <<noRows, faults>>
          \/ \E e \in Errors : /\ Errs(e, NotLinted(v))
                              /\ AsNoRows(AnsweredBy[c], e)
                              /\ Becomes(c, "tasks", "none", NoDocument, "omitted")
       /\ UNCHANGED <<tasks, tableVars, eventVars>>

\* A list of no rows is no error.
ReadDocuments(c) ==
    /\ At(c, "documents")
    /\ \/ Becomes(c, "results", reader[c].status, document[reader[c].version], "omitted")
          /\ UNCHANGED <<noRows, faults>>
       \/ \E e \in Errors : /\ Errs(e, FALSE)
                           /\ AsNoRows(AnsweredBy[c], e)
                           /\ Becomes(c, "tasks", "none", NoDocument, "omitted")
    /\ UNCHANGED <<tasks, tableVars, eventVars>>

\* The rulesets of the documents are read, and of a document that was linted the
\* issues; without them it is left out.  A failure that equals what sql.ErrNoRows
\* was set to reads as no issues.
ReadResults(c) ==
    LET doc == reader[c].document
        reported == <<reader[c].version, doc.ruleset>> \in results
        Tells(issues) == Becomes(c, "done", reader[c].status, doc, issues)
        Fails == Becomes(c, "done", "failed", NoDocument, "omitted")
    IN /\ At(c, "results")
       /\ \/ doc = NoDocument /\ Tells("omitted") /\ UNCHANGED faults
          \/ doc.status = "error" /\ Tells("failed") /\ UNCHANGED faults
          \/ doc.status = "success" /\ reported /\ Tells("shown") /\ UNCHANGED faults
          \/ /\ doc.status = "success"
             /\ \E e \in Errors : /\ Errs(e, ~reported)
                                 /\ IF IsNoRows(AnsweredBy[c], e)
                                    THEN Tells("omitted") ELSE Fails
          \/ doc # NoDocument /\ Fault /\ Fails
       /\ UNCHANGED <<tasks, tableVars, eventVars, noRows>>

\* (mutation) the conditions on the status are joined with AND
RunningTasks_OfVersion(v) == {t \in TasksOf(v) : Open(t)}

\* GetRunningTaskForVersion: the conditions on the status are joined with OR,
\* to each other and to those on the version.
RunningTasks(v) == TasksOf(v) \cup {t \in Tasks : Open(t)}

ReadTasks(c) ==
    /\ At(c, "tasks")
    /\ \/ /\ Becomes(c, "done", IF RunningTasks(reader[c].version) = {} THEN "notFound"
                                ELSE "inProgress", NoDocument, "omitted")
          /\ UNCHANGED faults
       \/ Fault /\ Becomes(c, "done", "failed", NoDocument, "omitted")
    /\ UNCHANGED <<tasks, tableVars, eventVars, noRows>>

GetVersionSummary(c) == ReadVersion(c) \/ ReadDocuments(c) \/ ReadResults(c) \/ ReadTasks(c)

-----------------------------------------------------------------------------
(* GetValidationResult                                                      *)

\* GetLintedDocument takes any error for a document that is not there, and puts
\* it in the place of sql.ErrNoRows.  The ruleset is read next; it cannot have been
\* removed (Rulesets).
ReadLintedDocument(c) ==
    LET doc == document[reader[c].version]
    IN /\ At(c, "linted")
       /\ \/ doc.status = "error" /\ Becomes(c, "done", "error", doc, "failed")
             /\ UNCHANGED <<noRows, faults>>
          \/ doc.status = "success" /\ Becomes(c, "report", "none", doc, "omitted")
             /\ UNCHANGED <<noRows, faults>>
          \/ doc # NoDocument /\ Fault /\ Becomes(c, "done", "failed", NoDocument, "omitted")
             /\ UNCHANGED noRows
          \/ \E e \in Errors : /\ Errs(e, doc = NoDocument)
                              /\ AsNoRows(AnsweredBy[c], e)
                              /\ Becomes(c, "done", "notFound", NoDocument, "omitted")
       /\ UNCHANGED <<tasks, tableVars, eventVars>>

\* As in ReadResults, but that a report that is not found answers nothing.
ReadReport(c) ==
    LET doc == reader[c].document
        reported == <<reader[c].version, doc.ruleset>> \in results
    IN /\ At(c, "report")
       /\ \/ reported /\ Becomes(c, "done", "success", doc, "shown") /\ UNCHANGED faults
          \/ \E e \in Errors :
                /\ Errs(e, ~reported)
                /\ IF IsNoRows(AnsweredBy[c], e)
                   THEN Becomes(c, "done", "notFound", doc, "omitted")
                   ELSE Becomes(c, "done", "failed", NoDocument, "omitted")
       /\ UNCHANGED <<tasks, tableVars, eventVars, noRows>>

GetValidationResult(c) == ReadLintedDocument(c) \/ ReadReport(c)

-----------------------------------------------------------------------------
Lint == \/ \E v \in Versions, s \in Rulesets, o \in Outcomes : SaveLintResult(v, s, o)
        \/ \E t \in Tasks : \/ \E o \in Outcomes : VersionLintCompleted(t, o)
                            \/ EmptyVersionCompleted(t)
                            \/ VersionLintFails(t)
                            \/ \E r \in Asked : LookUpVersion(r, t)

Next == \/ \E e \in Events : PublishVersion(e) \/ \E r \in Replicas : Listen(r, e)
        \/ \E v \in Versions : ValidateVersion(v)
        \/ \E r \in Replicas : Crash(r)
        \/ Lint
        \/ \E c \in Clients : \/ \E v \in Versions : AskSummary(c, v) \/ AskDocument(c, v)
                            \/ GetVersionSummary(c)
                            \/ GetValidationResult(c)

Spec == Init /\ [][Next]_vars

\* A message that has reached a replica is listened to.
Fairness == \A r \in Replicas, e \in Events : WF_vars(Listen(r, e))

FairSpec == Spec /\ Fairness

-----------------------------------------------------------------------------
\* The type of every variable; a summary that is told says something.
TypeOK == /\ tasks \in [Tasks -> Task]
          /\ version \in [Versions -> {"none", "inProgress"} \cup Outcomes]
          /\ document \in [Versions -> Document]
          /\ results \in SUBSET (Versions \X Rulesets)
          /\ published \in SUBSET Events
          /\ inbox \in SUBSET (Replicas \X Events)
          /\ reader \in [Clients -> Reader]
          /\ \A c \in Clients : reader[c].pc = "done" => reader[c].status # "none"
          /\ noRows \in [Asked -> {"sql"} \cup Errors]
          /\ faults \in 0..MaxFaults

\* A publish event leads to one lint of its version, however many replicas
\* hear of it, at whatever time and in whatever state the task is by then.
OneTaskPerEvent ==
    \A e \in Events : Cardinality({t \in Tasks : Exists(t) /\ tasks[t].event = e}) <= 1

\* A client whose request was accepted before it asks is not told that there
\* is nothing, although the version and the tasks are read at different times
\* and the lint may end between the two.
AcceptedIsKnown ==
    \A c \in Clients : reader[c].pc = "done" /\ reader[c].accepted =>
        reader[c].status # "notFound"

\* A document that was found linted is shown with its issues, in the summary and
\* on its own, although it may have been linted again, with another ruleset,
\* between the two reads.  It takes two failing calls to hide it: one that is left in
\* sql.ErrNoRows and an equal one when its issues are looked up; a single failure
\* is told as such.
LintedIsShown ==
    \A c \in Clients : reader[c].pc = "done" /\ reader[c].document.status = "success" =>
        reader[c].issues = "shown" \/ faults >= 2

\* A publish event is not lost as long as fewer calls and replicas have failed
\* than there are replicas: it has its task, or some replica is still to listen.
\* Whoever takes the message drops it on any error and nobody retries, so that the
\* copies of the others are all that keeps it.
EventNotLost ==
    faults < Cardinality(Replicas) =>
        \A e \in published : \/ \E t \in Tasks : Exists(t) /\ tasks[t].event = e
                             \/ \E r \in Replicas : <<r, e>> \in inbox

\* Every published version is given a task, unless as many calls and replicas fail
\* as there are replicas: nobody retries, but everybody is told.
EventHasTask ==
    \A e \in Events :
        e \in published ~> \/ \E t \in Tasks : Exists(t) /\ tasks[t].event = e
                          \/ faults >= Cardinality(Replicas)

-----------------------------------------------------------------------------
(* What the code says of itself and does not do                             *)

\* A version that is not linted is in progress if "lint is planned/in progress"
\* for it: there is a task of the version.
InProgressHasTask ==
    \A c \in Clients : reader[c].pc = "done" /\ reader[c].status = "inProgress" =>
        TasksOf(reader[c].version) # {}
=============================================================================
