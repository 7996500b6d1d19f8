-------------------------- MODULE ValidationProofs --------------------------
(* Theorems about Validation, for every set of versions, events, replicas   *)
(* and clients.                                                             *)
EXTENDS Validation, TLAPS, FiniteSetTheorems

USE VersionsAssumption, EventsAssumption, RulesetsAssumption, FaultsAssumption
    DEF VersionsAssumption, EventsAssumption, RulesetsAssumption, FaultsAssumption

-----------------------------------------------------------------------------
(* The clients.  A summary has its status from the moment a row of the      *)
(* version is found.                                                        *)

ReaderOK == /\ reader \in [Clients -> Reader]
            /\ noRows \in [Asked -> {"sql"} \cup Errors]
            /\ \A c \in Clients : reader[c].pc \in {"documents", "results", "done"} =>
                   reader[c].status # "none"

ReaderStep(c) == \/ \E v \in Versions : AskSummary(c, v) \/ AskDocument(c, v)
                 \/ GetVersionSummary(c)
                 \/ GetValidationResult(c)

LEMMA NoDocumentTyped == NoDocument \in Document
BY DEF NoDocument, Document

LEMMA BecomesTyped ==
  ASSUME ReaderOK, noRows' \in [Asked -> {"sql"} \cup Errors], NEW c \in Clients,
         NEW pc \in {"documents", "results", "tasks", "report", "done"},
         NEW st \in {"none", "inProgress", "notFound", "failed"} \cup Outcomes,
         NEW doc \in Document, NEW is \in {"omitted", "failed", "shown"},
         pc \in {"documents", "results", "done"} => st # "none",
         Becomes(c, pc, st, doc, is)
  PROVE  ReaderOK'
<1> DEFINE new == [pc |-> pc, version |-> reader[c].version,
                   accepted |-> reader[c].accepted, status |-> st,
                   document |-> doc, issues |-> is]
<1>1. new \in Reader
  BY DEF ReaderOK, Reader
<1>2. reader' = [reader EXCEPT ![c] = new]
  BY DEF Becomes
<1>3. new.pc = pc /\ new.status = st
  OBVIOUS
<1> HIDE DEF new
<1> QED BY <1>1, <1>2, <1>3 DEF ReaderOK

LEMMA StoredTyped ==
  ASSUME ReaderOK, \/ UNCHANGED noRows
                   \/ \E r \in Asked, e \in Errors : AsNoRows(r, e)
  PROVE  noRows' \in [Asked -> {"sql"} \cup Errors]
BY DEF ReaderOK, AsNoRows

LEMMA AskTyped ==
  ASSUME ReaderOK, NEW c \in Clients, NEW v \in Versions, NEW pc \in {"version", "linted"},
         NEW a \in BOOLEAN, Ask(c, v, pc, a)
  PROVE  ReaderOK'
<1> DEFINE new == [pc |-> pc, version |-> v, accepted |-> a, status |-> "none",
                   document |-> NoDocument, issues |-> "omitted"]
<1>1. new \in Reader
  BY NoDocumentTyped DEF Reader
<1>2. reader' = [reader EXCEPT ![c] = new]
  BY DEF Ask
<1>3. new.pc = pc
  OBVIOUS
<1>4. noRows' = noRows
  BY DEF Ask
<1> HIDE DEF new
<1> QED BY <1>1, <1>2, <1>3, <1>4 DEF ReaderOK

LEMMA ReaderTyped ==
  ASSUME TypeOK, ReaderOK, NEW c \in Clients, ReaderStep(c)
  PROVE  ReaderOK'
<1>1. /\ reader[c] \in Reader /\ reader[c].version \in Versions
      /\ reader[c].document \in Document
      /\ reader[c].status \in {"none", "inProgress", "notFound", "failed"} \cup Outcomes
      /\ At(c, "documents") \/ At(c, "results") => reader[c].status # "none"
  BY DEF ReaderOK, Reader, At
<1>2. /\ document[reader[c].version] \in Document
      /\ version[reader[c].version] \in {"none", "inProgress"} \cup Outcomes
  BY <1>1 DEF TypeOK
<1>3. ASSUME NEW v \in Versions, AskSummary(c, v) \/ AskDocument(c, v)
      PROVE  ReaderOK'
  BY <1>3, AskTyped DEF AskSummary, AskDocument
<1>4. AnsweredBy[c] \in Asked
  BY DEF Asked
<1>5. ASSUME GetVersionSummary(c) \/ GetValidationResult(c)
      PROVE  noRows' \in [Asked -> {"sql"} \cup Errors]
  <2>1. UNCHANGED noRows \/ \E e \in Errors : AsNoRows(AnsweredBy[c], e)
    BY <1>5 DEF GetVersionSummary, GetValidationResult, ReadVersion, ReadDocuments,
       ReadResults, ReadTasks, ReadLintedDocument, ReadReport
  <2> QED BY <1>4, <2>1, StoredTyped
<1>6. CASE ReadVersion(c)
  BY <1>2, <1>5, <1>6, NoDocumentTyped, BecomesTyped
     DEF ReadVersion, NotLinted, Outcomes, GetVersionSummary
<1>7. CASE ReadDocuments(c)
  BY <1>1, <1>2, <1>5, <1>7, NoDocumentTyped, BecomesTyped DEF ReadDocuments, GetVersionSummary
<1>8. CASE ReadResults(c)
  BY <1>1, <1>5, <1>8, NoDocumentTyped, BecomesTyped DEF ReadResults, GetVersionSummary
<1>9. CASE ReadTasks(c)
  BY <1>5, <1>9, NoDocumentTyped, BecomesTyped DEF ReadTasks, GetVersionSummary
<1>10. CASE ReadLintedDocument(c)
  BY <1>2, <1>5, <1>10, NoDocumentTyped, BecomesTyped
     DEF ReadLintedDocument, Outcomes, GetValidationResult
<1>11. CASE ReadReport(c)
  BY <1>1, <1>5, <1>11, NoDocumentTyped, BecomesTyped
     DEF ReadReport, Outcomes, GetValidationResult
<1> QED BY <1>3, <1>6, <1>7, <1>8, <1>9, <1>10, <1>11
        DEF ReaderStep, GetVersionSummary, GetValidationResult

\* A client changes nothing but its own answer, and sql.ErrNoRows.
LEMMA ReaderKeeps ==
  ASSUME TypeOK, NEW c \in Clients, ReaderStep(c)
  PROVE  UNCHANGED <<tasks, tableVars, eventVars>> /\ faults' \in 0..MaxFaults
<1>1. /\ UNCHANGED <<tasks, tableVars, eventVars>>
      /\ Fault \/ UNCHANGED faults
  BY DEF ReaderStep, AskSummary, AskDocument, Ask, GetVersionSummary, GetValidationResult,
         ReadVersion, ReadDocuments, ReadResults, ReadTasks, ReadLintedDocument, ReadReport,
         Errs
<1> QED BY <1>1 DEF Fault, TypeOK

-----------------------------------------------------------------------------
(* Type correctness                                                         *)

LEMMA InitTyped == Init => TypeOK /\ ReaderOK
<1> SUFFICES ASSUME Init PROVE TypeOK /\ ReaderOK
  OBVIOUS
<1>1. AnyVersion \in Versions
  BY DEF AnyVersion
<1>2. [status |-> "absent", version |-> AnyVersion, event |-> NoEvent] \in Task
  BY <1>1 DEF Task
<1>3. [pc |-> "idle", version |-> AnyVersion, accepted |-> FALSE, status |-> "none",
       document |-> NoDocument, issues |-> "omitted"] \in Reader
  BY <1>1, NoDocumentTyped DEF Reader
<1>4. ReaderOK
  BY <1>3 DEF Init, ReaderOK
<1>11. noRows \in [Asked -> {"sql"} \cup Errors]
  BY DEF Init
<1>5. tasks \in [Tasks -> Task]
  BY <1>2 DEF Init
<1>6. document \in [Versions -> Document]
  BY NoDocumentTyped DEF Init
<1>7. \A c \in Clients : reader[c].pc # "done"
  BY DEF Init
<1>8. version \in [Versions -> {"none", "inProgress"} \cup Outcomes]
  BY DEF Init
<1>9. results = {} /\ published = {} /\ inbox = {} /\ faults \in 0..MaxFaults
  BY DEF Init
<1>10. reader \in [Clients -> Reader]
  BY <1>4 DEF ReaderOK
<1> QED BY <1>4, <1>5, <1>6, <1>7, <1>8, <1>9, <1>10, <1>11 DEF TypeOK

LEMMA SaveTaskTyped ==
  ASSUME tasks \in [Tasks -> Task], NEW v \in Versions, NEW e \in Events \cup {NoEvent},
         SaveVersionTask(v, e)
  PROVE  tasks' \in [Tasks -> Task]
BY DEF SaveVersionTask, Task

LEMMA FinishTyped ==
  ASSUME tasks \in [Tasks -> Task], NEW t \in Tasks, NEW st \in Outcomes, Finish(t, st)
  PROVE  tasks' \in [Tasks -> Task]
BY DEF Finish, Task

LEMMA NextTyped == TypeOK /\ ReaderOK /\ [Next]_vars => TypeOK' /\ ReaderOK'
<1> SUFFICES ASSUME TypeOK, ReaderOK, [Next]_vars PROVE TypeOK' /\ ReaderOK'
  OBVIOUS
<1> USE DEF tableVars, eventVars
<1>1. ASSUME NEW e \in Events, PublishVersion(e)
      PROVE  TypeOK' /\ ReaderOK'
  BY <1>1 DEF PublishVersion, TypeOK, ReaderOK
<1>2. ASSUME NEW r \in Replicas, NEW e \in Events, Listen(r, e)
      PROVE  TypeOK' /\ ReaderOK'
  <2>1. tasks' \in [Tasks -> Task]
    BY <1>2, SaveTaskTyped DEF Listen, TypeOK
  <2> QED BY <1>2, <2>1 DEF Listen, Received, Fault, TypeOK, ReaderOK
<1>3. ASSUME NEW v \in Versions, ValidateVersion(v)
      PROVE  TypeOK' /\ ReaderOK'
  <2>1. tasks' \in [Tasks -> Task]
    BY <1>3, SaveTaskTyped DEF ValidateVersion, TypeOK
  <2> QED BY <1>3, <2>1 DEF ValidateVersion, TypeOK, ReaderOK
<1>4. ASSUME NEW r \in Replicas, Crash(r)
      PROVE  TypeOK' /\ ReaderOK'
  <2>1. noRows' \in [Asked -> {"sql"} \cup Errors]
    BY <1>4 DEF Crash, TypeOK
  <2> QED BY <1>4, <2>1 DEF Crash, Fault, TypeOK, ReaderOK
<1>5. ASSUME NEW v \in Versions, NEW s \in Rulesets, NEW o \in Outcomes,
             SaveLintResult(v, s, o)
      PROVE  TypeOK' /\ ReaderOK'
  <2>1. [status |-> o, ruleset |-> s] \in Document
    BY DEF Document
  <2> QED BY <1>5, <2>1 DEF SaveLintResult, Stored, TypeOK, ReaderOK
<1>6. ASSUME NEW t \in Tasks, NEW o \in Outcomes,
             VersionLintCompleted(t, o) \/ EmptyVersionCompleted(t) \/ VersionLintFails(t)
      PROVE  TypeOK' /\ ReaderOK'
  <2>1. tasks[t].version \in Versions /\ "success" \in Outcomes /\ "error" \in Outcomes
    BY DEF TypeOK, Task, Outcomes
  <2>2. tasks' \in [Tasks -> Task]
    BY <1>6, <2>1, FinishTyped
       DEF VersionLintCompleted, EmptyVersionCompleted, VersionLintFails, TypeOK
  <2> QED BY <1>6, <2>1, <2>2
          DEF VersionLintCompleted, EmptyVersionCompleted, VersionLintFails, TypeOK, ReaderOK
<1>7. ASSUME NEW c \in Clients, ReaderStep(c)
      PROVE  TypeOK' /\ ReaderOK'
  BY <1>7, ReaderTyped, ReaderKeeps DEF TypeOK, ReaderOK
<1>8. CASE UNCHANGED vars
  BY <1>8 DEF vars, TypeOK, ReaderOK
<1>9. "success" \in Outcomes
  BY DEF Outcomes
<1>10. ASSUME NEW r \in Asked, NEW t \in Tasks, LookUpVersion(r, t)
       PROVE  TypeOK' /\ ReaderOK'
  <2>1. noRows' \in [Asked -> {"sql"} \cup Errors]
    BY <1>10, StoredTyped DEF LookUpVersion
  <2> QED BY <1>10, <2>1 DEF LookUpVersion, Errs, Fault, TypeOK, ReaderOK
<1> QED BY <1>1, <1>2, <1>3, <1>4, <1>5, <1>6, <1>7, <1>8, <1>9, <1>10
        DEF Next, Lint, ReaderStep

\* Every reachable state is well typed, and no summary comes without a status.
THEOREM TypeCorrect == Spec => []TypeOK
BY InitTyped, NextTyped, PTL DEF Spec

-----------------------------------------------------------------------------
(* One task for an event                                                    *)

EventTaskUnique ==
    \A t1, t2 \in Tasks :
        Exists(t1) /\ Exists(t2) /\ tasks[t1].event = tasks[t2].event
            /\ tasks[t1].event # NoEvent => t1 = t2

\* What becomes of the task table in one step.
Unwritten == UNCHANGED tasks
Inserted == \E v \in Versions, e \in Events \cup {NoEvent} :
                ~Duplicate(e) /\ SaveVersionTask(v, e)
Closed == \E t \in Tasks, st \in Outcomes : Finish(t, st)

LEMMA TableSteps == [Next]_vars => Unwritten \/ Inserted \/ Closed
<1> SUFFICES ASSUME [Next]_vars PROVE Unwritten \/ Inserted \/ Closed
  OBVIOUS
<1>1. ASSUME NEW e \in Events, PublishVersion(e) PROVE Unwritten
  BY <1>1 DEF PublishVersion, Unwritten
<1>2. ASSUME NEW r \in Replicas, NEW e \in Events, Listen(r, e)
      PROVE  Unwritten \/ Inserted
  BY <1>2 DEF Listen, Unwritten, Inserted
<1>3. ASSUME NEW v \in Versions, ValidateVersion(v) PROVE Inserted
  BY <1>3 DEF ValidateVersion, Inserted, Duplicate
<1>4. ASSUME NEW r \in Replicas, Crash(r) PROVE Unwritten
  BY <1>4 DEF Crash, Unwritten
<1>5. ASSUME NEW v \in Versions, NEW s \in Rulesets, NEW o \in Outcomes,
             SaveLintResult(v, s, o)
      PROVE  Unwritten
  BY <1>5 DEF SaveLintResult, Unwritten
<1>6. ASSUME NEW t \in Tasks, NEW o \in Outcomes,
             VersionLintCompleted(t, o) \/ EmptyVersionCompleted(t) \/ VersionLintFails(t)
      PROVE  Closed
  BY <1>6 DEF VersionLintCompleted, EmptyVersionCompleted, VersionLintFails, Closed, Outcomes
<1>7. ASSUME NEW c \in Clients, ReaderStep(c) PROVE Unwritten
  BY <1>7 DEF Unwritten, ReaderStep, AskSummary, AskDocument, Ask, GetVersionSummary,
     GetValidationResult, ReadVersion, ReadDocuments, ReadResults, ReadTasks,
     ReadLintedDocument, ReadReport
<1>8. CASE UNCHANGED vars
  BY <1>8 DEF vars, Unwritten
<1>9. "success" \in Outcomes
  BY DEF Outcomes
<1>10. ASSUME NEW r \in Asked, NEW t \in Tasks, LookUpVersion(r, t) PROVE Unwritten
  BY <1>10 DEF LookUpVersion, Unwritten
<1> QED BY <1>1, <1>2, <1>3, <1>4, <1>5, <1>6, <1>7, <1>8, <1>9, <1>10
        DEF Next, Lint, ReaderStep

\* No task is lost, and none comes to be of another version.
LEMMA TasksStay ==
  ASSUME TypeOK, [Next]_vars, NEW v \in Versions
  PROVE  TasksOf(v) \subseteq TasksOf(v)'
<1>1. CASE Unwritten
  BY <1>1 DEF Unwritten, TasksOf, Exists
<1>2. CASE Inserted
  BY <1>2 DEF Inserted, SaveVersionTask, TasksOf, Exists, TypeOK
<1>3. CASE Closed
  BY <1>3 DEF Closed, Finish, Open, TasksOf, Exists, TypeOK, Outcomes
<1> QED BY <1>1, <1>2, <1>3, TableSteps

LEMMA NextUnique == TypeOK /\ EventTaskUnique /\ [Next]_vars => EventTaskUnique'
<1> SUFFICES ASSUME TypeOK, EventTaskUnique, [Next]_vars PROVE EventTaskUnique'
  OBVIOUS
<1>1. CASE Unwritten
  BY <1>1 DEF Unwritten, EventTaskUnique, Exists
<1>2. CASE Inserted
  BY <1>2 DEF Inserted, SaveVersionTask, Duplicate, EventTaskUnique, Exists, TypeOK
<1>3. CASE Closed
  BY <1>3 DEF Closed, Finish, Open, EventTaskUnique, Exists, TypeOK, Outcomes
<1> QED BY <1>1, <1>2, <1>3, TableSteps

LEMMA UniqueIsOne == EventTaskUnique => OneTaskPerEvent
<1> SUFFICES ASSUME EventTaskUnique, NEW e \in Events
             PROVE  Cardinality({t \in Tasks : Exists(t) /\ tasks[t].event = e}) <= 1
  BY DEF OneTaskPerEvent
<1> DEFINE S == {t \in Tasks : Exists(t) /\ tasks[t].event = e}
<1>1. ASSUME S = {} PROVE Cardinality(S) <= 1
  <2> HIDE DEF S
  <2>1. Cardinality(S) = 0
    BY <1>1, FS_EmptySet
  <2> QED BY <2>1
<1>2. ASSUME S # {} PROVE Cardinality(S) <= 1
  <2>1. PICK t \in S : TRUE
    BY <1>2
  <2>2. S = {t}
    BY <2>1 DEF EventTaskUnique
  <2> HIDE DEF S
  <2>3. Cardinality(S) = 1
    BY <2>2, FS_Singleton
  <2> QED BY <2>3
<1> QED BY <1>1, <1>2

\* An event has one task, whatever replicas hear of it and in whatever order.
THEOREM OneTask == Spec => []OneTaskPerEvent
<1>1. Init => EventTaskUnique
  BY DEF Init, EventTaskUnique, Exists
<1> QED BY <1>1, InitTyped, NextTyped, NextUnique, UniqueIsOne, PTL DEF Spec

-----------------------------------------------------------------------------
(* Events that nobody retries                                               *)

HasTask(e) == \E t \in Tasks : Exists(t) /\ tasks[t].event = e
Missing(e) == {r \in Replicas : <<r, e>> \notin inbox}

\* An event without a task has been missed by one replica per fault at most.
MissedByFaults == \A e \in published : HasTask(e) \/ Cardinality(Missing(e)) <= faults

LEMMA MissingFinite ==
  ASSUME NEW e
  PROVE  /\ IsFiniteSet(Missing(e)) /\ Cardinality(Missing(e)) \in Nat
         /\ IsFiniteSet(Missing(e)') /\ Cardinality(Missing(e)') \in Nat
BY ReplicasAssumption, FS_Subset, FS_CardinalityType DEF ReplicasAssumption, Missing

\* An event that has a task keeps one.
LEMMA HasTaskStays ==
  ASSUME TypeOK, [Next]_vars, NEW e, HasTask(e)
  PROVE  HasTask(e)'
<1>1. CASE Unwritten
  BY <1>1 DEF Unwritten, HasTask, Exists
<1>2. CASE Inserted
  BY <1>2 DEF Inserted, SaveVersionTask, HasTask, Exists, TypeOK
<1>3. CASE Closed
  BY <1>3 DEF Closed, Finish, Open, HasTask, Exists, TypeOK, Outcomes
<1> QED BY <1>1, <1>2, <1>3, TableSteps

\* One replica more misses an event, at the cost of a fault.
LEMMA OneMoreMissing ==
  ASSUME TypeOK, NEW r \in Replicas, NEW e \in Events, Missing(e)' \subseteq Missing(e) \cup {r},
         Cardinality(Missing(e)) <= faults, faults' = faults + 1
  PROVE  Cardinality(Missing(e)') <= faults'
<1>1. /\ IsFiniteSet(Missing(e) \cup {r})
      /\ Cardinality(Missing(e) \cup {r}) <= Cardinality(Missing(e)) + 1
  BY MissingFinite, FS_AddElement
<1>2. Cardinality(Missing(e)') <= Cardinality(Missing(e) \cup {r})
  BY <1>1, FS_Subset
<1>3. Cardinality(Missing(e) \cup {r}) \in Nat /\ faults \in Nat
  BY <1>1, FS_CardinalityType DEF TypeOK
<1> QED BY <1>1, <1>2, <1>3, MissingFinite

LEMMA NextMissedByFaults == TypeOK /\ MissedByFaults /\ [Next]_vars => MissedByFaults'
<1> SUFFICES ASSUME TypeOK, MissedByFaults, [Next]_vars, NEW e \in published', ~HasTask(e)'
             PROVE  Cardinality(Missing(e)') <= faults'
  BY DEF MissedByFaults
<1>1. ~HasTask(e)
  BY HasTaskStays
<1>2. faults \in Nat
  BY DEF TypeOK
<1>3. ASSUME NEW p \in Events, PublishVersion(p)
      PROVE  Cardinality(Missing(e)') <= faults'
  <2>1. CASE e = p
    <3>1. Missing(e)' = {}
      BY <1>3, <2>1 DEF PublishVersion, Missing
    <3>2. Cardinality(Missing(e)') = 0
      BY <3>1, FS_EmptySet
    <3> QED BY <1>2, <1>3, <3>2 DEF PublishVersion
  <2>2. CASE e # p
    <3>1. e \in published /\ Missing(e)' = Missing(e) /\ faults' = faults
      BY <1>3, <2>2 DEF PublishVersion, Missing
    <3> QED BY <1>1, <3>1 DEF MissedByFaults
  <2> QED BY <2>1, <2>2
<1>4. ASSUME e \in published, UNCHANGED inbox, Fault \/ UNCHANGED faults
      PROVE  Cardinality(Missing(e)') <= faults'
  <2>1. Missing(e)' = Missing(e)
    BY <1>4 DEF Missing
  <2>2. Cardinality(Missing(e)) <= faults
    BY <1>1, <1>4 DEF MissedByFaults
  <2> QED BY <1>2, <1>4, <2>1, <2>2, MissingFinite DEF Fault
<1>5. ASSUME NEW r \in Replicas, NEW p \in Events, Listen(r, p)
      PROVE  Cardinality(Missing(e)') <= faults'
  <2>1. e \in published /\ e \in Events
    BY <1>5 DEF Listen, TypeOK
  <2>2. Cardinality(Missing(e)) <= faults
    BY <1>1, <2>1 DEF MissedByFaults
  <2>3. CASE e = p
    <3>1. Fault
      <4>1. Duplicate(p) => HasTask(p)
        BY DEF Duplicate, HasTask
      <4>2. SaveVersionTask(VersionOf[p], p) => HasTask(p)'
        BY DEF SaveVersionTask, HasTask, Exists, TypeOK
      <4> QED BY <1>1, <1>5, <2>3, <4>1, <4>2 DEF Listen
    <3>2. Missing(e)' \subseteq Missing(e) \cup {r}
      BY <1>5, <2>3 DEF Listen, Received, Missing
    <3> QED BY <2>1, <2>2, <3>1, <3>2, OneMoreMissing DEF Fault
  <2>4. CASE e # p
    <3>1. Missing(e)' = Missing(e)
      BY <1>5, <2>4 DEF Listen, Received, Missing
    <3>2. faults' = faults \/ faults' = faults + 1
      BY <1>5 DEF Listen, Fault
    <3> QED BY <1>2, <2>2, <3>1, <3>2, MissingFinite
  <2> QED BY <2>3, <2>4
<1>6. ASSUME NEW r \in Replicas, Crash(r)
      PROVE  Cardinality(Missing(e)') <= faults'
  <2>1. e \in published /\ e \in Events
    BY <1>6 DEF Crash, TypeOK
  <2>2. Missing(e)' \subseteq Missing(e) \cup {r}
    BY <1>6 DEF Crash, Missing
  <2> QED BY <1>1, <1>6, <2>1, <2>2, OneMoreMissing DEF Crash, Fault, MissedByFaults
<1>7. ASSUME NEW c \in Clients, ReaderStep(c)
      PROVE  UNCHANGED <<published, inbox>> /\ (Fault \/ UNCHANGED faults)
  BY <1>7 DEF eventVars, ReaderStep, AskSummary, AskDocument, Ask, GetVersionSummary,
     GetValidationResult, ReadVersion, ReadDocuments, ReadResults, ReadTasks,
     ReadLintedDocument, ReadReport, Errs
<1>9. ASSUME NEW r \in Asked, NEW t \in Tasks, LookUpVersion(r, t)
      PROVE  UNCHANGED <<published, inbox>> /\ (Fault \/ UNCHANGED faults)
  BY <1>9 DEF LookUpVersion, eventVars, Errs
<1>8. \/ \E p \in Events : PublishVersion(p) \/ \E r \in Replicas : Listen(r, p)
      \/ \E r \in Replicas : Crash(r)
      \/ \E c \in Clients : ReaderStep(c)
      \/ \E r \in Asked, t \in Tasks : LookUpVersion(r, t)
      \/ UNCHANGED <<published, inbox, faults>>
  BY DEF Next, Lint, ReaderStep, ValidateVersion, SaveLintResult, VersionLintCompleted,
     EmptyVersionCompleted, VersionLintFails, eventVars, vars
<1> QED BY <1>3, <1>4, <1>5, <1>6, <1>7, <1>8, <1>9

\* No event is lost before every replica has failed it: for any number of
\* replicas, events that come in any order, and requests that take ids meanwhile.
THEOREM EventsKept == Spec => []EventNotLost
<1>1. Init => MissedByFaults
  BY DEF Init, MissedByFaults
<1>2. TypeOK /\ MissedByFaults => EventNotLost
  <2> SUFFICES ASSUME TypeOK, MissedByFaults, faults < Cardinality(Replicas),
                      NEW e \in published, ~HasTask(e)
               PROVE  \E r \in Replicas : <<r, e>> \in inbox
    BY DEF EventNotLost, HasTask
  <2>1. Cardinality(Missing(e)) <= faults
    BY DEF MissedByFaults
  <2>2. Missing(e) # Replicas
    <3>1. Cardinality(Replicas) \in Nat /\ faults \in Nat
      BY ReplicasAssumption, FS_CardinalityType DEF ReplicasAssumption, TypeOK
    <3> QED BY <2>1, <3>1
  <2> QED BY <2>2 DEF Missing
<1> QED BY <1>1, <1>2, InitTyped, NextTyped, NextMissedByFaults, PTL DEF Spec

-----------------------------------------------------------------------------
(* What a client is told                                                    *)

\* A client whose request was accepted reads nothing but summaries, and its
\* version keeps a task for it to find.
AcceptedHasTask ==
    \A c \in Clients : reader[c].accepted =>
        /\ reader[c].pc \notin {"linted", "report"}
        /\ reader[c].status # "notFound"
        /\ TasksOf(reader[c].version) # {}

\* A report is there for every linted document, in the tables and in what a
\* client has read of them.
LintedHasReport ==
    /\ \A v \in Versions : document[v].status = "success" =>
           <<v, document[v].ruleset>> \in results
    /\ \A c \in Clients : reader[c].document.status = "success" =>
           /\ <<reader[c].version, reader[c].document.ruleset>> \in results
           /\ reader[c].pc = "done" => reader[c].issues = "shown" \/ faults >= 2

\* What a failure can equal is a failure that was before.
StoredFailed == \A r \in Asked : noRows[r] = "recurring" => faults >= 1

LEMMA AskTells ==
  ASSUME TypeOK, NEW c \in Clients, NEW v, NEW pc, NEW a, Ask(c, v, pc, a)
  PROVE  /\ reader'[c].pc = pc /\ reader'[c].version = v
         /\ reader'[c].accepted = a /\ reader'[c].status = "none"
BY DEF Ask, TypeOK

LEMMA BecomesTells ==
  ASSUME TypeOK, NEW c \in Clients, NEW pc, NEW st, NEW doc, NEW is,
         Becomes(c, pc, st, doc, is)
  PROVE  /\ reader'[c].pc = pc /\ reader'[c].status = st
         /\ reader'[c].document = doc /\ reader'[c].issues = is
         /\ reader'[c].version = reader[c].version
         /\ reader'[c].accepted = reader[c].accepted
BY DEF Becomes, TypeOK

LEMMA ReadsDocuments ==
  ASSUME NEW c \in Clients, ReadDocuments(c)
  PROVE  \/ Becomes(c, "results", reader[c].status, document[reader[c].version], "omitted")
         \/ Becomes(c, "tasks", "none", NoDocument, "omitted")
BY DEF ReadDocuments

LEMMA ReaderAccepted ==
  ASSUME TypeOK, AcceptedHasTask, NEW c \in Clients, ReaderStep(c)
  PROVE  AcceptedHasTask'
<1> SUFFICES ASSUME NEW d \in Clients, reader'[d].accepted
             PROVE  /\ reader'[d].pc \notin {"linted", "report"}
                    /\ reader'[d].status # "notFound"
                    /\ TasksOf(reader[d].version)' # {}
  BY DEF AcceptedHasTask, TasksOf, Exists
<1>1. tasks' = tasks
  BY ReaderKeeps
<1>2. reader[c] \in Reader /\ reader[d] \in Reader
  BY DEF TypeOK
<1>3. CASE d # c /\ reader'[d] = reader[d]
  BY <1>1, <1>3 DEF AcceptedHasTask, TasksOf, Exists
<1>4. ASSUME NEW v \in Versions, AskSummary(c, v) \/ AskDocument(c, v), d = c
      PROVE  /\ reader'[d].pc \notin {"linted", "report"}
             /\ reader'[d].status # "notFound"
             /\ TasksOf(reader[d].version)' # {}
  <2>1. CASE AskSummary(c, v)
    <3>1. /\ reader'[c].pc = "version" /\ reader'[c].version = v
          /\ reader'[c].accepted = (TasksOf(v) # {}) /\ reader'[c].status = "none"
      BY <2>1, AskTells DEF AskSummary
    <3>2. TasksOf(v) # {}
      BY <1>4, <3>1, Zenon
    <3> QED BY <1>1, <1>4, <3>1, <3>2 DEF TasksOf, Exists
  <2>2. CASE AskDocument(c, v)
    <3>1. reader'[c].accepted = FALSE
      BY <2>2, AskTells DEF AskDocument
    <3> QED BY <1>4, <3>1
  <2> QED BY <1>4, <2>1, <2>2
<1>5. ASSUME d = c, GetVersionSummary(c) \/ GetValidationResult(c)
      PROVE  /\ reader'[d].pc \notin {"linted", "report"}
             /\ reader'[d].status # "notFound"
             /\ TasksOf(reader[d].version)' # {}
  <2>1. reader'[c].accepted = reader[c].accepted /\ reader'[c].version = reader[c].version
    <3>1. CASE ReadVersion(c) \/ ReadDocuments(c)
      BY <3>1, BecomesTells DEF ReadVersion, ReadDocuments
    <3>2. CASE ReadResults(c)
      BY <3>2, BecomesTells DEF ReadResults
    <3>3. CASE ReadTasks(c)
      BY <3>3, BecomesTells DEF ReadTasks
    <3>4. CASE ReadLintedDocument(c) \/ ReadReport(c)
      BY <3>4, BecomesTells DEF ReadLintedDocument, ReadReport
    <3> QED BY <1>5, <3>1, <3>2, <3>3, <3>4 DEF GetVersionSummary, GetValidationResult
  <2>2. reader[c].accepted /\ TasksOf(reader[c].version) # {}
        /\ reader[c].pc \notin {"linted", "report"} /\ reader[c].status # "notFound"
    BY <1>5, <2>1 DEF AcceptedHasTask
  <2>3. GetVersionSummary(c)
    BY <1>5, <2>2 DEF GetValidationResult, ReadLintedDocument, ReadReport, At
  <2>4. RunningTasks(reader[c].version) # {}
    BY <2>2 DEF RunningTasks
  <2>5. version[reader[c].version] # "notFound"
    BY <1>2 DEF TypeOK, Reader, Outcomes
  <2>6. reader'[c].pc \notin {"linted", "report"} /\ reader'[c].status # "notFound"
    <3>1. CASE ReadVersion(c)
      BY <2>2, <2>5, <3>1, BecomesTells DEF ReadVersion
    <3>2. CASE ReadDocuments(c)
      BY <2>2, <3>2, ReadsDocuments, BecomesTells
    <3>3. CASE ReadResults(c)
      BY <2>2, <3>3, BecomesTells DEF ReadResults
    <3>4. CASE ReadTasks(c)
      BY <2>4, <3>4, BecomesTells DEF ReadTasks
    <3> QED BY <2>3, <3>1, <3>2, <3>3, <3>4 DEF GetVersionSummary
  <2>7. TasksOf(reader[c].version)' # {}
    BY <1>1, <2>1, <2>2 DEF TasksOf, Exists
  <2> QED BY <1>5, <2>6, <2>7
<1>6. d # c => reader'[d] = reader[d]
  BY DEF ReaderStep, AskSummary, AskDocument, Ask, GetVersionSummary, GetValidationResult,
     ReadVersion, ReadDocuments, ReadResults, ReadTasks, ReadLintedDocument, ReadReport,
     Becomes, TypeOK
<1> QED BY <1>3, <1>4, <1>5, <1>6 DEF ReaderStep

LEMMA StoredStep ==
  ASSUME TypeOK, StoredFailed, [Next]_vars
  PROVE  StoredFailed' /\ faults' >= faults /\ faults' \in Nat /\ faults \in Nat
<1>1. faults \in Nat
  BY DEF TypeOK
<1>2. ASSUME NEW r \in Asked, NEW e \in Errors, NEW none, Errs(e, none), AsNoRows(r, e)
      PROVE  StoredFailed' /\ faults' >= faults /\ faults' \in Nat
  BY <1>1, <1>2 DEF Errs, AsNoRows, Fault, StoredFailed, TypeOK
<1>3. ASSUME NEW c \in Clients, ReaderStep(c)
      PROVE  \/ \E e \in Errors, none \in BOOLEAN : Errs(e, none) /\ AsNoRows(AnsweredBy[c], e)
             \/ UNCHANGED noRows /\ (Fault \/ UNCHANGED faults)
  BY <1>3 DEF ReaderStep, AskSummary, AskDocument, Ask, GetVersionSummary, GetValidationResult,
     ReadVersion, ReadDocuments, ReadResults, ReadTasks, ReadLintedDocument, ReadReport,
     Errs, NotLinted
<1>4. ASSUME NEW r \in Asked, NEW t \in Tasks, LookUpVersion(r, t)
      PROVE  \E e \in Errors, none \in BOOLEAN : Errs(e, none) /\ AsNoRows(r, e)
  BY <1>4 DEF LookUpVersion
<1>5. ASSUME NEW r \in Replicas, Crash(r)
      PROVE  StoredFailed' /\ faults' >= faults /\ faults' \in Nat
  BY <1>1, <1>5 DEF Crash, Fault, StoredFailed
<1>6. ASSUME UNCHANGED noRows, Fault \/ UNCHANGED faults
      PROVE  StoredFailed' /\ faults' >= faults /\ faults' \in Nat
  BY <1>1, <1>6 DEF Fault, StoredFailed
<1>7. \/ UNCHANGED noRows /\ (Fault \/ UNCHANGED faults)
      \/ \E r \in Replicas : Crash(r)
      \/ \E c \in Clients : ReaderStep(c)
      \/ \E r \in Asked, t \in Tasks : LookUpVersion(r, t)
  BY DEF Next, Lint, ReaderStep, PublishVersion, Listen, ValidateVersion, SaveLintResult,
     VersionLintCompleted, EmptyVersionCompleted, VersionLintFails, vars
<1>8. \A c \in Clients : AnsweredBy[c] \in Asked
  BY DEF Asked
<1> QED BY <1>1, <1>2, <1>3, <1>4, <1>5, <1>6, <1>7, <1>8

\* The issues of a document that was linted are missed only for a failure that
\* equals an earlier one.
LEMMA LookUp ==
  ASSUME TypeOK, StoredFailed, NEW c \in Clients, NEW e \in Errors,
         Errs(e, FALSE), IsNoRows(AnsweredBy[c], e)
  PROVE  faults' >= 2
<1>1. AnsweredBy[c] \in Asked /\ faults \in Nat
  BY DEF Asked, TypeOK
<1> QED BY <1>1 DEF Errs, IsNoRows, Errors, Fault, StoredFailed

LEMMA ReaderReport ==
  ASSUME TypeOK, StoredFailed, LintedHasReport, NEW c \in Clients, ReaderStep(c)
  PROVE  LintedHasReport'
<1>1. UNCHANGED <<document, results>>
  BY ReaderKeeps DEF tableVars
<1>2. [Next]_vars
  BY DEF Next, ReaderStep
<1>3. faults' >= faults /\ faults' \in Nat /\ faults \in Nat
  BY <1>2, StoredStep
<1> SUFFICES ASSUME NEW d \in Clients, reader'[d].document.status = "success"
             PROVE  /\ <<reader'[d].version, reader'[d].document.ruleset>> \in results
                    /\ reader'[d].pc = "done" =>
                          reader'[d].issues = "shown" \/ faults' >= 2
  BY <1>1 DEF LintedHasReport
<1> USE DEF TypeOK
<1>4. d # c => reader'[d] = reader[d]
  BY DEF ReaderStep, AskSummary, AskDocument, Ask, GetVersionSummary, GetValidationResult,
     ReadVersion, ReadDocuments, ReadResults, ReadTasks, ReadLintedDocument, ReadReport,
     Becomes
<1>5. CASE d # c
  BY <1>3, <1>4, <1>5 DEF LintedHasReport
<1>6. CASE d = c
  <2>1. NoDocument.status # "success"
    BY DEF NoDocument
  <2>2. reader[c] \in Reader
    OBVIOUS
  <2>3. reader[c].version \in Versions
    BY <2>2 DEF Reader
  <2>4. ~ \E v \in Versions : AskSummary(c, v) \/ AskDocument(c, v)
    BY <1>6, <2>1 DEF AskSummary, AskDocument, Ask
  <2>5. CASE ReadVersion(c) \/ ReadTasks(c)
    <3>1. reader'[c].document = NoDocument
      BY <2>5, BecomesTells DEF ReadVersion, ReadTasks
    <3> QED BY <1>6, <2>1, <3>1
  <2>6. CASE ReadDocuments(c)
    BY <1>6, <2>1, <2>3, <2>6, ReadsDocuments, BecomesTells DEF LintedHasReport
  <2>7. CASE ReadResults(c)
    <3>1. reader[c].document.status = "success" =>
              <<reader[c].version, reader[c].document.ruleset>> \in results
      BY DEF LintedHasReport
    <3>2. \/ Becomes(c, "done", reader[c].status, reader[c].document, "shown")
          \/ /\ Becomes(c, "done", reader[c].status, reader[c].document, "omitted")
             /\ reader[c].document.status = "success" => faults' >= 2
          \/ /\ reader[c].document.status # "success"
             /\ Becomes(c, "done", reader[c].status, reader[c].document, "failed")
          \/ Becomes(c, "done", "failed", NoDocument, "omitted")
      <4>1. ASSUME reader[c].document.status = "success", NEW e \in Errors,
                   Errs(e, <<reader[c].version, reader[c].document.ruleset>> \notin results),
                   IsNoRows(AnsweredBy[c], e)
            PROVE  faults' >= 2
        BY <3>1, <4>1, LookUp DEF Errs
      <4> QED BY <2>1, <2>7, <4>1 DEF ReadResults
    <3>3. reader[c].document.status = "success" /\ reader'[c].document = reader[c].document
          /\ (reader'[c].issues = "shown" \/ faults' >= 2)
          /\ reader'[c].version = reader[c].version
      BY <1>6, <2>1, <3>2, BecomesTells
    <3> QED BY <1>6, <3>1, <3>3
  <2>8. CASE ReadLintedDocument(c)
    BY <1>6, <2>1, <2>3, <2>8, BecomesTells DEF ReadLintedDocument, LintedHasReport
  <2>9. CASE ReadReport(c)
    <3> DEFINE doc == reader[c].document
               reported == <<reader[c].version, doc.ruleset>> \in results
    <3>1. \/ reported /\ Becomes(c, "done", "success", doc, "shown")
          \/ \E e \in Errors : /\ Errs(e, ~reported) /\ IsNoRows(AnsweredBy[c], e)
                              /\ Becomes(c, "done", "notFound", doc, "omitted")
          \/ reader'[c].document = NoDocument
      BY <2>9, BecomesTells DEF ReadReport
    <3>2. reader'[c].document = doc /\ reader'[c].version = reader[c].version
      BY <1>6, <2>1, <3>1, BecomesTells
    <3>3. reported
      BY <1>6, <3>2 DEF LintedHasReport
    <3>4. reader'[c].issues = "shown" \/ faults' >= 2
      BY <1>6, <2>1, <3>1, <3>3, LookUp, BecomesTells DEF Errs
    <3> QED BY <1>6, <3>2, <3>3, <3>4
  <2> QED BY <2>4, <2>5, <2>6, <2>7, <2>8, <2>9
          DEF ReaderStep, GetVersionSummary, GetValidationResult
<1> QED BY <1>5, <1>6

Told == AcceptedHasTask /\ StoredFailed /\ LintedHasReport

LEMMA NextTold == TypeOK /\ Told /\ [Next]_vars => Told'
<1> SUFFICES ASSUME TypeOK, Told, [Next]_vars PROVE Told'
  OBVIOUS
<1>6. StoredFailed' /\ faults' >= faults /\ faults' \in Nat /\ faults \in Nat
  BY StoredStep DEF Told
<1>1. ASSUME NEW c \in Clients, ReaderStep(c) PROVE Told'
  BY <1>1, <1>6, ReaderAccepted, ReaderReport DEF Told
<1>2. ASSUME NEW v \in Versions, NEW s \in Rulesets, NEW o \in Outcomes,
             SaveLintResult(v, s, o)
      PROVE  LintedHasReport' /\ UNCHANGED reader
  BY <1>2 DEF SaveLintResult, Stored, Told, LintedHasReport, TypeOK
<1>7. ASSUME UNCHANGED <<reader, document, results>> PROVE LintedHasReport'
  BY <1>6, <1>7 DEF Told, LintedHasReport
<1>3. \/ UNCHANGED <<reader, document, results>>
      \/ \E c \in Clients : ReaderStep(c)
      \/ \E v \in Versions, s \in Rulesets, o \in Outcomes : SaveLintResult(v, s, o)
  BY DEF Next, Lint, ReaderStep, PublishVersion, Listen, ValidateVersion, Crash,
     VersionLintCompleted, EmptyVersionCompleted, VersionLintFails, LookUpVersion, vars,
     tableVars
<1>4. ASSUME UNCHANGED reader PROVE AcceptedHasTask'
  <2> SUFFICES ASSUME NEW c \in Clients, reader[c].accepted
               PROVE  TasksOf(reader[c].version)' # {}
    BY <1>4 DEF Told, AcceptedHasTask, TasksOf, Exists
  <2>1. reader[c].version \in Versions
    BY DEF TypeOK, Reader
  <2>2. TasksOf(reader[c].version) # {}
    BY DEF Told, AcceptedHasTask
  <2> QED BY <1>4, <2>1, <2>2, TasksStay
<1>5. CASE UNCHANGED <<reader, document, results>>
  BY <1>4, <1>5, <1>6, <1>7 DEF Told
<1> QED BY <1>1, <1>2, <1>3, <1>4, <1>5, <1>6 DEF Told

LEMMA ToldHolds == Spec => []Told
<1>1. Init => Told
  BY DEF Init, Told, AcceptedHasTask, StoredFailed, LintedHasReport, NoDocument
<1> QED BY <1>1, InitTyped, NextTyped, NextTold, PTL DEF Spec

\* A client is not told that there is nothing of a request that was accepted.
THEOREM AcceptedKnown == Spec => []AcceptedIsKnown
<1>1. Told => AcceptedIsKnown
  BY DEF Told, AcceptedHasTask, AcceptedIsKnown
<1> QED BY <1>1, ToldHolds, PTL

\* A document found linted is shown with its issues, unless two calls have failed.
THEOREM LintedShown == Spec => []LintedIsShown
<1>1. Told => LintedIsShown
  BY DEF Told, LintedHasReport, LintedIsShown
<1> QED BY <1>1, ToldHolds, PTL
=============================================================================
