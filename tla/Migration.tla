----------------------------- MODULE Migration -----------------------------
(***************************************************************************)
(* The schema migration every replica runs before it serves anything       *)
(* (dbMigrationServiceImpl): which of the applied migrations have to be    *)
(* taken down and which local ones brought up, decided from reads that no  *)
(* lock protects, and carried out in one transaction.  Replicas start,     *)
(* crash and start again at any time against a database left by an older   *)
(* build, during a rolling update some of them with the older build        *)
(* themselves.                                                             *)
(*                                                                         *)
(* A script is its number and a variant of its content, which may come     *)
(* without a down script, as the one migration that is shipped does.  What *)
(* a script does is reduced to one effect: an up script succeeds if it is  *)
(* not there, a down script if it is.  The check of a new down script      *)
(* behind a savepoint leaves nothing and is not modelled.  A definition    *)
(* marked (mutation) is a plausible bug in the one after it.               *)
(***************************************************************************)
EXTENDS Naturals, Sequences, FiniteSets, FiniteSetsExt

CONSTANTS
    Replicas,
    Variants,    \* contents a migration of one number may have
    NoDown,      \* those of them that come without a down script
    MaxNum,      \* number of migrations a build has at most
    NoScript,    \* no row in stored_schema_migration
    MaxFaults    \* bound on crashes and calls that fail

ASSUME VariantsAssumption == NoScript \notin Variants /\ NoDown \subseteq Variants
ASSUME BoundsAssumption == MaxNum \in Nat \ {0} /\ MaxFaults \in Nat

VARIABLES
    applied,    \* the build that the database was on at first (history)
    build,      \* upMigrations of every replica: the content of each local migration
    tableMade,  \* schema_migrations exists
    current,    \* schema_migrations.version, 0 without a row
    stored,     \* stored_schema_migration: the content of each number
    effects,    \* scripts whose effect is in the database
    replica,    \* the migration of every replica
    faults      \* crashes and failed calls so far

builds == <<applied, build>>
dbVars == <<tableMade, current, stored, effects>>
vars == <<builds, dbVars, replica, faults>>

Nums == 1..MaxNum
Scripts == Nums \X Variants

\* seen: the version as this replica has read it; downs and ups: its plan.
Replica == [pc : {"reading", "rereading", "planning", "storing", "applying", "ready"},
            seen : 0..MaxNum, downs : SUBSET Scripts, ups : SUBSET Nums]
Starting == [pc |-> "reading", seen |-> 0, downs |-> {}, ups |-> {}]

Local(r, i) == <<i, build[r][i]>>

\* The scripts whose effect a database of this build has.
Schema(b) == {<<i, b[i]>> : i \in DOMAIN b}
StoredNums == {i \in Nums : stored[i] # NoScript}

Builds == UNION {[1..n -> Variants] : n \in 0..MaxNum}

\* A rolling update from an older build, any migration of which the new one may
\* have edited.  The database may not have stored its migrations: it is then taken
\* to have applied the ones of the new build.
Init == \E old \in Builds, new \in Builds :
           /\ applied = old
           /\ build \in [Replicas -> {old, new} \ {<<>>}]
           /\ current = Len(old)
           /\ effects = Schema(old)
           /\ \/ stored = [i \in Nums |-> IF i \in DOMAIN old THEN old[i] ELSE NoScript]
              \/ /\ Schema(old) \subseteq Schema(new)
                 /\ stored = [i \in Nums |-> NoScript]
           /\ tableMade \in IF old = <<>> THEN BOOLEAN ELSE {TRUE}
           /\ replica = [r \in Replicas |-> Starting]
           /\ faults = 0

At(r, pc) == replica[r].pc = pc

Becomes(r, pc, seen, downs, ups) ==
    replica' = [replica EXCEPT ![r] =
        [pc |-> pc, seen |-> seen, downs |-> downs, ups |-> ups]]

\* (mutation) the plan is kept and tried again
Restarts_SamePlan(r) == UNCHANGED replica

\* Migrate returns an error: main panics and the replica is started again.
Restarts(r) == replica' = [replica EXCEPT ![r] = Starting]

-----------------------------------------------------------------------------
(* Migrate                                                                  *)

ReadCurrent(r) ==
    /\ At(r, "reading")
    /\ IF tableMade THEN Becomes(r, "planning", current, {}, {})
                    ELSE Becomes(r, "rereading", 0, {}, {})
    /\ tableMade' = TRUE
    /\ UNCHANGED <<builds, current, stored, effects, faults>>

\* After it has made the table, a replica that does find a version in it, for
\* another replica was faster, returns at once with no error.
RereadCurrent(r) ==
    /\ At(r, "rereading")
    /\ IF current = 0 THEN Becomes(r, "planning", 0, {}, {})
                      ELSE Becomes(r, "ready", 0, {}, {})
    /\ UNCHANGED <<builds, dbVars, faults>>

\* (mutation) a migration of the same number is taken for the same migration
Unchanged_ByNumber(r, i) == i <= replica[r].seen /\ i <= Len(build[r])

Unchanged(r, i) == i <= replica[r].seen /\ i <= Len(build[r]) /\ stored[i] = build[r][i]

\* Going down from the highest number both have, the first unchanged migration.
Common(r) == Max({0} \cup {i \in Nums : Unchanged(r, i)})

\* (mutation) the first migration above the common ones is passed over
Above_OffByOne(r, n) == {i \in Nums : Common(r) + 1 < i /\ i <= n}

Above(r, n) == {i \in Nums : Common(r) < i /\ i <= n}

\* getRequiredMigrations; the stored rows are read at once here, one by one in
\* the code.  A migration to take down that is not stored is an
\* error.  A version that was read as 0 needs nothing any more if migrations are
\* stored by now.
PlanRequired(r) ==
    LET seen == replica[r].seen
        downs == {<<i, stored[i]>> : i \in Above(r, seen)}
        ups == Above(r, Len(build[r]))
    IN /\ At(r, "planning") /\ StoredNums # {}
       /\ \/ /\ seen = 0
             /\ Becomes(r, "ready", 0, {}, {})
          \/ /\ seen > 0 /\ ~(Above(r, seen) \subseteq StoredNums)
             /\ Restarts(r)
          \/ /\ seen > 0 /\ Above(r, seen) \subseteq StoredNums
             /\ Becomes(r, IF downs = {} /\ ups = {} THEN "ready" ELSE "applying",
                        seen, downs, ups)
       /\ UNCHANGED <<builds, dbVars, faults>>

\* Nothing is stored: the applied migrations have yet to be stored, as they are
\* in this build.
PlanFirst(r) ==
    LET seen == replica[r].seen
    IN /\ At(r, "planning") /\ StoredNums = {}
       /\ IF Len(build[r]) < seen THEN Restarts(r)
          ELSE Becomes(r, "storing", seen, {}, {i \in Nums : seen < i /\ i <= Len(build[r])})
       /\ UNCHANGED <<builds, dbVars, faults>>

\* storeAlreadyAppliedSchemaMigrations: on conflict do nothing.
StoreAlreadyApplied(r) ==
    /\ At(r, "storing")
    /\ stored' = [i \in Nums |-> IF i <= replica[r].seen /\ stored[i] = NoScript
                                 THEN build[r][i] ELSE stored[i]]
    /\ Becomes(r, IF replica[r].ups = {} THEN "ready" ELSE "applying",
               replica[r].seen, {}, replica[r].ups)
    /\ UNCHANGED <<builds, tableMade, current, effects, faults>>

-----------------------------------------------------------------------------
(* applyRequiredMigrations                                                  *)

\* (mutation) the version is the number of the next migration
Latest_Next(downs, ups) == IF ups # {} THEN Max(ups) + 1 ELSE Min({s[1] : s \in downs})

Latest(downs, ups) == IF ups # {} THEN Max(ups) ELSE Min({s[1] : s \in downs}) - 1

\* (mutation) the rows of the migrations taken down are kept
RowsAfter_Kept(r, downs, ups) ==
    [i \in Nums |-> IF i \in ups THEN build[r][i] ELSE stored[i]]

RowsAfter(r, downs, ups) ==
    [i \in Nums |-> IF i \in ups THEN build[r][i]
                    ELSE IF i \in {s[1] : s \in downs} THEN NoScript ELSE stored[i]]

\* (mutation) a script that fails is skipped
Applicable_Skipped(r, downs, ups) == TRUE

\* Of a migration without a down script nothing is executed: its row is deleted and
\* its effect stays.
Executed(downs) == {s \in downs : s[2] \notin NoDown}

\* One script or one insert that fails rolls everything back.
Applicable(r, downs, ups) ==
    /\ Executed(downs) \subseteq effects
    /\ \A i \in ups : /\ Local(r, i) \notin effects \ Executed(downs)
                      /\ stored[i] = NoScript \/ i \in {s[1] : s \in downs}

ApplyRequired(r) ==
    LET downs == replica[r].downs
        ups == replica[r].ups
    IN /\ At(r, "applying")
       /\ IF Applicable(r, downs, ups)
          THEN /\ effects' = (effects \ Executed(downs)) \cup {Local(r, i) : i \in ups}
               /\ stored' = RowsAfter(r, downs, ups)
               /\ current' = Latest(downs, ups)
               /\ Becomes(r, "ready", 0, {}, {})
          ELSE /\ Restarts(r)
               /\ UNCHANGED <<current, stored, effects>>
       /\ UNCHANGED <<builds, tableMade, faults>>

\* A replica crashes or a call of its migration fails, a commit whose answer is
\* lost included: that is ApplyRequired first.  It starts again.
Crash(r) ==
    /\ faults < MaxFaults
    /\ faults' = faults + 1
    /\ Restarts(r)
    /\ UNCHANGED <<builds, dbVars>>

-----------------------------------------------------------------------------
Migrate(r) == \/ ReadCurrent(r)
              \/ RereadCurrent(r)
              \/ PlanRequired(r)
              \/ PlanFirst(r)
              \/ StoreAlreadyApplied(r)
              \/ ApplyRequired(r)

Next == \E r \in Replicas : Migrate(r) \/ Crash(r)

Spec == Init /\ [][Next]_vars

\* A replica that has not crashed goes on, and one that has panicked is started
\* again.
FairSpec == Spec /\ \A r \in Replicas : WF_vars(Migrate(r))

-----------------------------------------------------------------------------
\* The type of every variable.
TypeOK == /\ applied \in Builds
          /\ \A r \in Replicas : build[r] \in Seq(Variants) /\ Len(build[r]) \in Nums
          /\ tableMade \in BOOLEAN
          /\ current \in 0..MaxNum
          /\ stored \in [Nums -> Variants \cup {NoScript}]
          /\ effects \in SUBSET Scripts
          /\ replica \in [Replicas -> Replica]
          /\ faults \in 0..MaxFaults

\* An update under way only adds migrations to the older build or leaves off its
\* last ones: it changes none that is applied.
Extends == \A q, r \in Replicas : \/ Schema(build[q]) \subseteq Schema(build[r])
                                  \/ Schema(build[r]) \subseteq Schema(build[q])

\* What one of the builds in use takes down of the other has a down script.
Undoable == \A q, r \in Replicas :
                \A s \in Schema(build[q]) \ Schema(build[r]) : s[2] \notin NoDown

\* A single build is in use, or two of which one extends the other and can undo it.
Orderly == Extends /\ Undoable

\* Going down, the first migration that is the same in both builds.
LastEqual(old, new) == Max({0} \cup {i \in DOMAIN old \cap DOMAIN new : old[i] = new[i]})

\* What is applied once a new build has been updated to: below the last unchanged
\* migration the older build stays, edited or not.
Reached(old, new) == [i \in DOMAIN new |-> IF i <= LastEqual(old, new) THEN old[i] ELSE new[i]]

\* Effects of migrations taken down without a down script.
LeftBehind(old, new) == {s \in Schema(old) \ Schema(Reached(old, new)) : s[2] \in NoDown}

Updated(old, new) == Schema(Reached(old, new)) \cup LeftBehind(old, new)

\* The new build edits nothing below a migration it leaves as it was, and what it
\* takes down has a down script.
Clean(old, new) ==
    /\ \A i, j \in DOMAIN old \cap DOMAIN new : i < j /\ old[j] = new[j] => old[i] = new[i]
    /\ \A s \in Schema(old) \ Schema(new) : s[2] \notin NoDown

\* The three records of what has been applied agree, whatever two replicas do at
\* once.  Until migrations are stored, the version is the number of those in effect;
\* then it is the last one stored, each one stored is in effect, and an effect that
\* is not recorded is of a migration without a down script.
RecordsAgree ==
    Orderly =>
        IF StoredNums = {}
        THEN {s[1] : s \in effects} = 1..current /\ Cardinality(effects) = current
        ELSE /\ StoredNums = 1..current
             /\ \A i \in StoredNums : <<i, stored[i]>> \in effects
             /\ \A s \in effects : stored[s[1]] = s[2] \/ s[2] \in NoDown

\* Unless two builds are in use, a replica that goes on to serve does so on what its
\* build makes of the one applied before, whichever replica has brought it about;
\* and that is the schema of its build exactly if the update is clean.
ReadyOnBuild ==
    (\A q, r \in Replicas : build[q] = build[r]) =>
        \A r \in Replicas : At(r, "ready") =>
            /\ effects = Updated(applied, build[r])
            /\ effects = Schema(build[r]) <=> Clean(applied, build[r])

\* A plan made against the schema of another build is never carried out in part:
\* the transaction that changes the schema leaves what the build of its replica
\* makes of the first one, also when replicas of the older build undo the update
\* meanwhile.  While two builds are in use that is the schema of the build.
LandsOnBuild ==
    [][\A r \in Replicas : Orderly /\ At(r, "applying") /\ At(r, "ready")' =>
           effects' = Updated(applied, build[r])]_vars

\* Every replica serves in the end: a plan another replica has overtaken fails
\* and is made again.
EventuallyReady == Orderly => <>[](\A r \in Replicas : At(r, "ready"))
=============================================================================
