---------------------------- MODULE StartUpProofs ---------------------------
(* Theorems about StartUp, for every number of replicas, builds and faults. *)
EXTENDS StartUp, MigrationProofs

USE DEF builds

\* A call of the start-up that fails does nothing to the migration.
LEMMA FailureKeepsMigration ==
  ASSUME MInv, UNCHANGED <<builds, dbVars, replica>>, faults < MaxFaults,
         faults' = faults + 1
  PROVE  MInv'
<1>1. TypeOK' /\ PlansFit'
  <2>1. faults' \in 0..MaxFaults
    BY BoundsAssumption DEF BoundsAssumption, MInv, TypeOK
  <2> QED BY <2>1 DEF MInv, TypeOK, PlansFit, dbVars
<1>2. ASSUME Orderly' PROVE \E o \in Builds, n \in Builds : InStep(o, n)'
  <2>1. Orderly
    BY <1>2 DEF Orderly, Extends, Undoable
  <2> QED BY <2>1, IdleInStep DEF MInv
<1> QED BY <1>1, <1>2 DEF MInv

LEMMA MigrationGoesOn ==
  ASSUME MInv, [StartNext]_startVars
  PROVE  MInv'
<1>1. CASE UNCHANGED startVars
  BY <1>1, InvKept DEF startVars
<1>2. ASSUME NEW r \in Replicas, RunMigration(r) PROVE MInv'
  BY <1>2, InvKept DEF RunMigration, Next
<1>3. ASSUME NEW r \in Replicas, Main(r) \/ InitServer(r) \/ Waiter(r) \/ Events(r)
                                 \/ InitRequest(r) \/ InitAnswer(r)
      PROVE  MInv'
  <2>1. UNCHANGED vars
    BY <1>3 DEF Main, MigrationPassed, InitStopped, Join, Serve, InitServer, ListenInit,
       ListenInitReturns, Waiter, Shutdown, ShutdownReturns, WatchReady, Events,
       OlricStarted, InitDTopic, InitRequest, InitAnswer, Step
  <2> QED BY <2>1, InvKept
<1>4. ASSUME NEW r \in Replicas, ListenInitFails(r) \/ InitDTopicFails(r) PROVE MInv'
  BY <1>4, FailureKeepsMigration DEF ListenInitFails, InitDTopicFails
<1>5. ASSUME NEW r \in Replicas, Dies(r) PROVE MInv'
  BY <1>5, InvKept DEF Dies, Next
<1> QED BY <1>1, <1>2, <1>3, <1>4, <1>5 DEF StartNext

-----------------------------------------------------------------------------
(* The order in which the goroutines of a replica hand on                   *)

\* The init server is told to stop after the migration, main passes it exactly
\* when it is gone, and readiness comes after the last request it took in.
\* What a goroutine waits for is still to come: the waiter is done only after main
\* made the health controller, and a listener that waits has a node started for it.
HandsOn(p) ==
    /\ p.main = "migrating" <=> p.waiter = "waiting"
    /\ p.main \in {"joining", "routing", "serving"} <=> p.initSrv = "gone"
    /\ p.waiter \notin {"waiting", "closing"} => p.initSrv # "listening"
    /\ p.waiter \in {"announcing", "done"} => ~p.request
    /\ p.ready <=> p.waiter = "done"
    /\ p.waiter = "done" => p.main \in {"routing", "serving"}
    /\ p.main \in {"routing", "serving"} => p.olric # "off"
    /\ p.main = "serving" <=> p.listener # "off"

StartInv ==
    /\ MInv
    /\ process \in [Replicas -> Process]
    /\ \A r \in Replicas : /\ HandsOn(process[r])
                           /\ process[r].waiter # "waiting" => At(r, "ready")

LEMMA NewProcessOK ==
  NewProcess \in Process /\ HandsOn(NewProcess) /\ NewProcess.waiter = "waiting"
BY DEF NewProcess, Process, HandsOn

\* What a step of the goroutines of one replica has to show.
LEMMA StartStep ==
  ASSUME StartInv, MInv', NEW r \in Replicas, NEW p \in Process,
         process' = [process EXCEPT ![r] = p], HandsOn(p),
         p.waiter # "waiting" => At(r, "ready")',
         \A q \in Replicas \ {r} : replica'[q] = replica[q]
  PROVE  StartInv'
<1>1. /\ process' \in [Replicas -> Process] /\ process'[r] = p
      /\ \A q \in Replicas \ {r} : process'[q] = process[q]
  BY DEF StartInv
<1>2. ASSUME NEW q \in Replicas
      PROVE  HandsOn(process'[q]) /\ (process'[q].waiter # "waiting" => At(q, "ready")')
  <2>1. CASE q = r
    BY <1>1, <2>1
  <2>2. CASE q # r
    BY <1>1, <2>2 DEF StartInv, At
  <2> QED BY <2>1, <2>2
<1> QED BY <1>1, <1>2 DEF StartInv

\* The goroutines of a replica that leave its migration alone.
LEMMA GoroutinesKeep ==
  ASSUME StartInv, NEW r \in Replicas, UNCHANGED replica, MInv',
         \/ Main(r) \/ InitServer(r) \/ Waiter(r) \/ Events(r)
         \/ InitRequest(r) \/ InitAnswer(r) \/ ListenInitFails(r) \/ InitDTopicFails(r)
  PROVE  StartInv'
<1> DEFINE p == process[r]
<1>1. p \in Process /\ HandsOn(p) /\ (p.waiter # "waiting" => At(r, "ready"))
  BY DEF StartInv
<1>2. ASSUME NEW v \in Process, process' = [process EXCEPT ![r] = v], HandsOn(v),
             v.waiter # "waiting" => At(r, "ready")
      PROVE  StartInv'
  <2>1. At(r, "ready")' <=> At(r, "ready")
    BY DEF At
  <2> QED BY <1>2, <2>1, StartStep
<1>3. CASE MigrationPassed(r)
  <2> DEFINE v == [p EXCEPT !.waiter = "closing", !.main = "stopping"]
  <2>1. v \in Process /\ HandsOn(v) /\ At(r, "ready")
    BY <1>1, <1>3 DEF Process, HandsOn, MigrationPassed
  <2> QED BY <1>2, <1>3, <2>1 DEF MigrationPassed, Step
<1>4. CASE InitStopped(r)
  <2> DEFINE v == [p EXCEPT !.main = "joining", !.initSrv = "gone"]
  <2>1. v \in Process /\ HandsOn(v) /\ v.waiter = p.waiter
    BY <1>1, <1>4 DEF Process, HandsOn, InitStopped
  <2> QED BY <1>1, <1>2, <1>4, <2>1 DEF InitStopped, Step
<1>5. CASE Join(r)
  <2> DEFINE v == [p EXCEPT !.main = "routing", !.olric = "starting"]
  <2>1. v \in Process /\ HandsOn(v) /\ v.waiter = p.waiter
    BY <1>1, <1>5 DEF Process, HandsOn, Join
  <2> QED BY <1>1, <1>2, <1>5, <2>1 DEF Join, Step
<1>6. CASE Serve(r)
  <2> DEFINE v == [p EXCEPT !.main = "serving", !.listener = "waiting"]
  <2>1. v \in Process /\ HandsOn(v) /\ v.waiter = p.waiter
    BY <1>1, <1>6 DEF Process, HandsOn, Serve
  <2> QED BY <1>1, <1>2, <1>6, <2>1 DEF Serve, Step
<1>7. CASE ListenInit(r)
  <2> DEFINE v == [p EXCEPT !.initSrv = IF ShutDown(r) THEN "closed" ELSE "listening"]
  <2>1. v \in Process /\ HandsOn(v) /\ v.waiter = p.waiter
    BY <1>1, <1>7 DEF Process, HandsOn, ListenInit, ShutDown
  <2> QED BY <1>1, <1>2, <1>7, <2>1 DEF ListenInit, Step
<1>8. CASE ListenInitReturns(r)
  <2> DEFINE v == [p EXCEPT !.initSrv = "closed"]
  <2>1. v \in Process /\ HandsOn(v) /\ v.waiter = p.waiter
    BY <1>1, <1>8 DEF Process, HandsOn, ListenInitReturns
  <2> QED BY <1>1, <1>2, <1>8, <2>1 DEF ListenInitReturns, Step
<1>9. CASE Shutdown(r)
  <2> DEFINE v == [p EXCEPT !.waiter = "draining",
                            !.initSrv = IF @ = "listening" THEN "returning" ELSE @]
  <2>1. v \in Process /\ HandsOn(v) /\ At(r, "ready")
    BY <1>1, <1>9 DEF Process, HandsOn, Shutdown
  <2> QED BY <1>2, <1>9, <2>1 DEF Shutdown, Step
<1>10. CASE ShutdownReturns(r)
  <2> DEFINE v == [p EXCEPT !.waiter = "announcing"]
  <2>1. v \in Process /\ HandsOn(v) /\ At(r, "ready")
    BY <1>1, <1>10 DEF Process, HandsOn, ShutdownReturns
  <2> QED BY <1>2, <1>10, <2>1 DEF ShutdownReturns, Step
<1>11. CASE WatchReady(r)
  <2> DEFINE v == [p EXCEPT !.waiter = "done", !.ready = TRUE]
  <2>1. v \in Process /\ HandsOn(v) /\ At(r, "ready")
    BY <1>1, <1>11 DEF Process, HandsOn, WatchReady
  <2> QED BY <1>2, <1>11, <2>1 DEF WatchReady, Step
<1>12. CASE OlricStarted(r)
  <2> DEFINE v == [p EXCEPT !.olric = "started"]
  <2>1. v \in Process /\ HandsOn(v) /\ v.waiter = p.waiter
    BY <1>1 DEF Process, HandsOn
  <2> QED BY <1>1, <1>2, <1>12, <2>1 DEF OlricStarted, Step
<1>13. CASE InitDTopic(r)
  <2> DEFINE v == [p EXCEPT !.listener = "listening"]
  <2>1. v \in Process /\ HandsOn(v) /\ v.waiter = p.waiter
    BY <1>1, <1>13 DEF Process, HandsOn, InitDTopic
  <2> QED BY <1>1, <1>2, <1>13, <2>1 DEF InitDTopic, Step
<1>14. CASE InitRequest(r)
  <2> DEFINE v == [p EXCEPT !.request = TRUE]
  <2>1. v \in Process /\ HandsOn(v) /\ v.waiter = p.waiter
    BY <1>1, <1>14 DEF Process, HandsOn, InitRequest
  <2> QED BY <1>1, <1>2, <1>14, <2>1 DEF InitRequest, Step
<1>15. CASE InitAnswer(r)
  <2> DEFINE v == [p EXCEPT !.request = FALSE]
  <2>1. v \in Process /\ HandsOn(v) /\ v.waiter = p.waiter
    BY <1>1 DEF Process, HandsOn
  <2> QED BY <1>1, <1>2, <1>15, <2>1 DEF InitAnswer, Step
<1>16. CASE ListenInitFails(r)
  <2> DEFINE v == [p EXCEPT !.initSrv = "closed"]
  <2>1. v \in Process /\ HandsOn(v) /\ v.waiter = p.waiter
    BY <1>1, <1>16 DEF Process, HandsOn, ListenInitFails
  <2>2. process' = [process EXCEPT ![r] = v]
    BY <1>16 DEF ListenInitFails
  <2> QED BY <1>1, <1>2, <2>1, <2>2
<1>17. CASE InitDTopicFails(r)
  <2> DEFINE v == [p EXCEPT !.listener = "lost"]
  <2>1. v \in Process /\ HandsOn(v) /\ v.waiter = p.waiter
    BY <1>1, <1>17 DEF Process, HandsOn, InitDTopicFails
  <2>2. process' = [process EXCEPT ![r] = v]
    BY <1>17 DEF InitDTopicFails
  <2> QED BY <1>1, <1>2, <2>1, <2>2
<1> QED BY <1>3, <1>4, <1>5, <1>6, <1>7, <1>8, <1>9, <1>10, <1>11, <1>12, <1>13,
           <1>14, <1>15, <1>16, <1>17 DEF Main, InitServer, Waiter, Events

LEMMA StartInvAtStart == StartInit => StartInv
<1> SUFFICES ASSUME StartInit PROVE StartInv
  OBVIOUS
<1>1. MInv
  BY InvAtStart DEF StartInit
<1>2. process = [r \in Replicas |-> NewProcess]
  BY DEF StartInit
<1> HIDE DEF NewProcess
<1> QED BY <1>1, <1>2, NewProcessOK DEF StartInv

LEMMA StartInvKept == StartInv /\ [StartNext]_startVars => StartInv'
<1> SUFFICES ASSUME StartInv, [StartNext]_startVars PROVE StartInv'
  OBVIOUS
<1>1. MInv' /\ TypeOK
  BY MigrationGoesOn DEF StartInv, MInv
<1>2. CASE UNCHANGED startVars
  BY <1>1, <1>2 DEF StartInv, startVars, vars, At
<1>3. ASSUME NEW r \in Replicas, RunMigration(r) PROVE StartInv'
  <2>1. process[r].waiter = "waiting"
    BY <1>3 DEF StartInv, RunMigration, Migrate, ReadCurrent, RereadCurrent, PlanRequired,
       PlanFirst, StoreAlreadyApplied, ApplyRequired, At
  <2>2. \A q \in Replicas \ {r} : replica'[q] = replica[q]
    BY <1>1, <1>3 DEF RunMigration, Migrate, ReadCurrent, RereadCurrent, PlanRequired,
       PlanFirst, StoreAlreadyApplied, ApplyRequired, Becomes, Restarts, TypeOK
  <2>3. process[r] \in Process /\ HandsOn(process[r])
    BY DEF StartInv
  <2>4. CASE replica'[r] = Starting
    <3>1. process' = [process EXCEPT ![r] = NewProcess]
      BY <1>3, <2>4 DEF RunMigration
    <3> QED BY <1>1, <2>2, <3>1, NewProcessOK, StartStep
  <2>5. CASE replica'[r] # Starting
    <3>1. process' = [process EXCEPT ![r] = process[r]]
      BY <1>3, <2>5 DEF RunMigration, StartInv
    <3> QED BY <1>1, <2>1, <2>2, <2>3, <3>1, StartStep
  <2> QED BY <2>4, <2>5
<1>4. ASSUME NEW r \in Replicas,
             \/ Main(r) \/ InitServer(r) \/ Waiter(r) \/ Events(r)
             \/ InitRequest(r) \/ InitAnswer(r) \/ ListenInitFails(r) \/ InitDTopicFails(r)
      PROVE  StartInv'
  <2>1. UNCHANGED replica
    BY <1>4 DEF Main, MigrationPassed, InitStopped, Join, Serve, InitServer, ListenInit,
       ListenInitReturns, Waiter, Shutdown, ShutdownReturns, WatchReady, Events,
       OlricStarted, InitDTopic, InitRequest, InitAnswer, ListenInitFails, InitDTopicFails,
       Step, vars
  <2> QED BY <1>1, <1>4, <2>1, GoroutinesKeep
<1>5. ASSUME NEW r \in Replicas, Dies(r) PROVE StartInv'
  <2>1. \A q \in Replicas \ {r} : replica'[q] = replica[q]
    BY <1>1, <1>5, StartingTyped, MovesTo DEF Dies, Crash, Restarts
  <2>2. process' = [process EXCEPT ![r] = NewProcess]
    BY <1>5 DEF Dies
  <2> QED BY <1>1, <2>1, <2>2, NewProcessOK, StartStep
<1> QED BY <1>2, <1>3, <1>4, <1>5 DEF StartNext

-----------------------------------------------------------------------------
(* Theorems                                                                 *)

\* Every variable of the start-up keeps its type.
THEOREM StartTypeCorrect == StartSpec => []StartTypeOK
<1>1. StartInv => StartTypeOK
  BY DEF StartInv, MInv, StartTypeOK
<1> QED BY <1>1, StartInvAtStart, StartInvKept, PTL DEF StartSpec

\* Two servers never listen in one process, in whichever order its goroutines
\* come to run and however late the one of the init server does.
THEOREM ServersTakeTurns == StartSpec => []OneServer
<1>1. StartInv => OneServer
  BY DEF StartInv, HandsOn, OneServer
<1> QED BY <1>1, StartInvAtStart, StartInvKept, PTL DEF StartSpec

\* A replica that passes its readiness probe has migrated, is done with the init
\* server and, unless two builds are in use, is on the schema its build leads to.
THEOREM ReadyAfterMigration == StartSpec => []ReadyIsStarted
<1>1. MInv => ReadyOnBuild
  BY ReadyOnItsBuild
<1>2. StartInv => ReadyIsStarted
  BY <1>1 DEF StartInv, HandsOn, ReadyIsStarted, ReadyOnBuild
<1> QED BY <1>2, StartInvAtStart, StartInvKept, PTL DEF StartSpec

\* What the migration promises it keeps among the goroutines of the start-up, whose
\* failures are not its own: the records agree and plans land on their build.
THEOREM MigrationAmongServers == (StartSpec => []RecordsAgree) /\ (StartSpec => LandsOnBuild)
<1>1. StartInv => RecordsAgree
  BY RecordsOfInv DEF StartInv
<1>2. StartInv /\ [StartNext]_startVars =>
         [\A r \in Replicas : Orderly /\ At(r, "applying") /\ At(r, "ready")' =>
             effects' = Updated(applied, build[r])]_vars
  <2> SUFFICES ASSUME StartInv, StartNext, NEW r \in Replicas,
                      Orderly, At(r, "applying"), At(r, "ready")'
               PROVE  effects' = Updated(applied, build[r])
    BY DEF startVars
  <2>1. replica' # replica
    BY DEF At
  <2>2. Next
    BY <2>1 DEF StartNext, RunMigration, Dies, Next, Main, MigrationPassed, InitStopped,
       Join, Serve, InitServer, ListenInit, ListenInitReturns, Waiter, Shutdown,
       ShutdownReturns, WatchReady, Events, OlricStarted, InitDTopic, InitRequest,
       InitAnswer, ListenInitFails, InitDTopicFails, Step, vars
  <2> QED BY <2>2, StepLands DEF StartInv
<1> QED BY <1>1, <1>2, StartInvAtStart, StartInvKept, PTL DEF StartSpec, LandsOnBuild

\* Whatever failed on the way, a replica past its migration is up or has a
\* goroutine that waits for no other.
LEMMA HandsOnGoesOn ==
  ASSUME StartInv, NEW r \in Replicas, process[r].main # "migrating", ~Up(r)
  PROVE  CanGoOn(r)
<1> DEFINE p == process[r]
<1>1. p \in Process /\ HandsOn(p)
  BY DEF StartInv
<1>2. CASE p.main = "stopping"
  <2>1. p.initSrv \in {"new", "returning", "closed"} \/ p.waiter = "closing"
    BY <1>1, <1>2 DEF Process, HandsOn
  <2> QED BY <1>2, <2>1 DEF CanGoOn
<1>3. CASE p.main \in {"joining", "routing"}
  BY <1>3 DEF CanGoOn
<1>4. CASE p.main = "serving"
  <2>1. CASE p.waiter # "done"
    <3>1. p.waiter \in {"closing", "draining", "announcing"}
      BY <1>1, <1>4, <2>1 DEF Process, HandsOn
    <3> QED BY <1>4, <3>1 DEF CanGoOn
  <2>2. CASE p.waiter = "done"
    <3>1. p.listener = "waiting" /\ p.olric \in {"starting", "started"}
      BY <1>1, <1>4, <2>2 DEF Process, HandsOn, Up
    <3> QED BY <3>1 DEF CanGoOn
  <2> QED BY <2>1, <2>2
<1> QED BY <1>1, <1>2, <1>3, <1>4 DEF Process

\* The goroutines of a start-up never all wait for each other.
THEOREM StartsWithoutDeadlock == StartSpec => []NoneStuck
<1>1. StartInv => NoneStuck
  BY HandsOnGoesOn DEF NoneStuck
<1> QED BY <1>1, StartInvAtStart, StartInvKept, PTL DEF StartSpec
=============================================================================
