------------------------------- MODULE StartUp ------------------------------
(***************************************************************************)
(* The start of a replica (main) around its migration: an init server      *)
(* answers while the migration runs and gives way to the server of the     *)
(* service; goroutines hand on to each other over channels without a       *)
(* buffer, and the readiness probe, the Olric node and the listener of     *)
(* publish events come up in any order.  Composed with Migration, whose    *)
(* database the replicas share.                                            *)
(*                                                                         *)
(* External: http.Server (after Shutdown, ListenAndServe returns at once,  *)
(* now or when it is called; Shutdown returns when no request is being     *)
(* answered).  A process that ends is started again: a panic, a log.Fatal  *)
(* or a kill is the step Dies, a migration that fails the one that finds   *)
(* it out.  A definition marked (mutation) is a plausible bug in the one   *)
(* after it.                                                               *)
(***************************************************************************)
EXTENDS Migration

VARIABLE process  \* the goroutines of every replica

startVars == <<vars, process>>

\* initSrv: its goroutine, "returning" once its socket is closed and "closed" while
\* it blocks on initSrvStoppedChan.
\* request: the init server is answering one.  waiter: the goroutine that
\* receives migrationPassedChan, stops the init server and sends readyChan.
Process == [initSrv : {"new", "listening", "returning", "closed", "gone"},
            request : BOOLEAN,
            waiter : {"waiting", "closing", "draining", "announcing", "done"},
            main : {"migrating", "stopping", "joining", "routing", "serving"},
            ready : BOOLEAN,
            olric : {"off", "starting", "started"},
            listener : {"off", "waiting", "listening", "lost"}]

NewProcess == [initSrv |-> "new", request |-> FALSE, waiter |-> "waiting",
               main |-> "migrating", ready |-> FALSE, olric |-> "off", listener |-> "off"]

StartInit == Init /\ process = [r \in Replicas |-> NewProcess]

Step(r, p) == process' = [process EXCEPT ![r] = p] /\ UNCHANGED vars

-----------------------------------------------------------------------------
(* The goroutine of the migration                                           *)

\* An error makes its goroutine panic, which ends the process: what was reading
\* or applying starts anew.
RunMigration(r) ==
    /\ Migrate(r)
    /\ process' = IF replica'[r] = Starting
                  THEN [process EXCEPT ![r] = NewProcess] ELSE process

\* migrationPassedChan: the waiter receives, and main goes on past wg.Wait.
MigrationPassed(r) ==
    LET p == process[r]
    IN /\ At(r, "ready") /\ p.waiter = "waiting"
       /\ Step(r, [p EXCEPT !.waiter = "closing", !.main = "stopping"])

-----------------------------------------------------------------------------
(* The init server                                                          *)

ShutDown(r) == process[r].waiter \notin {"waiting", "closing"}

ListenInit(r) ==
    /\ process[r].initSrv = "new"
    /\ Step(r, [process[r] EXCEPT !.initSrv = IF ShutDown(r) THEN "closed" ELSE "listening"])

\* (mutation) the goroutine that cannot listen returns and sends nothing
ListenInitFails_Returns(r) ==
    /\ faults < MaxFaults
    /\ process[r].initSrv = "new"
    /\ process' = [process EXCEPT ![r].initSrv = "gone"]
    /\ faults' = faults + 1
    /\ UNCHANGED <<builds, dbVars, replica>>

\* The address is not free: the error is dropped.
ListenInitFails(r) ==
    /\ faults < MaxFaults
    /\ process[r].initSrv = "new"
    /\ process' = [process EXCEPT ![r].initSrv = "closed"]
    /\ faults' = faults + 1
    /\ UNCHANGED <<builds, dbVars, replica>>

InitRequest(r) ==
    /\ process[r].initSrv = "listening"
    /\ Step(r, [process[r] EXCEPT !.request = TRUE])

InitAnswer(r) ==
    /\ process[r].request
    /\ Step(r, [process[r] EXCEPT !.request = FALSE])

ListenInitReturns(r) ==
    /\ process[r].initSrv = "returning"
    /\ Step(r, [process[r] EXCEPT !.initSrv = "closed"])

Shutdown(r) ==
    /\ process[r].waiter = "closing"
    /\ Step(r, [process[r] EXCEPT !.waiter = "draining",
           !.initSrv = IF @ = "listening" THEN "returning" ELSE @])

\* (mutation) requests that are being answered are not waited for
ShutdownReturns_AtOnce(r) ==
    /\ process[r].waiter = "draining"
    /\ Step(r, [process[r] EXCEPT !.waiter = "announcing"])

ShutdownReturns(r) ==
    /\ process[r].waiter = "draining" /\ ~process[r].request
    /\ Step(r, [process[r] EXCEPT !.waiter = "announcing"])

\* watchReady: the health controller, once main has made it, receives readyChan.
WatchReady(r) ==
    /\ process[r].waiter = "announcing" /\ process[r].main \in {"routing", "serving"}
    /\ Step(r, [process[r] EXCEPT !.waiter = "done", !.ready = TRUE])

-----------------------------------------------------------------------------
(* main                                                                     *)

\* (mutation) main does not wait for the init server
InitStopped_NotAwaited(r) ==
    /\ process[r].main = "stopping"
    /\ Step(r, [process[r] EXCEPT !.main = "joining"])

\* initSrvStoppedChan
InitStopped(r) ==
    /\ process[r].main = "stopping" /\ process[r].initSrv = "closed"
    /\ Step(r, [process[r] EXCEPT !.main = "joining", !.initSrv = "gone"])

\* NewOlricProvider, SetupGoGuardian, NewSpectralExecutor, NewHealthController.
Join(r) ==
    /\ process[r].main = "joining"
    /\ Step(r, [process[r] EXCEPT !.main = "routing", !.olric = "starting"])

\* publishEventListener.Start and the server of the service.
Serve(r) ==
    /\ process[r].main = "routing"
    /\ Step(r, [process[r] EXCEPT !.main = "serving", !.listener = "waiting"])

-----------------------------------------------------------------------------
(* The Olric node and the listener of publish events                        *)

OlricStarted(r) ==
    /\ process[r].olric = "starting"
    /\ Step(r, [process[r] EXCEPT !.olric = "started"])

\* Get waits for the node; then the topic is made and listened to.
InitDTopic(r) ==
    /\ process[r].listener = "waiting" /\ process[r].olric = "started"
    /\ Step(r, [process[r] EXCEPT !.listener = "listening"])

\* The topic cannot be made: AddListener on nil panics, and SafeAsync drops that.
InitDTopicFails(r) ==
    /\ faults < MaxFaults
    /\ process[r].listener = "waiting" /\ process[r].olric = "started"
    /\ process' = [process EXCEPT ![r].listener = "lost"]
    /\ faults' = faults + 1
    /\ UNCHANGED <<builds, dbVars, replica>>

Dies(r) == Crash(r) /\ process' = [process EXCEPT ![r] = NewProcess]

-----------------------------------------------------------------------------
Main(r) == MigrationPassed(r) \/ InitStopped(r) \/ Join(r) \/ Serve(r)

InitServer(r) == ListenInit(r) \/ ListenInitReturns(r)

Waiter(r) == Shutdown(r) \/ ShutdownReturns(r) \/ WatchReady(r)

Events(r) == OlricStarted(r) \/ InitDTopic(r)

StartNext ==
    \E r \in Replicas : \/ RunMigration(r) \/ Main(r) \/ InitServer(r) \/ Waiter(r)
                        \/ Events(r) \/ InitRequest(r) \/ InitAnswer(r)
                        \/ ListenInitFails(r) \/ InitDTopicFails(r) \/ Dies(r)

StartSpec == StartInit /\ [][StartNext]_startVars

\* Goroutines that can run do, and a request is answered: the server has timeouts.
StartFairness ==
    \A r \in Replicas : /\ WF_startVars(RunMigration(r)) /\ WF_startVars(Main(r))
                        /\ WF_startVars(InitServer(r)) /\ WF_startVars(Waiter(r))
                        /\ WF_startVars(Events(r)) /\ WF_startVars(InitAnswer(r))

StartFairSpec == StartSpec /\ StartFairness

-----------------------------------------------------------------------------
\* The type of every variable.
StartTypeOK == TypeOK /\ process \in [Replicas -> Process]

\* "wait for the init srv to stop to avoid multiple servers started race
\* condition": the address is free when the server of the service takes it, and
\* no goroutine that comes late takes it again.
OneServer ==
    \A r \in Replicas : ~(process[r].main = "serving" /\ process[r].initSrv = "listening")

\* A replica that says it is ready has migrated, unless an update is under way the
\* schema is the one its build leads to, and no request that the init server took
\* in is still being answered.
ReadyIsStarted ==
    \A r \in Replicas : process[r].ready =>
        /\ At(r, "ready") /\ ~process[r].request
        /\ (\A q \in Replicas : build[q] = build[r]) =>
               effects = Updated(applied, build[r])

\* What the start of a replica comes to; a topic that could not be made is given up.
Up(r) == /\ process[r].main = "serving" /\ process[r].ready
         /\ process[r].listener \in {"listening", "lost"}

\* Some goroutine of the replica has no other to wait for.
CanGoOn(r) ==
    LET p == process[r]
    IN \/ p.initSrv \in {"new", "returning"}
       \/ p.initSrv = "closed" /\ p.main = "stopping"
       \/ p.waiter \in {"closing", "draining"}  \* for an answer, if for anything
       \/ p.waiter = "announcing" /\ p.main \in {"routing", "serving"}
       \/ p.main \in {"joining", "routing"}
       \/ p.listener = "waiting" /\ p.olric = "started"
       \/ p.olric = "starting"

\* The channels have no buffer and main, the init server and the waiter each block
\* on another: once its migration has passed, whatever failed meanwhile, a replica
\* that is not up yet has a goroutine that can go on.
NoneStuck == \A r \in Replicas : process[r].main = "migrating" \/ Up(r) \/ CanGoOn(r)

\* The goroutines never wait for each other for ever: every replica comes to
\* serve, to say so, and to listen unless the topic could not be made.
EventuallyServing == Orderly => <>[](\A r \in Replicas : Up(r))
=============================================================================
