-------------------------- MODULE LintWorkerProofs --------------------------
(* Theorems about LintWorker, for every number of overlapping runs and      *)
(* every set of rulesets and requests, while the clean-up may be called.    *)
EXTENDS LintWorker, RulesetsProofs

-----------------------------------------------------------------------------
(* The semaphore                                                            *)

\* The permit is out exactly while one run is linting.
PermitHeld == \/ permits = 0 /\ \A g \in Runs : ~At(g, "linting")
              \/ permits = 1 /\ \E h \in Runs : \A g \in Runs : At(g, "linting") <=> g = h

RunTyped == running \in BOOLEAN /\ run \in [Runs -> Run]

LEMMA PermitStep ==
  ASSUME RunTyped, PermitHeld, NEW g \in Runs, StartOrEnd(g) \/ ProcessTask(g), TypeOK
  PROVE  RunTyped' /\ PermitHeld'
<1> USE DEF At
<1>1. /\ running' \in BOOLEAN
      /\ run' \in [Runs -> Run]
      /\ \A h \in Runs : h # g => run'[h] = run[h]
  <2>1. NoRun \in Run
    BY DEF NoRun, Run
  <2>2. CASE StartOrEnd(g)
    <3>1. CASE FindTask(g)
      <4>1. \A r \in used : [pc |-> "preparing", ruleset |-> r] \in Run
        BY DEF Run, TypeOK
      <4> QED BY <3>1, <4>1 DEF FindTask, Becomes, RunTyped, Run
    <3>2. CASE Tick(g)
      BY <3>2 DEF Tick, Becomes, RunTyped, Run
    <3>3. CASE BeginRun(g)
      BY <3>3 DEF BeginRun, Becomes, RunTyped, Run
    <3>4. CASE EndRun(g)
      BY <2>1, <3>4 DEF EndRun, RunTyped
    <3> QED BY <2>2, <3>1, <3>2, <3>3, <3>4 DEF StartOrEnd
  <2>3. CASE ProcessTask(g)
    BY <2>3 DEF ProcessTask, ReadRuleset, GiveUpTask, StartLinter, LinterEnds, Becomes, RunTyped, Run
  <2> QED BY <2>2, <2>3
<1>2. CASE StartLinter(g)
  <2>1. permits = 0 /\ permits' = 1 /\ \A h \in Runs : ~At(h, "linting")
    BY <1>2 DEF StartLinter, Capacity, PermitHeld
  <2>2. run'[g].pc = "linting"
    BY <1>2 DEF StartLinter, Becomes, RunTyped, Run
  <2> QED BY <1>1, <2>1, <2>2 DEF PermitHeld, RunTyped
<1>3. CASE LinterEnds(g)
  <2>1. /\ permits = 1 /\ permits' = 0
        /\ \A h \in Runs : At(h, "linting") => h = g
    BY <1>3 DEF LinterEnds, PermitHeld
  <2>2. run'[g].pc = "finding"
    BY <1>3 DEF LinterEnds, RunTyped
  <2> QED BY <1>1, <2>1, <2>2 DEF PermitHeld, RunTyped
<1>4. CASE StartOrEnd(g) \/ ReadRuleset(g) \/ GiveUpTask(g)
  <2>1. run[g].pc # "linting" /\ run'[g].pc # "linting" /\ UNCHANGED permits
    BY <1>4 DEF StartOrEnd, Tick, BeginRun, FindTask, EndRun, ReadRuleset, GiveUpTask, Becomes,
                NoRun, RunTyped, Run
  <2>2. \A h \in Runs : At(h, "linting")' <=> At(h, "linting")
    BY <1>1, <2>1
  <2> QED BY <1>1, <2>1, <2>2 DEF PermitHeld, RunTyped
<1> QED BY <1>2, <1>3, <1>4 DEF ProcessTask

\* The type of everything and the state of the semaphore.
WorkerInv == TypeOK /\ RunTyped /\ PermitHeld

LEMMA WorkerInitInv == WorkerInit => WorkerInv
<1> SUFFICES ASSUME WorkerInit PROVE WorkerInv
  OBVIOUS
<1>1. TypeOK
  BY InitIInv DEF IInv, WorkerInit
<1>2. NoRun \in Run /\ NoRun.pc = "none"
  BY DEF NoRun, Run
<1> QED BY <1>1, <1>2 DEF WorkerInit, WorkerInv, RunTyped, PermitHeld, At

LEMMA WorkerNextInv == WorkerInv /\ [WorkerNext]_allVars => WorkerInv'
<1> SUFFICES ASSUME WorkerInv, [WorkerNext]_allVars PROVE WorkerInv'
  OBVIOUS
<1>1. CASE [TestNext]_vars /\ UNCHANGED workerVars
  BY <1>1, NextTypeOK DEF workerVars, WorkerInv, RunTyped, PermitHeld, At
<1>2. ASSUME NEW g \in Runs, StartOrEnd(g) \/ ProcessTask(g), UNCHANGED vars
      PROVE  WorkerInv'
  <2>1. TypeOK'
    BY <1>2, NextTypeOK DEF WorkerInv
  <2> QED BY <1>2, <2>1, PermitStep DEF WorkerInv
<1> QED BY <1>1, <1>2 DEF WorkerNext, TestNext, allVars

\* Every reachable state of the worker is well typed: the semaphore never gives
\* back a token it has not handed out.
THEOREM WorkerTypeCorrect == WorkerSpec => []WorkerTypeOK
<1>1. WorkerInv => WorkerTypeOK
  BY DEF WorkerInv, RunTyped, PermitHeld, WorkerTypeOK
<1> QED BY <1>1, WorkerInitInv, WorkerNextInv, PTL DEF WorkerSpec

\* Whatever number of runs the flag lets overlap, one linter runs at a time.
THEOREM LinterAlone == WorkerSpec => []OneLinter
<1>1. WorkerInv => OneLinter
  BY DEF WorkerInv, PermitHeld, OneLinter
<1> QED BY <1>1, WorkerInitInv, WorkerNextInv, PTL DEF WorkerSpec

-----------------------------------------------------------------------------
(* Panics                                                                   *)

\* A run holds a ruleset the lint data refers to, or one the clean-up removed.
HeldKnown ==
  \A g \in Runs :
     /\ At(g, "preparing") => LET r == run[g].ruleset
                              IN r \in Ids /\ (r \in used \/ Gone(r))
     /\ At(g, "panicked") => run[g].ruleset \in Ids /\ Gone(run[g].ruleset)

PanicInv == WorkerInv /\ UsedExist /\ CleanupOfTests /\ HeldKnown

LEMMA PanicInitInv == WorkerInit => PanicInv
<1> SUFFICES ASSUME WorkerInit PROVE PanicInv
  OBVIOUS
<1>1. NoRun.pc = "none" /\ NoCleanup.ids = {}
  BY DEF NoRun, NoCleanup
<1> QED BY <1>1, WorkerInitInv
        DEF WorkerInit, Init, PanicInv, UsedExist, CleanupOfTests, HeldKnown, At

LEMMA PanicNextInv == PanicInv /\ [WorkerNext]_allVars => PanicInv'
<1> SUFFICES ASSUME PanicInv, [WorkerNext]_allVars PROVE PanicInv'
  OBVIOUS
<1>1. WorkerInv'
  BY WorkerNextInv DEF PanicInv
<1>2. used \subseteq Ids /\ cleanup.ids \subseteq Ids
  BY DEF PanicInv, WorkerInv, TypeOK, Cleanup
<1>3. CASE [TestNext]_vars /\ UNCHANGED workerVars
  <2>1. KeepStep
    BY <1>3, NextKeepStep DEF PanicInv, WorkerInv
  <2>2. UsedExist' /\ CleanupOfTests'
    BY <1>2, <2>1 DEF KeepStep, PanicInv, UsedExist, CleanupOfTests
  <2>3. \A r \in Ids : Gone(r) => Gone(r)'
    BY <2>1 DEF KeepStep, Gone
  <2>4. HeldKnown'
    BY <1>2, <1>3, <2>1, <2>3 DEF KeepStep, PanicInv, HeldKnown, workerVars, At
  <2> QED BY <1>1, <2>2, <2>4 DEF PanicInv
<1>4. ASSUME NEW g \in Runs, StartOrEnd(g) \/ ProcessTask(g), UNCHANGED vars
      PROVE  PanicInv'
  <2>1. UNCHANGED <<ruleset, used, cleanup>>
    BY <1>4 DEF vars, lintVars
  <2>2. UsedExist' /\ CleanupOfTests'
    BY <2>1 DEF PanicInv, UsedExist, CleanupOfTests, Exists
  <2>3. \A r \in Ids : Gone(r)' = Gone(r)
    BY <2>1 DEF Gone
  <2>4. run \in [Runs -> Run]
    BY DEF PanicInv, WorkerInv, RunTyped
  <2>5. \/ run'[g].pc \notin {"preparing", "panicked"}
        \/ run'[g].pc = "preparing" /\ run'[g].ruleset \in used
        \/ run'[g].pc = "panicked" /\ At(g, "preparing") /\ run'[g].ruleset = run[g].ruleset
           /\ ~Exists(run[g].ruleset)
    BY <1>4, <2>4 DEF StartOrEnd, Tick, BeginRun, FindTask, EndRun, ProcessTask, ReadRuleset,
                      GiveUpTask, StartLinter, LinterEnds, Becomes, NoRun, Run, At
  <2>6. \A h \in Runs : h # g => run'[h] = run[h]
    BY <1>4, <2>4 DEF StartOrEnd, Tick, BeginRun, FindTask, EndRun, ProcessTask, ReadRuleset,
                      GiveUpTask, StartLinter, LinterEnds, Becomes
  <2>7. HeldKnown'
    BY <1>2, <2>1, <2>3, <2>5, <2>6 DEF PanicInv, HeldKnown, UsedExist, At
  <2> QED BY <1>1, <2>2, <2>7 DEF PanicInv
<1> QED BY <1>3, <1>4 DEF WorkerNext, TestNext, allVars

\* Whatever requests do, a run of the worker panics only over test data that
\* the clean-up has removed under it.
THEOREM PanicsAreCleanups == WorkerSpec => []PanicsOnlyAfterCleanup
<1>1. PanicInv => PanicsOnlyAfterCleanup
  BY DEF PanicInv, HeldKnown, Gone, PanicsOnlyAfterCleanup
<1> QED BY <1>1, PanicInitInv, PanicNextInv, PTL DEF WorkerSpec

-----------------------------------------------------------------------------
(* The rulesets beside the worker                                           *)

\* The worker reads what the requests and the clean-up do and changes none of
\* it: beside any number of runs the rulesets are a test system as such.
THEOREM WorkerOnlyReads == WorkerSpec => TestSpec
<1>1. WorkerInit => Init
  BY DEF WorkerInit
<1>2. [WorkerNext]_allVars => [TestNext]_vars
  BY DEF WorkerNext, TestNext, allVars
<1> QED BY <1>1, <1>2, PTL DEF WorkerSpec, TestSpec

\* The slots and the history of a test system are as they should be also while
\* the worker lints with its rulesets.
THEOREM RulesetsBesideWorker == WorkerSpec => [](HistoryAgrees /\ SlotKeptOrCleaned)
BY WorkerOnlyReads, HistoryUnderCleanup, SlotsUnderCleanup, PTL
=============================================================================
