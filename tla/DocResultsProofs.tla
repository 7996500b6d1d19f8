-------------------------- MODULE DocResultsProofs --------------------------
(* DocResults implements Batch, for every non-empty set of documents.        *)
EXTENDS DocResults, TLAPS

-----------------------------------------------------------------------------
Typed == status \in [Docs -> {"open"} \cup Outcomes]

LEMMA InitTyped == Init => Typed
BY DEF Init, Typed, Outcomes

LEMMA NextTyped == Typed /\ [Next]_vars => Typed'
BY DEF Typed, Next, vars, resultVars, Fail, Reopen, Record, Outcomes

\* The counts single out one of the three outcomes.
LEMMA OutcomeCases ==
  ASSUME Typed
  PROVE  /\ Outcome \in {"pending"} \cup Outcomes
         /\ Outcome = "pending" <=> \E d \in Docs : status[d] = "open"
         /\ \A d \in Docs : status[d] = "error" => Outcome # "success"
BY DEF Outcome, Outcomes

LEMMA OutcomeTyped ==
  ASSUME Typed, Typed'
  PROVE  /\ Outcome \in {"pending"} \cup Outcomes
         /\ Outcome' \in {"pending"} \cup Outcomes
BY DEF Outcome, Outcomes

\* A saved document settles the batch, or leaves it pending, or rewrites it;
\* an outcome that is not pending has no open document to begin with.
LEMMA RecordImplements ==
  ASSUME Typed, Typed', NEW d \in Docs, NEW o \in Outcomes, Record(d, o)
  PROVE  Seen!Next
<1>1. version' = "inProgress"
  BY DEF Record
<1>2. CASE Outcome = "pending" /\ Outcome' = "pending"
  BY <1>1, <1>2 DEF Seen!Next, Seen!Save
<1>3. CASE Outcome = "pending" /\ Outcome' # "pending"
  BY <1>1, <1>3, OutcomeTyped DEF Seen!Next, Seen!Settle, Seen!Outcomes, Outcomes
<1>4. CASE Outcome # "pending"
  <2>1. \A x \in Docs : status[x] # "open"
    BY <1>4, OutcomeCases
  <2>2. \A x \in Docs : status'[x] # "open"
    BY <2>1 DEF Record, Typed, Outcomes
  <2>3. Outcome' # "pending"
    BY <2>2 DEF Outcome
  <2> QED BY <1>1, <1>4, <2>3, OutcomeTyped DEF Seen!Next, Seen!Rewrite, Seen!Outcomes, Outcomes
<1> QED BY <1>2, <1>3, <1>4

LEMMA FailImplements ==
  ASSUME Typed, Typed', NEW d \in Docs, Fail(d)
  PROVE  Seen!Next \/ UNCHANGED <<Outcome, version>>
<1>1. Outcome = "pending" /\ UNCHANGED version
  BY OutcomeCases DEF Fail, resultVars
<1>2. status'[d] = "error"
  BY DEF Fail, Typed
<1>3. Outcome' \in {"pending", "error"}
  BY <1>2 DEF Outcome
<1> QED BY <1>1, <1>3 DEF Seen!Next, Seen!Settle, Seen!Outcomes

LEMMA ReopenImplements ==
  ASSUME Typed, Typed', NEW d \in Docs, Reopen(d)
  PROVE  Seen!Next \/ UNCHANGED <<Outcome, version>>
<1>1. status'[d] = "open" /\ UNCHANGED version
  BY DEF Reopen, resultVars, Typed
<1>2. Outcome' = "pending"
  BY <1>1 DEF Outcome
<1> QED BY <1>1, <1>2, OutcomeTyped DEF Seen!Next, Seen!Reopen, Seen!Outcomes, Outcomes

\* Whatever happens to the documents one by one, the batch as a whole is
\* pending until none is open and has a version row once it is a success.
THEOREM ResultsMakeABatch ==
  ASSUME Docs # {} PROVE Spec => BatchSpec
<1>1. Init => Seen!Init
  BY InitTyped DEF Init, Seen!Init, Outcome
<1>2. Typed /\ Typed' /\ [Next]_vars => [Seen!Next]_<<Outcome, version>>
  <2> SUFFICES ASSUME Typed, Typed', [Next]_vars
               PROVE  Seen!Next \/ UNCHANGED <<Outcome, version>>
    OBVIOUS
  <2>1. CASE UNCHANGED vars
    BY <2>1 DEF vars, resultVars, Outcome
  <2>2. CASE Next
    BY <2>2, RecordImplements, FailImplements, ReopenImplements DEF Next
  <2> QED BY <2>1, <2>2
<1> QED BY <1>1, <1>2, InitTyped, NextTyped, PTL DEF Spec, BatchSpec, Seen!Spec
=============================================================================
