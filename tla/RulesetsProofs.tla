--------------------------- MODULE RulesetsProofs ---------------------------
(* Theorems about Rulesets, for every set of rulesets, slots and concurrent *)
(* requests: of Spec, and of TestSpec, in which the clean-up is called.     *)
EXTENDS Rulesets, TLAPS

USE DefaultAssumption, NamesAssumption, IdsAssumption
    DEF DefaultAssumption, NamesAssumption, IdsAssumption

\* The active ruleset has a history record, whose foreign key keeps it.
ActiveRecorded == \A r \in Ids : ruleset[r].status = "active" => r \in recorded

\* An activation in progress is about two rulesets of one slot.  Neither is
\* absent, so neither can be created with another slot any more.
ActivationsInSlot ==
    \A q \in Requests : request[q].op = "activate" =>
        LET new == request[q].id
            old == request[q].old
        IN /\ ruleset[new].slot = ruleset[old].slot
           /\ ruleset[new].status # "absent"
           /\ ruleset[old].status # "absent"

CleanupIdle == cleanup = NoCleanup

IInv == /\ TypeOK
        /\ CleanupIdle
        /\ OneActivePerSlot
        /\ HistoryAgrees
        /\ ActiveRecorded
        /\ ActivationsInSlot

-----------------------------------------------------------------------------
(* Initial states                                                           *)

LEMMA DefaultSlot == ASSUME NEW s \in Slots PROVE SlotOfDefault(DefaultOf[s]) = s
BY DEF SlotOfDefault

LEMMA InitIInv == Init => IInv
<1> SUFFICES ASSUME Init PROVE IInv
  OBVIOUS
<1>1. PICK s0 \in Slots : ruleset =
        [r \in Ids |-> [status |-> IF r \in Defaults THEN "active" ELSE "absent",
                        slot |-> IF r \in Defaults THEN SlotOfDefault(r) ELSE s0,
                        name |-> DefaultName, canBeDeleted |-> FALSE]]
  BY DEF Init
<1>2. /\ Defaults \subseteq Ids
      /\ \A r \in Defaults : SlotOfDefault(r) \in Slots
  BY DefaultSlot DEF Defaults
<1>3. TypeOK
  <2>1. ruleset \in [Ids -> Row]
    BY <1>1, <1>2 DEF Row
  <2>2. NoRequest \in Request /\ NoRequest.op = "none" /\ NoCleanup \in Cleanup
    BY DEF NoRequest, Request, NoCleanup, Cleanup
  <2> QED BY <1>2, <2>1, <2>2 DEF Init, TypeOK
<1>4. OneActivePerSlot
  <2> SUFFICES ASSUME NEW s \in Slots PROVE \E r \in Ids : Active(s) = {r}
    BY DEF OneActivePerSlot
  <2>1. \A r \in Ids : r \in Active(s) <=> r \in Defaults /\ SlotOfDefault(r) = s
    BY <1>1 DEF Active
  <2>2. DefaultOf[s] \in Ids
    OBVIOUS
  <2>3. \A r \in Ids : r \in Active(s) <=> r = DefaultOf[s]
    BY <2>1, <2>2, DefaultSlot DEF Defaults
  <2>4. Active(s) = {DefaultOf[s]}
    BY <2>2, <2>3 DEF Active
  <2> QED BY <2>2, <2>4
<1>5. HistoryAgrees /\ ActiveRecorded
  BY <1>1 DEF Init, HistoryAgrees, ActiveRecorded
<1>6. CleanupIdle /\ ActivationsInSlot
  BY DEF Init, CleanupIdle, ActivationsInSlot, NoRequest
<1> QED BY <1>3, <1>4, <1>5, <1>6 DEF IInv

-----------------------------------------------------------------------------
(* Steps                                                                    *)

\* The rows an activation and a removal leave behind.
LEMMA RowsTyped ==
  ASSUME TypeOK, NEW r \in Ids
  PROVE  /\ Activated(r) \in Row /\ Deactivated(r) \in Row
         /\ Removed(r, "deleted") \in Row /\ Removed(r, "cleaned") \in Row
         /\ Activated(r).status = "active" /\ Activated(r).slot = ruleset[r].slot
         /\ Activated(r).name = ruleset[r].name
         /\ Deactivated(r).status = "inactive" /\ Deactivated(r).slot = ruleset[r].slot
         /\ Deactivated(r).name = ruleset[r].name
         /\ \A why \in {"deleted", "cleaned"} :
               /\ Removed(r, why).status = why /\ Removed(r, why).slot = ruleset[r].slot
               /\ Removed(r, why).name = ruleset[r].name
<1>1. ruleset[r] \in Row
  BY DEF TypeOK
<1>2. /\ Activated(r) \in Row
      /\ Activated(r).status = "active" /\ Activated(r).slot = ruleset[r].slot
      /\ Activated(r).name = ruleset[r].name
  BY <1>1 DEF Activated, Row
<1>3. /\ Deactivated(r) \in Row
      /\ Deactivated(r).status = "inactive" /\ Deactivated(r).slot = ruleset[r].slot
      /\ Deactivated(r).name = ruleset[r].name
  BY <1>1 DEF Deactivated, Row
<1>4. \A why \in {"deleted", "cleaned"} :
         /\ Removed(r, why) \in Row
         /\ Removed(r, why).status = why /\ Removed(r, why).slot = ruleset[r].slot
         /\ Removed(r, why).name = ruleset[r].name
  BY <1>1 DEF Removed, Row
<1> QED BY <1>2, <1>3, <1>4

\* What every step but an activation and a removal does to the rulesets: a row
\* that is not absent stays, and a new row is inactive.
RowsStay ==
    /\ \A r \in Ids : ruleset[r].status # "absent" => ruleset'[r] = ruleset[r]
    /\ \A r \in Ids : ruleset[r].status = "absent" => ruleset'[r].status \in {"absent", "inactive"}
    /\ UNCHANGED historyVars

LEMMA RowsStayKeeps ==
  ASSUME IInv, RowsStay, TypeOK'
  PROVE  OneActivePerSlot' /\ HistoryAgrees' /\ ActiveRecorded'
<1>1. \A r \in Ids : ruleset'[r].status = "active" <=> ruleset[r].status = "active"
  BY DEF RowsStay, IInv, TypeOK, Row
<1>2. \A s \in Slots : Active(s)' = Active(s)
  BY <1>1 DEF Active, RowsStay
<1>3. OneActivePerSlot'
  BY <1>2 DEF IInv, OneActivePerSlot
<1>4. HistoryAgrees' /\ ActiveRecorded'
  BY <1>1 DEF IInv, HistoryAgrees, ActiveRecorded, RowsStay, historyVars
<1> QED BY <1>3, <1>4

\* An activation that goes through moves the one active mark of a slot.
LEMMA ActivateKeeps ==
  ASSUME IInv, NEW q \in Requests, Activate(q)
  PROVE  IInv'
<1> DEFINE r == request[q].id
           old == request[q].old
<1>1. /\ r \in Ids /\ old \in Ids
      /\ ruleset[r].slot = ruleset[old].slot
      /\ ruleset[r].status # "absent" /\ ruleset[old].status # "absent"
  BY DEF Activate, IInv, TypeOK, ActivationsInSlot
<1>2. /\ request' \in [Requests -> Request]
      /\ \A p \in Requests : request'[p] = IF p = q THEN NoRequest ELSE request[p]
      /\ NoRequest.op = "none"
  BY DEF Activate, IInv, TypeOK, NoRequest, Request
<1>3. CASE UNCHANGED <<ruleset, historyVars, cleanup>>
  <2>1. TypeOK'
    BY <1>2, <1>3 DEF Activate, IInv, TypeOK, historyVars, lintVars
  <2>2. \A s \in Slots : Active(s)' = Active(s)
    BY <1>3 DEF Active
  <2>3. OneActivePerSlot'
    BY <2>2 DEF IInv, OneActivePerSlot
  <2>4. HistoryAgrees' /\ ActiveRecorded' /\ CleanupIdle'
    BY <1>3 DEF IInv, HistoryAgrees, ActiveRecorded, CleanupIdle, historyVars
  <2>5. ActivationsInSlot'
    BY <1>2, <1>3 DEF IInv, ActivationsInSlot
  <2> QED BY <2>1, <2>3, <2>4, <2>5 DEF IInv
<1>4. CASE /\ StillCurrent(old) /\ Exists(r)
           /\ ruleset' = [x \in Ids |->
                IF x = r THEN Activated(x)
                ELSE IF x = old THEN Deactivated(x) ELSE ruleset[x]]
           /\ openRecords' = HistoryAfter(r, old)
           /\ recorded' = recorded \cup {r}
           /\ cleanup' = [cleanup EXCEPT !.noHistory = @ \ {r}]
           /\ UNCHANGED lintVars
  <2>1. ruleset' \in [Ids -> Row]
    BY <1>4, RowsTyped DEF IInv, TypeOK
  <2>2. \A x \in Ids : /\ ruleset'[x].slot = ruleset[x].slot
                       /\ ruleset'[x].status = IF x = r THEN "active"
                                               ELSE IF x = old THEN "inactive"
                                               ELSE ruleset[x].status
    BY <1>4, RowsTyped DEF IInv
  <2>3. \A x \in Ids : openRecords'[x] = (IF x = old THEN 0 ELSE openRecords[x])
                                         + (IF x = r THEN 1 ELSE 0)
    BY <1>4 DEF HistoryAfter
  <2>4. openRecords' \in [Ids -> Nat]
    BY <1>4 DEF HistoryAfter, IInv, TypeOK
  <2>5. CleanupIdle'
    BY <1>4 DEF IInv, CleanupIdle, NoCleanup
  <2>6. TypeOK'
    <3>1. NoCleanup \in Cleanup
      BY DEF NoCleanup, Cleanup
    <3>2. recorded' \in SUBSET Ids
      BY <1>1, <1>4 DEF IInv, TypeOK
    <3>3. \A p \in Requests : /\ request'[p].op # "none" => request'[p].id \in Ids
                              /\ request'[p].op = "activate" => request'[p].old \in Ids
      BY <1>2 DEF IInv, TypeOK
    <3> QED BY <1>2, <1>4, <2>1, <2>4, <2>5, <3>1, <3>2, <3>3
            DEF IInv, TypeOK, CleanupIdle, lintVars
  <2>7. OneActivePerSlot'
    <3> SUFFICES ASSUME NEW s \in Slots PROVE (\E x \in Ids : Active(s) = {x})'
      BY DEF OneActivePerSlot
    <3>1. PICK a \in Ids : Active(s) = {a}
      BY DEF IInv, OneActivePerSlot
    <3>2. CASE s = ruleset[old].slot
      <4>1. a = old
        BY <1>1, <1>4, <3>1, <3>2 DEF Active, StillCurrent
      <4>2. Active(s)' = {r}
        BY <1>1, <2>2, <3>1, <3>2, <4>1 DEF Active
      <4> QED BY <1>1, <4>2
    <3>3. CASE s # ruleset[old].slot
      <4>1. Active(s)' = Active(s)
        BY <1>1, <2>2, <3>3 DEF Active
      <4> QED BY <3>1, <4>1
    <3> QED BY <3>2, <3>3
  <2>8. HistoryAgrees'
    <3> SUFFICES ASSUME NEW x \in Ids
                 PROVE  openRecords'[x] = IF ruleset'[x].status = "active" THEN 1 ELSE 0
      BY DEF HistoryAgrees
    <3>1. openRecords[x] = IF ruleset[x].status = "active" THEN 1 ELSE 0
      BY DEF IInv, HistoryAgrees
    <3>2. CASE x = r
      <4>1. x # old => ruleset[x].status # "active"
        <5>1. ruleset[r].slot \in Slots
          BY <1>1 DEF IInv, TypeOK, Row
        <5>2. PICK a \in Ids : Active(ruleset[r].slot) = {a}
          BY <5>1 DEF IInv, OneActivePerSlot
        <5>3. old \in Active(ruleset[r].slot)
          BY <1>1, <1>4 DEF Active, StillCurrent
        <5>4. ruleset[x].status = "active" => x \in Active(ruleset[r].slot)
          BY <3>2 DEF Active
        <5> QED BY <5>2, <5>3, <5>4
      <4>2. (IF x = old THEN 0 ELSE openRecords[x]) = 0
        BY <3>1, <4>1
      <4>3. openRecords'[x] = 1
        BY <2>3, <3>2, <4>2
      <4> QED BY <2>2, <3>2, <4>3
    <3>3. CASE x # r
      BY <2>2, <2>3, <3>1, <3>3
    <3> QED BY <3>2, <3>3
  <2>9. ActiveRecorded'
    BY <1>4, <2>2 DEF IInv, ActiveRecorded
  <2>10. ActivationsInSlot'
    <3> SUFFICES ASSUME NEW p \in Requests, request'[p].op = "activate"
                 PROVE  /\ ruleset'[request'[p].id].slot = ruleset'[request'[p].old].slot
                        /\ ruleset'[request'[p].id].status # "absent"
                        /\ ruleset'[request'[p].old].status # "absent"
      BY DEF ActivationsInSlot
    <3>1. request'[p] = request[p] /\ request[p].op = "activate"
      BY <1>2
    <3>2. /\ request[p].id \in Ids /\ request[p].old \in Ids
          /\ ruleset[request[p].id].slot = ruleset[request[p].old].slot
          /\ ruleset[request[p].id].status # "absent"
          /\ ruleset[request[p].old].status # "absent"
      BY <3>1 DEF IInv, TypeOK, ActivationsInSlot
    <3> QED BY <2>2, <3>1, <3>2
  <2> QED BY <2>5, <2>6, <2>7, <2>8, <2>9, <2>10 DEF IInv
<1>5. \/ UNCHANGED <<ruleset, historyVars, cleanup>>
      \/ StillCurrent(old) /\ Exists(r)
  BY DEF Activate
<1> QED BY <1>3, <1>4, <1>5 DEF Activate

\* Requests that were in progress before keep their pair of rulesets.
LEMMA RowsStayActivations ==
  ASSUME IInv, RowsStay, NEW q \in Requests,
         \A p \in Requests : request'[p] = request[p] \/ request'[p].op # "activate"
  PROVE  ActivationsInSlot'
<1> SUFFICES ASSUME NEW p \in Requests, request'[p].op = "activate"
             PROVE  /\ ruleset'[request'[p].id].slot = ruleset'[request'[p].old].slot
                    /\ ruleset'[request'[p].id].status # "absent"
                    /\ ruleset'[request'[p].old].status # "absent"
  BY DEF ActivationsInSlot
<1>1. request'[p] = request[p] /\ request[p].op = "activate"
  OBVIOUS
<1>2. /\ request[p].id \in Ids /\ request[p].old \in Ids
      /\ ruleset[request[p].id].slot = ruleset[request[p].old].slot
      /\ ruleset[request[p].id].status # "absent"
      /\ ruleset[request[p].old].status # "absent"
  BY <1>1 DEF IInv, TypeOK, ActivationsInSlot
<1> QED BY <1>1, <1>2 DEF RowsStay

LEMMA CreateKeeps ==
  ASSUME IInv, NEW r \in Ids, NEW s \in Slots, NEW n \in Names, CreateRuleset(r, s, n)
  PROVE  IInv'
<1>1. [status |-> "inactive", slot |-> s, name |-> n, canBeDeleted |-> TRUE] \in Row
  BY DEF Row
<1>2. TypeOK'
  BY <1>1 DEF CreateRuleset, IInv, TypeOK, historyVars, lintVars
<1>3. RowsStay
  BY DEF CreateRuleset, RowsStay, IInv, TypeOK
<1>4. OneActivePerSlot' /\ HistoryAgrees' /\ ActiveRecorded'
  BY <1>2, <1>3, RowsStayKeeps
<1>5. CleanupIdle'
  BY DEF CreateRuleset, IInv, CleanupIdle
<1>6. ActivationsInSlot'
  <2> SUFFICES ASSUME NEW p \in Requests, request[p].op = "activate"
               PROVE  /\ ruleset'[request[p].id].slot = ruleset'[request[p].old].slot
                      /\ ruleset'[request[p].id].status # "absent"
                      /\ ruleset'[request[p].old].status # "absent"
    BY DEF CreateRuleset, ActivationsInSlot
  <2>1. /\ request[p].id \in Ids /\ request[p].old \in Ids
        /\ ruleset[request[p].id].slot = ruleset[request[p].old].slot
        /\ ruleset[request[p].id].status # "absent"
        /\ ruleset[request[p].old].status # "absent"
    BY DEF IInv, TypeOK, ActivationsInSlot
  <2> QED BY <1>3, <2>1 DEF RowsStay
<1> QED BY <1>2, <1>4, <1>5, <1>6 DEF IInv

\* The reads of a request and its failure change nothing but the request.
LEMMA RequestKeeps ==
  ASSUME IInv, NEW q \in Requests, NEW v \in Request,
         request' = [request EXCEPT ![q] = v],
         v.op # "none" => v.id \in Ids,
         v.op = "activate" => /\ v.old \in Ids
                              /\ ruleset[v.id].slot = ruleset[v.old].slot
                              /\ ruleset[v.id].status # "absent"
                              /\ ruleset[v.old].status # "absent",
         UNCHANGED <<ruleset, historyVars, lintVars, cleanup>>
  PROVE  IInv'
<1>1. /\ request' \in [Requests -> Request]
      /\ \A p \in Requests : request'[p] = IF p = q THEN v ELSE request[p]
  BY DEF IInv, TypeOK
<1>2. TypeOK'
  <2>1. \A p \in Requests : /\ request'[p].op # "none" => request'[p].id \in Ids
                            /\ request'[p].op = "activate" => request'[p].old \in Ids
    BY <1>1 DEF IInv, TypeOK
  <2> QED BY <1>1, <2>1 DEF IInv, TypeOK, historyVars, lintVars
<1>3. RowsStay
  BY DEF RowsStay
<1>4. OneActivePerSlot' /\ HistoryAgrees' /\ ActiveRecorded'
  BY <1>2, <1>3, RowsStayKeeps
<1>5. CleanupIdle'
  BY DEF IInv, CleanupIdle
<1>6. ActivationsInSlot'
  BY <1>1 DEF IInv, ActivationsInSlot
<1> QED BY <1>2, <1>4, <1>5, <1>6 DEF IInv

LEMMA ReadKeeps ==
  ASSUME IInv, NEW q \in Requests, NEW r \in Ids,
         ActivateRead(q, r) \/ DeleteRead(q, r) \/ RequestFails(q)
  PROVE  IInv'
<1>1. CASE ActivateRead(q, r)
  <2>1. PICK old \in Active(ruleset[r].slot) :
          request' = [request EXCEPT ![q] = [op |-> "activate", id |-> r, old |-> old]]
    BY <1>1 DEF ActivateRead
  <2>2. /\ old \in Ids
        /\ ruleset[old].status # "absent" /\ ruleset[r].status # "absent"
        /\ ruleset[old].slot = ruleset[r].slot
    BY <1>1 DEF ActivateRead, Active, Exists
  <2> DEFINE v == [op |-> "activate", id |-> r, old |-> old]
  <2>3. v \in Request /\ v.id = r /\ v.old = old
    BY <2>2 DEF Request
  <2>4. request' = [request EXCEPT ![q] = v] /\ UNCHANGED <<ruleset, historyVars, lintVars, cleanup>>
    BY <1>1, <2>1 DEF ActivateRead
  <2> HIDE DEF v
  <2> QED BY <2>2, <2>3, <2>4, RequestKeeps
<1>2. CASE DeleteRead(q, r)
  <2> DEFINE v == [op |-> "delete", id |-> r, old |-> NoId]
  <2>1. v \in Request /\ v.id = r /\ v.op = "delete"
    BY DEF Request
  <2>2. request' = [request EXCEPT ![q] = v] /\ UNCHANGED <<ruleset, historyVars, lintVars, cleanup>>
    BY <1>2 DEF DeleteRead
  <2> HIDE DEF v
  <2> QED BY <2>1, <2>2, RequestKeeps
<1>3. CASE RequestFails(q)
  <2>1. NoRequest \in Request /\ NoRequest.op = "none"
    BY DEF NoRequest, Request
  <2> QED BY <1>3, <2>1, RequestKeeps DEF RequestFails
<1> QED BY <1>1, <1>2, <1>3

\* A ruleset nothing refers to has never been active: removing it cannot take
\* the active one away.
LEMMA DeleteKeeps ==
  ASSUME IInv, NEW q \in Requests, Delete(q)
  PROVE  IInv'
<1> DEFINE r == request[q].id
<1>1. r \in Ids /\ request[q].op = "delete"
  BY DEF Delete, IInv, TypeOK
<1>2. /\ request' \in [Requests -> Request]
      /\ \A p \in Requests : request'[p] = IF p = q THEN NoRequest ELSE request[p]
      /\ NoRequest \in Request /\ NoRequest.op = "none"
  BY DEF Delete, IInv, TypeOK, NoRequest, Request
<1>3. CASE UNCHANGED ruleset
  BY <1>2, <1>3, RequestKeeps DEF Delete
<1>4. CASE Exists(r) /\ ~Referenced(r) /\ ruleset' = [ruleset EXCEPT ![r] = Removed(r, "deleted")]
  <2>1. /\ ruleset' \in [Ids -> Row]
        /\ \A x \in Ids : /\ ruleset'[x].slot = ruleset[x].slot
                          /\ ruleset'[x].status = IF x = r THEN "deleted" ELSE ruleset[x].status
    BY <1>1, <1>4, RowsTyped DEF IInv, TypeOK
  <2>2. ruleset[r].status # "active"
    BY <1>1, <1>4 DEF IInv, ActiveRecorded, Referenced
  <2>3. \A x \in Ids : ruleset'[x].status = "active" <=> ruleset[x].status = "active"
    BY <2>1, <2>2
  <2>4. TypeOK'
    <3>1. \A p \in Requests : /\ request'[p].op # "none" => request'[p].id \in Ids
                              /\ request'[p].op = "activate" => request'[p].old \in Ids
      BY <1>2 DEF IInv, TypeOK
    <3> QED BY <1>2, <2>1, <3>1 DEF Delete, IInv, TypeOK, historyVars, lintVars
  <2>5. \A s \in Slots : Active(s)' = Active(s)
    BY <2>1, <2>3 DEF Active
  <2>6. OneActivePerSlot'
    BY <2>5 DEF IInv, OneActivePerSlot
  <2>7. HistoryAgrees' /\ ActiveRecorded' /\ CleanupIdle'
    BY <2>3 DEF Delete, IInv, HistoryAgrees, ActiveRecorded, CleanupIdle, historyVars
  <2>8. ActivationsInSlot'
    <3> SUFFICES ASSUME NEW p \in Requests, request'[p].op = "activate"
                 PROVE  /\ ruleset'[request'[p].id].slot = ruleset'[request'[p].old].slot
                        /\ ruleset'[request'[p].id].status # "absent"
                        /\ ruleset'[request'[p].old].status # "absent"
      BY DEF ActivationsInSlot
    <3>1. request'[p] = request[p] /\ request[p].op = "activate"
      BY <1>2
    <3>2. /\ request[p].id \in Ids /\ request[p].old \in Ids
          /\ ruleset[request[p].id].slot = ruleset[request[p].old].slot
          /\ ruleset[request[p].id].status # "absent"
          /\ ruleset[request[p].old].status # "absent"
      BY <3>1 DEF IInv, TypeOK, ActivationsInSlot
    <3> QED BY <2>1, <3>1, <3>2
  <2> QED BY <2>4, <2>6, <2>7, <2>8 DEF IInv
<1> QED BY <1>3, <1>4 DEF Delete

LEMMA LintKeeps ==
  ASSUME IInv, UsePicked \/ \E s \in Slots : SelectLinterAndRuleset(s)
  PROVE  IInv'
<1>1. /\ UNCHANGED <<ruleset, historyVars, request>>
      /\ CleanupIdle'
      /\ used' \in SUBSET Ids /\ pick' \in Ids \cup {NoId}
  <2>1. CASE UsePicked
    BY <2>1 DEF UsePicked, IInv, TypeOK, CleanupIdle, NoCleanup
  <2>2. CASE \E s \in Slots : SelectLinterAndRuleset(s)
    BY <2>2 DEF SelectLinterAndRuleset, Active, IInv, TypeOK, CleanupIdle
  <2> QED BY <2>1, <2>2
<1>2. NoCleanup \in Cleanup
  BY DEF NoCleanup, Cleanup
<1>3. TypeOK'
  BY <1>1, <1>2 DEF IInv, TypeOK, CleanupIdle, historyVars
<1>4. RowsStay
  BY <1>1 DEF RowsStay
<1>5. OneActivePerSlot' /\ HistoryAgrees' /\ ActiveRecorded'
  BY <1>3, <1>4, RowsStayKeeps
<1>6. ActivationsInSlot'
  BY <1>1 DEF IInv, ActivationsInSlot
<1> QED BY <1>1, <1>3, <1>5, <1>6 DEF IInv

LEMMA NextIInv == IInv /\ [Next]_vars => IInv'
<1> SUFFICES ASSUME IInv, [Next]_vars PROVE IInv'
  OBVIOUS
<1>1. ASSUME NEW r \in Ids, NEW s \in Slots, NEW n \in Names, CreateRuleset(r, s, n)
      PROVE  IInv'
  BY <1>1, CreateKeeps
<1>2. ASSUME NEW q \in Requests, Handle(q)
      PROVE  IInv'
  <2>1. ASSUME NEW r \in Ids, ActivateRead(q, r) \/ DeleteRead(q, r) PROVE IInv'
    BY <2>1, ReadKeeps
  <2>2. CASE RequestFails(q)
    <3>1. request[q].id \in Ids
      BY <2>2 DEF RequestFails, IInv, TypeOK
    <3> QED BY <2>2, <3>1, ReadKeeps
  <2> QED BY <1>2, <2>1, <2>2, ActivateKeeps, DeleteKeeps DEF Handle
<1>3. CASE UsePicked \/ \E s \in Slots : SelectLinterAndRuleset(s)
  BY <1>3, LintKeeps
<1>4. CASE UNCHANGED vars
  <2>1. RowsStay
    BY <1>4 DEF RowsStay, vars
  <2>2. TypeOK' /\ CleanupIdle'
    BY <1>4 DEF vars, historyVars, lintVars, IInv, TypeOK, CleanupIdle
  <2>3. ActivationsInSlot'
    BY <1>4 DEF vars, IInv, ActivationsInSlot
  <2> QED BY <2>1, <2>2, <2>3, RowsStayKeeps DEF IInv
<1> QED BY <1>1, <1>2, <1>3, <1>4 DEF Next

-----------------------------------------------------------------------------
(* Type correctness, also while the clean-up runs                           *)

LEMMA CleanupTyped ==
  ASSUME TypeOK, ClearTestData
  PROVE  TypeOK'
<1>1. NoCleanup \in Cleanup
  BY DEF NoCleanup, Cleanup
<1>2. CASE CleanupSelect
  <2>1. [NoCleanup EXCEPT !.pc = "selected", !.ids = TestRulesets] \in Cleanup
    BY <1>1 DEF TestRulesets, Cleanup
  <2> QED BY <1>2, <2>1 DEF CleanupSelect, TypeOK, historyVars, lintVars
<1>3. CASE CleanupLintData
  <2>1. [cleanup EXCEPT !.pc = "lintDeleted", !.noLint = cleanup.ids] \in Cleanup
    BY DEF TypeOK, Cleanup
  <2> QED BY <1>3, <2>1 DEF CleanupLintData, TypeOK, historyVars, lintVars
<1>4. CASE CleanupHistory
  <2>1. [cleanup EXCEPT !.pc = "historyDeleted", !.noHistory = cleanup.ids] \in Cleanup
    BY DEF TypeOK, Cleanup
  <2> QED BY <1>4, <2>1 DEF CleanupHistory, TypeOK, historyVars, lintVars
<1>5. CASE CleanupRulesets
  <2>1. /\ ruleset' \in [Ids -> Row]
        /\ openRecords' \in [Ids -> Nat]
        /\ recorded' \in SUBSET Ids /\ used' \in SUBSET Ids
    BY <1>5, RowsTyped DEF CleanupRulesets, TypeOK, historyVars
  <2> QED BY <1>1, <1>5, <2>1 DEF CleanupRulesets, TypeOK
<1> QED BY <1>2, <1>3, <1>4, <1>5 DEF ClearTestData

\* A request that reads, ends or fails.
LEMMA RequestTyped ==
  ASSUME TypeOK, NEW q \in Requests, NEW v \in Request,
         v.op # "none" => v.id \in Ids, v.op = "activate" => v.old \in Ids,
         request' = [request EXCEPT ![q] = v]
  PROVE  /\ request' \in [Requests -> Request]
         /\ \A p \in Requests : /\ request'[p].op # "none" => request'[p].id \in Ids
                                /\ request'[p].op = "activate" => request'[p].old \in Ids
BY DEF TypeOK

LEMMA HandleTyped ==
  ASSUME TypeOK, NEW q \in Requests, Handle(q)
  PROVE  TypeOK'
<1>1. NoRequest \in Request /\ NoRequest.op = "none"
  BY DEF NoRequest, Request
<1>2. ASSUME NEW r \in Ids, ActivateRead(q, r) PROVE TypeOK'
  <2>1. PICK old \in Active(ruleset[r].slot) :
          request' = [request EXCEPT ![q] = [op |-> "activate", id |-> r, old |-> old]]
    BY <1>2 DEF ActivateRead
  <2> DEFINE v == [op |-> "activate", id |-> r, old |-> old]
  <2>2. v \in Request /\ v.id \in Ids /\ v.old \in Ids
    BY DEF Request, Active
  <2>3. request' = [request EXCEPT ![q] = v]
    BY <2>1
  <2> HIDE DEF v
  <2> QED BY <1>2, <2>2, <2>3, RequestTyped DEF ActivateRead, TypeOK, historyVars, lintVars
<1>3. ASSUME NEW r \in Ids, DeleteRead(q, r) PROVE TypeOK'
  <2> DEFINE v == [op |-> "delete", id |-> r, old |-> NoId]
  <2>1. v \in Request /\ v.id \in Ids /\ v.op = "delete"
    BY DEF Request
  <2>2. request' = [request EXCEPT ![q] = v]
    BY <1>3 DEF DeleteRead
  <2> HIDE DEF v
  <2> QED BY <1>3, <2>1, <2>2, RequestTyped DEF DeleteRead, TypeOK, historyVars, lintVars
<1>4. CASE Activate(q)
  <2>1. request[q].id \in Ids /\ request[q].old \in Ids
    BY <1>4 DEF Activate, TypeOK
  <2>2. /\ ruleset' \in [Ids -> Row]
        /\ openRecords' \in [Ids -> Nat]
        /\ recorded' \in SUBSET Ids
    <3>1. \A x \in Ids : Activated(x) \in Row /\ Deactivated(x) \in Row /\ ruleset[x] \in Row
      BY RowsTyped DEF TypeOK
    <3>2. HistoryAfter(request[q].id, request[q].old) \in [Ids -> Nat]
      BY DEF HistoryAfter, TypeOK
    <3>3. ruleset' \in [Ids -> Row]
      BY <1>4, <3>1 DEF Activate, TypeOK
    <3> QED BY <1>4, <2>1, <3>2, <3>3 DEF Activate, TypeOK, historyVars
  <2>3. cleanup' \in Cleanup
    BY <1>4 DEF Activate, TypeOK, Cleanup
  <2> QED BY <1>1, <1>4, <2>2, <2>3, RequestTyped DEF Activate, TypeOK, lintVars
<1>5. CASE Delete(q)
  <2>1. ruleset' \in [Ids -> Row]
    BY <1>5, RowsTyped DEF Delete, TypeOK
  <2> QED BY <1>1, <1>5, <2>1, RequestTyped DEF Delete, TypeOK, historyVars, lintVars
<1>6. CASE RequestFails(q)
  BY <1>1, <1>6, RequestTyped DEF RequestFails, TypeOK, historyVars, lintVars
<1> QED BY <1>2, <1>3, <1>4, <1>5, <1>6 DEF Handle

LEMMA NextTypeOK == TypeOK /\ [TestNext]_vars => TypeOK'
<1> SUFFICES ASSUME TypeOK, [TestNext]_vars PROVE TypeOK'
  OBVIOUS
<1>1. ASSUME NEW r \in Ids, NEW s \in Slots, NEW n \in Names, CreateRuleset(r, s, n)
      PROVE  TypeOK'
  <2>1. [status |-> "inactive", slot |-> s, name |-> n, canBeDeleted |-> TRUE] \in Row
    BY DEF Row
  <2> QED BY <1>1, <2>1 DEF CreateRuleset, TypeOK, historyVars, lintVars
<1>2. ASSUME NEW s \in Slots, SelectLinterAndRuleset(s) PROVE TypeOK'
  BY <1>2 DEF SelectLinterAndRuleset, Active, TypeOK, historyVars
<1>3. CASE UsePicked
  <2>1. cleanup' \in Cleanup
    BY <1>3 DEF UsePicked, TypeOK, Cleanup
  <2> QED BY <1>3, <2>1 DEF UsePicked, TypeOK, historyVars
<1>4. CASE UNCHANGED vars
  BY <1>4 DEF vars, historyVars, lintVars, TypeOK
<1> QED BY <1>1, <1>2, <1>3, <1>4, HandleTyped, CleanupTyped DEF TestNext, Next

-----------------------------------------------------------------------------
(* Theorems                                                                 *)

\* Every reachable state is well typed, also while the clean-up of test data runs;
\* a request in progress always names rulesets.
THEOREM TypeCorrect == (Spec => []TypeOK) /\ (TestSpec => []TypeOK)
<1>1. Init => TypeOK
  BY InitIInv DEF IInv
<1>2. [Next]_vars => [TestNext]_vars
  BY DEF TestNext
<1> QED BY <1>1, <1>2, NextTypeOK, PTL DEF Spec, TestSpec

\* "There is always one active ruleset in the system for each supported API
\* type and linter", however creations, activations, deletions and selections
\* overlap; the clean-up of test data is no part of Spec.
THEOREM OneActive == Spec => []OneActivePerSlot
<1>1. IInv => OneActivePerSlot
  BY DEF IInv
<1> QED BY <1>1, InitIInv, NextIInv, PTL DEF Spec

\* An open history record is the mark of an active ruleset, and its only one.
THEOREM HistoryInStep == Spec => []HistoryAgrees
<1>1. IInv => HistoryAgrees
  BY DEF IInv
<1> QED BY <1>1, InitIInv, NextIInv, PTL DEF Spec

\* A deletion never removes a ruleset that is active or that lint data refers to:
\* the history row of an activation keeps the one, its own reference the other.
THEOREM KnownStay == Spec => KnownRulesetsStay
<1> DEFINE StayStep == \A r \in Ids : Exists(r) /\ (r \in used \/ ruleset[r].status = "active")
                                      => Exists(r)'
<1>1. IInv /\ [Next]_vars => [StayStep]_vars
  <2> SUFFICES ASSUME IInv, Next, NEW x \in Ids, Exists(x),
                      x \in used \/ ruleset[x].status = "active"
               PROVE  Exists(x)'
    OBVIOUS
  <2>1. ASSUME NEW r \in Ids, NEW s \in Slots, NEW n \in Names, CreateRuleset(r, s, n)
        PROVE  Exists(x)'
    BY <2>1 DEF CreateRuleset, Exists, IInv, TypeOK
  <2>2. ASSUME NEW q \in Requests, Activate(q)
        PROVE  Exists(x)'
    <3>1. CASE UNCHANGED ruleset
      BY <3>1 DEF Exists
    <3>2. CASE ruleset' = [y \in Ids |-> IF y = request[q].id THEN Activated(y)
                             ELSE IF y = request[q].old THEN Deactivated(y) ELSE ruleset[y]]
      BY <3>2, RowsTyped DEF Exists, IInv
    <3> QED BY <2>2, <3>1, <3>2 DEF Activate
  <2>3. ASSUME NEW q \in Requests, Delete(q)
        PROVE  Exists(x)'
    BY <2>3 DEF Delete, Referenced, ActiveRecorded, Exists, IInv, TypeOK
  <2>4. CASE UNCHANGED ruleset
    BY <2>4 DEF Exists
  <2>5. \/ \E r \in Ids, s \in Slots, n \in Names : CreateRuleset(r, s, n)
        \/ \E q \in Requests : Activate(q) \/ Delete(q)
        \/ UNCHANGED ruleset
    BY DEF Next, Handle, ActivateRead, DeleteRead, RequestFails,
           SelectLinterAndRuleset, UsePicked
  <2> QED BY <2>1, <2>2, <2>3, <2>4, <2>5
<1> QED BY <1>1, InitIInv, NextIInv, PTL DEF Spec, KnownRulesetsStay

-----------------------------------------------------------------------------
(* The clean-up of test data, called in the middle of everything else        *)

\* Removed by the clean-up: its names are those of test data.
Gone(r) == ruleset[r].status = "cleaned" /\ ruleset[r].name \in TestNames

\* Foreign keys: lint data refers to rulesets that are there.
UsedExist == \A r \in used : Exists(r)

\* The clean-up is about test rulesets only, whatever has become of them.
CleanupOfTests ==
  \A r \in cleanup.ids : ruleset[r].status # "absent" /\ ruleset[r].name \in TestNames

\* What a step of the requests, the lint side and the clean-up leaves of the
\* rulesets: name and slot are given once, what is gone stays gone, and what
\* the lint data refers to leaves only by the clean-up.
KeepStep ==
  /\ \A r \in Ids : ruleset[r].status # "absent" =>
        /\ ruleset'[r].status # "absent"
        /\ ruleset'[r].name = ruleset[r].name
        /\ ruleset'[r].slot = ruleset[r].slot
  /\ \A r \in Ids : ruleset[r].status \in {"deleted", "cleaned"} =>
        ruleset'[r].status = ruleset[r].status
  /\ \A r \in used' : r \in used \/ Exists(r)'
  /\ \A r \in used : (r \in used' /\ Exists(r)') \/ Gone(r)'
  /\ \A r \in used' : r \in used => Exists(r)'
  /\ \A r \in cleanup'.ids : \/ r \in cleanup.ids
                             \/ r \in Ids /\ ruleset'[r].status # "absent"
                                /\ ruleset'[r].name \in TestNames

LEMMA NextKeepStep ==
  ASSUME TypeOK, UsedExist, CleanupOfTests, [TestNext]_vars
  PROVE  KeepStep
<1> USE DEF KeepStep, Exists, UsedExist
<1>0. used \subseteq Ids /\ cleanup.ids \subseteq Ids /\ \A r \in Ids : ruleset[r] \in Row
  BY DEF TypeOK, Cleanup
<1>1. CASE UNCHANGED <<ruleset, used>> /\ cleanup'.ids = cleanup.ids
  BY <1>0, <1>1
<1>2. ASSUME NEW r \in Ids, NEW s \in Slots, NEW n \in Names, CreateRuleset(r, s, n)
      PROVE  KeepStep
  <2>1. /\ \A x \in Ids : x # r => ruleset'[x] = ruleset[x]
        /\ ruleset[r].status = "absent"
        /\ UNCHANGED <<used, cleanup>>
    BY <1>2 DEF CreateRuleset, lintVars, TypeOK
  <2>2. r \notin used
    BY <2>1
  <2> QED BY <1>0, <2>1, <2>2
<1>3. ASSUME NEW q \in Requests, Activate(q) PROVE KeepStep
  <2> DEFINE r == request[q].id
             old == request[q].old
  <2>1. cleanup'.ids = cleanup.ids /\ UNCHANGED used
    BY <1>3 DEF Activate, lintVars, TypeOK, Cleanup
  <2>2. CASE UNCHANGED ruleset
    BY <1>1, <2>1, <2>2
  <2>3. CASE StillCurrent(old) /\ Exists(r) /\
             ruleset' = [x \in Ids |-> IF x = r THEN Activated(x)
                                       ELSE IF x = old THEN Deactivated(x) ELSE ruleset[x]]
    <3>1. \A x \in Ids : /\ ruleset'[x].name = ruleset[x].name
                         /\ ruleset'[x].slot = ruleset[x].slot
                         /\ ruleset'[x].status = IF x = r THEN "active"
                                                 ELSE IF x = old THEN "inactive"
                                                 ELSE ruleset[x].status
      BY <1>0, <2>3, RowsTyped
    <3>2. \A x \in Ids : Exists(x) => Exists(x)'
      BY <3>1
    <3>3. \A x \in Ids : ruleset[x].status \in {"deleted", "cleaned"} =>
             ruleset'[x].status = ruleset[x].status
      BY <2>3, <3>1 DEF StillCurrent
    <3>4. \A x \in Ids : ruleset[x].status # "absent" => ruleset'[x].status # "absent"
      BY <3>1
    <3> QED BY <1>0, <2>1, <3>1, <3>2, <3>3, <3>4
  <2> QED BY <1>3, <2>2, <2>3 DEF Activate
<1>4. ASSUME NEW q \in Requests, Delete(q) PROVE KeepStep
  <2> DEFINE r == request[q].id
  <2>1. r \in Ids /\ UNCHANGED <<used, cleanup>>
    BY <1>4 DEF Delete, lintVars, TypeOK
  <2>2. CASE UNCHANGED ruleset
    BY <1>1, <2>1, <2>2
  <2>3. CASE Exists(r) /\ ~Referenced(r) /\ ruleset' = [ruleset EXCEPT ![r] = Removed(r, "deleted")]
    <3>1. \A x \in Ids : /\ ruleset'[x].name = ruleset[x].name
                         /\ ruleset'[x].slot = ruleset[x].slot
                         /\ ruleset'[x].status = IF x = r THEN "deleted" ELSE ruleset[x].status
      BY <1>0, <2>1, <2>3 DEF Removed, TypeOK, Row
    <3>2. r \notin used
      BY <2>3 DEF Referenced
    <3>3. \A x \in used : Exists(x)'
      BY <1>0, <3>1, <3>2
    <3> QED BY <1>0, <2>1, <2>3, <3>1, <3>3
  <2> QED BY <1>4, <2>2, <2>3 DEF Delete
<1>5. CASE UsePicked
  <2>1. /\ UNCHANGED ruleset /\ cleanup'.ids = cleanup.ids
        /\ used' = used \/ (Exists(pick) /\ used' = used \cup {pick})
    BY <1>5 DEF UsePicked, TypeOK, Cleanup
  <2> QED BY <1>0, <2>1
<1>6. CASE CleanupSelect
  <2>1. cleanup'.ids = TestRulesets /\ UNCHANGED <<ruleset, used>>
    BY <1>6 DEF CleanupSelect, NoCleanup, lintVars
  <2> QED BY <1>0, <2>1 DEF TestRulesets
<1>7. CASE CleanupRulesets
  <2>1. cleanup'.ids = {}
    BY <1>7 DEF CleanupRulesets, NoCleanup
  <2>2. CASE UNCHANGED <<ruleset, used>>
    BY <1>0, <2>1, <2>2
  <2>3. CASE /\ ruleset' = [r \in Ids |->
                 IF r \in cleanup.ids /\ Exists(r) THEN Removed(r, "cleaned") ELSE ruleset[r]]
             /\ used' = used \ cleanup.ids
    <3>1. \A x \in Ids : /\ ruleset'[x].name = ruleset[x].name
                         /\ ruleset'[x].slot = ruleset[x].slot
                         /\ ruleset'[x].status = IF x \in cleanup.ids /\ Exists(x) THEN "cleaned"
                                                 ELSE ruleset[x].status
      BY <1>0, <2>3 DEF Removed, Row
    <3>2. \A x \in used : x \in cleanup.ids => Gone(x)'
      BY <1>0, <3>1 DEF Gone, CleanupOfTests
    <3>3. \A x \in used' : Exists(x)'
      BY <1>0, <2>3, <3>1
    <3> QED BY <1>0, <2>1, <2>3, <3>1, <3>2, <3>3
  <2> QED BY <1>7, <2>2, <2>3 DEF CleanupRulesets
<1>8. CASE CleanupLintData \/ CleanupHistory
  BY <1>1, <1>8 DEF CleanupLintData, CleanupHistory, lintVars, TypeOK, Cleanup
<1>9. CASE UNCHANGED vars
  BY <1>1, <1>9 DEF vars, lintVars
<1>10. ASSUME NEW q \in Requests, NEW r \in Ids, ActivateRead(q, r) \/ DeleteRead(q, r) \/ RequestFails(q)
       PROVE  KeepStep
  BY <1>1, <1>10 DEF ActivateRead, DeleteRead, RequestFails, lintVars
<1>11. ASSUME NEW s \in Slots, SelectLinterAndRuleset(s) PROVE KeepStep
  BY <1>1, <1>11 DEF SelectLinterAndRuleset
<1>12. ASSUME NEW q \in Requests, RequestFails(q) PROVE KeepStep
  BY <1>1, <1>12 DEF RequestFails, lintVars
<1> QED BY <1>2, <1>3, <1>4, <1>5, <1>6, <1>7, <1>8, <1>9, <1>10, <1>11, <1>12
        DEF TestNext, Next, Handle, ClearTestData

\* What holds of TestSpec in place of IInv: the slots are kept or have lost a
\* test ruleset, the rest of IInv but the idle clean-up stays.
TestInv == /\ TypeOK
           /\ UsedExist
           /\ CleanupOfTests
           /\ SlotKeptOrCleaned
           /\ HistoryAgrees
           /\ ActiveRecorded
           /\ ActivationsInSlot

\* No mark of an active ruleset moves.
MarksStay ==
    /\ \A r \in Ids : ruleset'[r].status = "active" <=> ruleset[r].status = "active"
    /\ UNCHANGED historyVars

\* A test ruleset that is gone stays gone, and in its slot.
LostStaysLost(s) ==
    (\E r \in Ids : Gone(r) /\ ruleset[r].slot = s) => (\E r \in Ids : Gone(r) /\ ruleset[r].slot = s)'

LEMMA KeepStepLost ==
  ASSUME KeepStep, NEW s \in Slots
  PROVE  LostStaysLost(s)
BY DEF KeepStep, Gone, LostStaysLost

LEMMA MarksStayKeeps ==
  ASSUME TestInv, KeepStep, MarksStay
  PROVE  SlotKeptOrCleaned' /\ HistoryAgrees' /\ ActiveRecorded'
<1>1. \A s \in Slots : Active(s)' = Active(s)
  BY DEF MarksStay, KeepStep, Active
<1>2. SlotKeptOrCleaned'
  <2> SUFFICES ASSUME NEW s \in Slots
               PROVE  \/ (\E r \in Ids : Active(s) = {r})'
                      \/ (Active(s) = {} /\ \E r \in Ids : Gone(r) /\ ruleset[r].slot = s)'
    BY DEF SlotKeptOrCleaned, Gone
  <2> QED BY <1>1, KeepStepLost DEF TestInv, SlotKeptOrCleaned, LostStaysLost, Gone
<1>3. HistoryAgrees' /\ ActiveRecorded'
  BY DEF MarksStay, historyVars, TestInv, HistoryAgrees, ActiveRecorded
<1> QED BY <1>2, <1>3

\* An activation that goes through, and a clean-up that commits: the only steps
\* that move a mark.
ActivateCommits(q) ==
    LET r == request[q].id
        old == request[q].old
    IN /\ request[q].op = "activate"
       /\ StillCurrent(old) /\ Exists(r)
       /\ ruleset' = [x \in Ids |-> IF x = r THEN Activated(x)
                                    ELSE IF x = old THEN Deactivated(x) ELSE ruleset[x]]
       /\ openRecords' = HistoryAfter(r, old)
       /\ recorded' = recorded \cup {r}

CleanupCommits ==
    /\ ruleset' = [r \in Ids |->
                 IF r \in cleanup.ids /\ Exists(r) THEN Removed(r, "cleaned") ELSE ruleset[r]]
    /\ openRecords' = [r \in Ids |-> IF r \in cleanup.ids THEN 0 ELSE openRecords[r]]
    /\ recorded' = recorded \ cleanup.ids

LEMMA StepMovesMarks ==
  ASSUME TestInv, [TestNext]_vars
  PROVE  \/ MarksStay
         \/ \E q \in Requests : ActivateCommits(q)
         \/ CleanupCommits
<1> USE DEF MarksStay
<1>1. CASE UNCHANGED <<ruleset, historyVars>>
  BY <1>1
<1>2. ASSUME NEW r \in Ids, NEW s \in Slots, NEW n \in Names, CreateRuleset(r, s, n)
      PROVE  MarksStay
  BY <1>2 DEF CreateRuleset, TestInv, TypeOK
<1>3. ASSUME NEW q \in Requests, Activate(q)
      PROVE  UNCHANGED <<ruleset, historyVars>> \/ ActivateCommits(q)
  BY <1>3 DEF Activate, ActivateCommits
<1>4. ASSUME NEW q \in Requests, Delete(q)
      PROVE  MarksStay
  <2> DEFINE r == request[q].id
  <2>1. r \in Ids
    BY <1>4 DEF Delete, TestInv, TypeOK
  <2>2. CASE Exists(r) /\ ~Referenced(r) /\ ruleset' = [ruleset EXCEPT ![r] = Removed(r, "deleted")]
    <3>1. ruleset[r].status # "active"
      BY <2>1, <2>2 DEF TestInv, ActiveRecorded, Referenced
    <3>2. \A x \in Ids : ruleset'[x].status = IF x = r THEN "deleted" ELSE ruleset[x].status
      BY <2>1, <2>2, RowsTyped DEF TestInv, TypeOK
    <3> QED BY <1>4, <3>1, <3>2 DEF Delete
  <2> QED BY <1>4, <2>2 DEF Delete
<1>5. CASE CleanupRulesets
  BY <1>5 DEF CleanupRulesets, CleanupCommits
<1>6. \/ \E r \in Ids, s \in Slots, n \in Names : CreateRuleset(r, s, n)
      \/ \E q \in Requests : Activate(q) \/ Delete(q)
      \/ CleanupRulesets
      \/ UNCHANGED <<ruleset, historyVars>>
  BY DEF TestNext, Next, Handle, ClearTestData, ActivateRead, DeleteRead, RequestFails,
         SelectLinterAndRuleset, UsePicked, CleanupSelect, CleanupLintData, CleanupHistory, vars
<1> QED BY <1>1, <1>2, <1>3, <1>4, <1>5, <1>6

\* The ruleset that gives way was the only active one of its slot, so that the
\* slot was not empty and the one it gives way to was not active, or the same.
LEMMA ActivateCommitKeeps ==
  ASSUME TestInv, KeepStep, NEW q \in Requests, ActivateCommits(q)
  PROVE  SlotKeptOrCleaned' /\ HistoryAgrees' /\ ActiveRecorded'
<1> DEFINE r == request[q].id
           old == request[q].old
<1>1. /\ r \in Ids /\ old \in Ids
      /\ ruleset[r].slot = ruleset[old].slot
      /\ ruleset[old].slot \in Slots
      /\ ruleset[old].status = "active"
  BY DEF ActivateCommits, StillCurrent, TestInv, TypeOK, ActivationsInSlot, Row
<1>2. \A x \in Ids : /\ ruleset'[x].slot = ruleset[x].slot
                     /\ ruleset'[x].status = IF x = r THEN "active"
                                             ELSE IF x = old THEN "inactive"
                                             ELSE ruleset[x].status
  BY RowsTyped DEF ActivateCommits, TestInv
<1>3. Active(ruleset[old].slot) = {old}
  BY <1>1 DEF TestInv, SlotKeptOrCleaned, Active
<1>4. SlotKeptOrCleaned'
  <2> SUFFICES ASSUME NEW s \in Slots
               PROVE  \/ (\E x \in Ids : Active(s) = {x})'
                      \/ (Active(s) = {} /\ \E x \in Ids : Gone(x) /\ ruleset[x].slot = s)'
    BY DEF SlotKeptOrCleaned, Gone
  <2>1. CASE s = ruleset[old].slot
    <3>1. Active(s)' = {r}
      BY <1>1, <1>2, <1>3, <2>1 DEF Active
    <3> QED BY <1>1, <3>1
  <2>2. CASE s # ruleset[old].slot
    <3>1. Active(s)' = Active(s)
      BY <1>1, <1>2, <2>2 DEF Active
    <3> QED BY <3>1, KeepStepLost DEF TestInv, SlotKeptOrCleaned, LostStaysLost, Gone
  <2> QED BY <2>1, <2>2
<1>5. HistoryAgrees'
  <2> SUFFICES ASSUME NEW x \in Ids
               PROVE  openRecords'[x] = IF ruleset'[x].status = "active" THEN 1 ELSE 0
    BY DEF HistoryAgrees
  <2>1. openRecords[x] = IF ruleset[x].status = "active" THEN 1 ELSE 0
    BY DEF TestInv, HistoryAgrees
  <2>2. openRecords'[x] = (IF x = old THEN 0 ELSE openRecords[x]) + (IF x = r THEN 1 ELSE 0)
    BY DEF ActivateCommits, HistoryAfter
  <2>3. x = r /\ x # old => ruleset[x].status # "active"
    BY <1>1, <1>3 DEF Active
  <2> QED BY <1>2, <2>1, <2>2, <2>3
<1>6. ActiveRecorded'
  BY <1>2 DEF ActivateCommits, TestInv, ActiveRecorded
<1> QED BY <1>4, <1>5, <1>6

\* A clean-up that commits takes the mark of a slot only with a test ruleset.
LEMMA CleanupCommitKeeps ==
  ASSUME TestInv, KeepStep, CleanupCommits
  PROVE  SlotKeptOrCleaned' /\ HistoryAgrees' /\ ActiveRecorded'
<1>1. \A x \in Ids : /\ ruleset'[x].slot = ruleset[x].slot
                     /\ ruleset'[x].status = IF x \in cleanup.ids /\ Exists(x) THEN "cleaned"
                                             ELSE ruleset[x].status
  BY RowsTyped DEF CleanupCommits, TestInv
<1>2. cleanup.ids \subseteq Ids
  BY DEF TestInv, TypeOK, Cleanup
<1>3. SlotKeptOrCleaned'
  <2> SUFFICES ASSUME NEW s \in Slots
               PROVE  \/ (\E x \in Ids : Active(s) = {x})'
                      \/ (Active(s) = {} /\ \E x \in Ids : Gone(x) /\ ruleset[x].slot = s)'
    BY DEF SlotKeptOrCleaned, Gone
  <2>1. Active(s)' = Active(s) \ cleanup.ids
    BY <1>1 DEF Active, Exists
  <2>2. CASE Active(s) = {}
    <3>1. (\E x \in Ids : Gone(x) /\ ruleset[x].slot = s)'
      BY <2>2, KeepStepLost DEF TestInv, SlotKeptOrCleaned, LostStaysLost, Gone
    <3> QED BY <2>1, <2>2, <3>1
  <2>3. ASSUME NEW a \in Ids, Active(s) = {a}
        PROVE  \/ (\E x \in Ids : Active(s) = {x})'
               \/ (Active(s) = {} /\ \E x \in Ids : Gone(x) /\ ruleset[x].slot = s)'
    <3>1. CASE a \in cleanup.ids
      <4>1. ruleset[a].status # "absent" /\ ruleset[a].name \in TestNames
        BY <3>1 DEF TestInv, CleanupOfTests
      <4>2. Gone(a)' /\ ruleset'[a].slot = s
        BY <1>1, <2>3, <3>1, <4>1 DEF KeepStep, Gone, Active, Exists
      <4> QED BY <2>1, <2>3, <3>1, <4>2
    <3>2. CASE a \notin cleanup.ids
      BY <2>1, <2>3, <3>2
    <3> QED BY <3>1, <3>2
  <2> QED BY <2>2, <2>3 DEF TestInv, SlotKeptOrCleaned
<1>4. HistoryAgrees' /\ ActiveRecorded'
  BY <1>1 DEF CleanupCommits, TestInv, HistoryAgrees, ActiveRecorded, Exists
<1> QED BY <1>3, <1>4

\* An activation in progress keeps its pair, and a new one reads a pair.
LEMMA TestActivationsInSlot ==
  ASSUME TestInv, KeepStep, [TestNext]_vars
  PROVE  ActivationsInSlot'
<1>1. \A p \in Requests : request'[p].op = "activate" =>
        \/ request'[p] = request[p]
        \/ /\ Exists(request'[p].id)
           /\ request'[p].old \in Active(ruleset[request'[p].id].slot)
           /\ request'[p].id \in Ids
  <2>1. ASSUME NEW q \in Requests, NEW r \in Ids, ActivateRead(q, r), NEW p \in Requests
        PROVE  \/ request'[p] = request[p]
               \/ /\ request'[p].id = r /\ Exists(r)
                  /\ request'[p].old \in Active(ruleset[r].slot)
    BY <2>1 DEF ActivateRead, TestInv, TypeOK
  <2>2. ASSUME NEW q \in Requests, NEW v \in Request, v.op # "activate",
               request' = [request EXCEPT ![q] = v], NEW p \in Requests
        PROVE  request'[p] = request[p] \/ request'[p].op # "activate"
    BY <2>2 DEF TestInv, TypeOK
  <2>3. NoRequest \in Request /\ NoRequest.op = "none"
    BY DEF NoRequest, Request
  <2>4. ASSUME NEW r \in Ids PROVE [op |-> "delete", id |-> r, old |-> NoId] \in Request
    BY DEF Request
  <2>5. \/ \E q \in Requests, r \in Ids : ActivateRead(q, r)
        \/ \E q \in Requests, v \in Request : v.op # "activate" /\ request' = [request EXCEPT ![q] = v]
        \/ UNCHANGED request
    BY <2>3, <2>4
       DEF TestNext, Next, Handle, ClearTestData, CreateRuleset, Activate, Delete, DeleteRead,
           RequestFails, SelectLinterAndRuleset, UsePicked, CleanupSelect, CleanupLintData,
           CleanupHistory, CleanupRulesets, vars
  <2> QED BY <2>1, <2>2, <2>5
<1> SUFFICES ASSUME NEW p \in Requests, request'[p].op = "activate"
             PROVE  /\ ruleset'[request'[p].id].slot = ruleset'[request'[p].old].slot
                    /\ ruleset'[request'[p].id].status # "absent"
                    /\ ruleset'[request'[p].old].status # "absent"
  BY DEF ActivationsInSlot
<1> DEFINE r == request'[p].id
           old == request'[p].old
<1>2. /\ r \in Ids /\ old \in Ids
      /\ ruleset[r].slot = ruleset[old].slot
      /\ ruleset[r].status # "absent" /\ ruleset[old].status # "absent"
  BY <1>1 DEF TestInv, TypeOK, ActivationsInSlot, Exists, Active
<1> QED BY <1>2 DEF KeepStep

LEMMA InitTestInv == Init => TestInv
<1> SUFFICES ASSUME Init PROVE TestInv
  OBVIOUS
<1>1. UsedExist /\ CleanupOfTests
  BY DEF Init, NoCleanup, UsedExist, CleanupOfTests
<1> QED BY <1>1, InitIInv DEF IInv, TestInv, OneActivePerSlot, SlotKeptOrCleaned

LEMMA NextTestInv == TestInv /\ [TestNext]_vars => TestInv'
<1> SUFFICES ASSUME TestInv, [TestNext]_vars PROVE TestInv'
  OBVIOUS
<1>1. KeepStep /\ TypeOK'
  BY NextKeepStep, NextTypeOK DEF TestInv
<1>2. UsedExist' /\ CleanupOfTests'
  BY <1>1 DEF KeepStep, TestInv, TypeOK, Cleanup, UsedExist, CleanupOfTests
<1>3. SlotKeptOrCleaned' /\ HistoryAgrees' /\ ActiveRecorded'
  BY <1>1, StepMovesMarks, MarksStayKeeps, ActivateCommitKeeps, CleanupCommitKeeps
<1>4. ActivationsInSlot'
  BY <1>1, TestActivationsInSlot
<1> QED BY <1>1, <1>2, <1>3, <1>4 DEF TestInv

\* With the clean-up of test data called at any moment, a slot has one active
\* ruleset for ever or has lost a test ruleset to the clean-up.
THEOREM SlotsUnderCleanup == TestSpec => []SlotKeptOrCleaned
<1>1. TestInv => SlotKeptOrCleaned
  BY DEF TestInv
<1> QED BY <1>1, InitTestInv, NextTestInv, PTL DEF TestSpec

\* The history agrees with the rulesets also when the clean-up removes rulesets
\* and their records in the middle of activations.
THEOREM HistoryUnderCleanup == TestSpec => []HistoryAgrees
<1>1. TestInv => HistoryAgrees
  BY DEF TestInv
<1> QED BY <1>1, InitTestInv, NextTestInv, PTL DEF TestSpec

-----------------------------------------------------------------------------
(* Rulesets implements RulesetSlots                                          *)

\* An activation that goes through switches the slot of its ruleset: what else
\* was active there is the ruleset it has read and found still current.
LEMMA ActivateImplements ==
  ASSUME IInv, NEW q \in Requests, Activate(q)
  PROVE  [SwitchedSlots!Next]_(SwitchedSlots!vars)
<1> DEFINE r == request[q].id
           old == request[q].old
           A == {x \in Ids : ruleset[x].status = "active"}
<1>1. /\ r \in Ids /\ old \in Ids
      /\ ruleset[r].slot = ruleset[old].slot
  BY DEF Activate, IInv, TypeOK, ActivationsInSlot
<1>2. CASE UNCHANGED <<ruleset, historyVars>>
  BY <1>2 DEF SwitchedSlots!vars, Presence, Exists, historyVars
<1>3. CASE /\ StillCurrent(old) /\ Exists(r)
           /\ ruleset' = [x \in Ids |->
                IF x = r THEN Activated(x)
                ELSE IF x = old THEN Deactivated(x) ELSE ruleset[x]]
           /\ recorded' = recorded \cup {r}
  <2>1. \A x \in Ids : /\ ruleset'[x].slot = ruleset[x].slot
                       /\ ruleset'[x].status = IF x = r THEN "active"
                                               ELSE IF x = old THEN "inactive"
                                               ELSE ruleset[x].status
    BY <1>3, RowsTyped DEF IInv
  <2>2. PICK a \in Ids : Active(ruleset[r].slot) = {a}
    <3>1. ruleset[r].slot \in Slots
      BY <1>1 DEF IInv, TypeOK, Row
    <3> QED BY <3>1 DEF IInv, OneActivePerSlot
  <2>3. \A x \in Ids : x \in A /\ ruleset[x].slot = ruleset[r].slot <=> x = old
    <3>1. old \in Active(ruleset[r].slot)
      BY <1>1, <1>3 DEF Active, StillCurrent
    <3> QED BY <2>2, <3>1 DEF Active
  <2>4. [x \in Ids |-> Presence(x)]' = [x \in Ids |-> Presence(x)]
    <3>1. Exists(r) /\ Exists(old)
      BY <1>3 DEF StillCurrent, Exists
    <3>2. \A x \in Ids : Exists(x)' = Exists(x)
      BY <2>1, <3>1 DEF Exists
    <3>3. \A x \in Ids : ruleset'[x].status = "absent" <=> ruleset[x].status = "absent"
      BY <2>1, <3>1 DEF Exists
    <3> QED BY <3>2, <3>3 DEF Presence
  <2>5. [x \in Ids |-> ruleset[x].slot]' = [x \in Ids |-> ruleset[x].slot]
    BY <2>1
  <2>6. A' = (A \ {x \in Ids : [y \in Ids |-> ruleset[y].slot][x]
                                 = [y \in Ids |-> ruleset[y].slot][r]}) \cup {r}
    BY <1>1, <2>1, <2>3
  <2>7. [x \in Ids |-> Presence(x)][r] = "present"
    BY <1>1, <1>3 DEF Presence
  <2>8. PICK new \in Ids : new = r
    BY <1>1
  <2>9. SwitchedSlots!Switch(new)
    BY <1>3, <2>4, <2>5, <2>6, <2>7, <2>8 DEF SwitchedSlots!Switch, SwitchedSlots!InSlot
  <2> QED BY <2>9 DEF SwitchedSlots!Next
<1> QED BY <1>2, <1>3 DEF Activate

LEMMA DeleteImplements ==
  ASSUME IInv, NEW q \in Requests, Delete(q)
  PROVE  [SwitchedSlots!Next]_(SwitchedSlots!vars)
<1> DEFINE r == request[q].id
<1>1. r \in Ids
  BY DEF Delete, IInv, TypeOK
<1>2. CASE UNCHANGED ruleset
  BY <1>2 DEF Delete, SwitchedSlots!vars, Presence, Exists, historyVars
<1>3. CASE Exists(r) /\ ~Referenced(r) /\ ruleset' = [ruleset EXCEPT ![r] = Removed(r, "deleted")]
  <2>1. \A x \in Ids : /\ ruleset'[x].slot = ruleset[x].slot
                       /\ ruleset'[x].status = IF x = r THEN "deleted" ELSE ruleset[x].status
    BY <1>1, <1>3, RowsTyped DEF IInv, TypeOK
  <2>2. r \notin recorded /\ ruleset[r].status # "active"
    BY <1>1, <1>3 DEF Referenced, IInv, ActiveRecorded
  <2>3. [x \in Ids |-> Presence(x)]' = [[x \in Ids |-> Presence(x)] EXCEPT ![r] = "removed"]
    BY <1>1, <2>1 DEF Presence, Exists
  <2>4. /\ [x \in Ids |-> ruleset[x].slot]' = [x \in Ids |-> ruleset[x].slot]
        /\ {x \in Ids : ruleset[x].status = "active"}' = {x \in Ids : ruleset[x].status = "active"}
    BY <2>1, <2>2
  <2>5. [x \in Ids |-> Presence(x)][r] = "present" /\ UNCHANGED recorded
    BY <1>1, <1>3 DEF Presence, Delete, historyVars
  <2>6. SwitchedSlots!Remove(r)
    BY <2>2, <2>3, <2>4, <2>5 DEF SwitchedSlots!Remove
  <2> QED BY <1>1, <2>6 DEF SwitchedSlots!Next
<1> QED BY <1>2, <1>3 DEF Delete

LEMMA CreateImplements ==
  ASSUME IInv, NEW r \in Ids, NEW s \in Slots, NEW n \in Names, CreateRuleset(r, s, n)
  PROVE  SwitchedSlots!Next
<1> DEFINE row == [status |-> "inactive", slot |-> s, name |-> n, canBeDeleted |-> TRUE]
<1>1. ruleset' = [ruleset EXCEPT ![r] = row] /\ ruleset[r].status = "absent"
  BY DEF CreateRuleset
<1>2. row.status = "inactive" /\ row.slot = s
  OBVIOUS
<1> HIDE DEF row
<1>3. \A x \in Ids : ruleset'[x] = IF x = r THEN row ELSE ruleset[x]
  BY <1>1 DEF IInv, TypeOK
<1>4. [x \in Ids |-> Presence(x)]' = [[x \in Ids |-> Presence(x)] EXCEPT ![r] = "present"]
  BY <1>2, <1>3 DEF Presence, Exists
<1>5. [x \in Ids |-> ruleset[x].slot]' = [[x \in Ids |-> ruleset[x].slot] EXCEPT ![r] = s]
  BY <1>2, <1>3
<1>6. {x \in Ids : ruleset[x].status = "active"}' = {x \in Ids : ruleset[x].status = "active"}
  BY <1>1, <1>2, <1>3
<1>7. [x \in Ids |-> Presence(x)][r] = "absent" /\ UNCHANGED recorded
  BY <1>1 DEF Presence, Exists, CreateRuleset, historyVars
<1>8. SwitchedSlots!Create(r)
  BY <1>4, <1>5, <1>6, <1>7 DEF SwitchedSlots!Create
<1> QED BY <1>8 DEF SwitchedSlots!Next

\* However requests overlap, a slot is switched in one step and is never empty,
\* in a system where the clean-up of test data is not called.
THEOREM SlotsAreSwitched == Spec => ImplementsSlots
<1>1. Init => SwitchedSlots!Init
  <2> SUFFICES ASSUME Init PROVE SwitchedSlots!Init
    OBVIOUS
  <2> DEFINE A == {r \in Ids : ruleset[r].status = "active"}
             S == [r \in Ids |-> ruleset[r].slot]
  <2>1. IInv
    BY InitIInv
  <2>2. S \in [Ids -> Slots]
    BY <2>1 DEF IInv, TypeOK, Row
  <2>3. \A s \in Slots : \E r \in Ids : A \cap {x \in Ids : S[x] = s} = {r}
    <3> SUFFICES ASSUME NEW s \in Slots
                 PROVE  \E r \in Ids : A \cap {x \in Ids : S[x] = s} = {r}
      OBVIOUS
    <3>1. A \cap {x \in Ids : S[x] = s} = Active(s)
      BY DEF Active
    <3> QED BY <2>1, <3>1 DEF IInv, OneActivePerSlot
  <2>4. /\ \A r \in Ids : ruleset[r].status = IF r \in Defaults THEN "active" ELSE "absent"
        /\ recorded = Defaults
    BY DEF Init
  <2>5. Defaults \subseteq Ids
    BY DEF Defaults
  <2>6. A = Defaults /\ [r \in Ids |-> Presence(r)] = [r \in Ids |-> IF r \in A THEN "present" ELSE "absent"]
    BY <2>4, <2>5 DEF Presence, Exists
  <2> QED BY <2>2, <2>3, <2>4, <2>6 DEF SwitchedSlots!Init, SwitchedSlots!InSlot
<1>2. IInv /\ [Next]_vars => [SwitchedSlots!Next]_(SwitchedSlots!vars)
  <2> SUFFICES ASSUME IInv, [Next]_vars PROVE [SwitchedSlots!Next]_(SwitchedSlots!vars)
    OBVIOUS
  <2>1. CASE UNCHANGED <<ruleset, recorded>>
    BY <2>1 DEF SwitchedSlots!vars, Presence, Exists
  <2>2. \/ \E r \in Ids, s \in Slots, n \in Names : CreateRuleset(r, s, n)
        \/ \E q \in Requests : Activate(q) \/ Delete(q)
        \/ UNCHANGED <<ruleset, recorded>>
    BY DEF Next, vars, historyVars, Handle, ActivateRead, DeleteRead, RequestFails,
           SelectLinterAndRuleset, UsePicked
  <2> QED BY <2>1, <2>2, ActivateImplements, DeleteImplements, CreateImplements
<1> QED BY <1>1, <1>2, InitIInv, NextIInv, PTL DEF Spec, ImplementsSlots, SwitchedSlots!Spec
=============================================================================
