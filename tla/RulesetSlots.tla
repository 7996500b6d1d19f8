---------------------------- MODULE RulesetSlots ----------------------------
(***************************************************************************)
(* What the rulesets promise, without requests, reads and locks: a slot (an *)
(* API type and a linter) has one active ruleset, an activation switches   *)
(* the slot of a ruleset that is there in one step, and only a ruleset     *)
(* that has never been active can be removed.  Rulesets implements it as   *)
(* long as the clean-up of test data is not called.                        *)
(*                                                                         *)
(* The last clause is what the code keeps to, not what the API description *)
(* says: there a ruleset that is inactive, and that no version was         *)
(* validated against, can be deleted (docs/api/linter_service_api.yaml:175 *)
(* and 585-590), also one that was active in between.                      *)
(***************************************************************************)
CONSTANTS
    Ids,   \* ruleset ids
    Slots  \* pairs of API type and linter

VARIABLES
    state,   \* of every id: "absent", "present" or "removed"
    slot,    \* of every id
    active,  \* the active rulesets
    past     \* the rulesets that are or were active

vars == <<state, slot, active, past>>

InSlot(s) == {r \in Ids : slot[r] = s}

Init == /\ slot \in [Ids -> Slots]
        /\ active \in SUBSET Ids
        /\ \A s \in Slots : \E r \in Ids : active \cap InSlot(s) = {r}
        /\ state = [r \in Ids |-> IF r \in active THEN "present" ELSE "absent"]
        /\ past = active

Create(r) ==
    /\ state[r] = "absent"
    /\ state' = [state EXCEPT ![r] = "present"]
    /\ \E s \in Slots : slot' = [slot EXCEPT ![r] = s]
    /\ UNCHANGED <<active, past>>

\* The active ruleset of the slot of r, whichever it is by now, gives way to r.
Switch(r) ==
    /\ state[r] = "present"
    /\ active' = (active \ InSlot(slot[r])) \cup {r}
    /\ past' = past \cup {r}
    /\ UNCHANGED <<state, slot>>

Remove(r) ==
    /\ state[r] = "present"
    /\ r \notin past
    /\ state' = [state EXCEPT ![r] = "removed"]
    /\ UNCHANGED <<slot, active, past>>

Next == \E r \in Ids : Create(r) \/ Switch(r) \/ Remove(r)

Spec == Init /\ [][Next]_vars
=============================================================================
