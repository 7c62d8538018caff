--------------------------- MODULE RequestContract ---------------------------
(***************************************************************************)
(* What every request promises to those who count it, whatever becomes of  *)
(* its generation: its concurrency slot, its charge against the token      *)
(* quota, its audit row and its usage event move in one order.  It is the  *)
(* order of the calls on AdmissionLease (services/rate_limit/admission.py) *)
(* and RequestAuditService (services/inference/usage_finalizer.py).        *)
(***************************************************************************)
EXTENDS Naturals

CONSTANT Requests

VARIABLES slot,    \* "none", "held", "released"
          charge,  \* "none", "reserved", "settled"
          row,     \* "none", "accepted", "final"
          events   \* usage events emitted

vars == <<slot, charge, row, events>>

Init == /\ slot = [r \in Requests |-> "none"]
        /\ charge = [r \in Requests |-> "none"]
        /\ row = [r \in Requests |-> "none"]
        /\ events = [r \in Requests |-> 0]

Set(f, r, v) == [f EXCEPT ![r] = v]

\* Slot and reservation are taken together.
Admit(r) == /\ slot[r] = "none" /\ slot' = Set(slot, r, "held")
            /\ charge' = Set(charge, r, "reserved")
            /\ UNCHANGED <<row, events>>

Accept(r) == /\ slot[r] = "held" /\ charge[r] = "reserved"
             /\ row[r] = "none" /\ row' = Set(row, r, "accepted")
             /\ UNCHANGED <<slot, charge, events>>

Settle(r) == /\ slot[r] = "held" /\ row[r] = "accepted"
             /\ charge[r] = "reserved" /\ charge' = Set(charge, r, "settled")
             /\ UNCHANGED <<slot, row, events>>

\* A row is final after the charge is, once, and together with the one event.
Finalize(r) == /\ slot[r] = "held" /\ charge[r] = "settled"
               /\ row[r] = "accepted" /\ row' = Set(row, r, "final")
               /\ events' = Set(events, r, events[r] + 1)
               /\ UNCHANGED <<slot, charge>>

\* The last step, if it comes at all: nothing of the request changes any more.
Release(r) == /\ slot[r] = "held" /\ row[r] # "none"
              /\ slot' = Set(slot, r, "released")
              /\ UNCHANGED <<charge, row, events>>

Next == \E r \in Requests : \/ Admit(r) \/ Accept(r) \/ Settle(r)
                            \/ Finalize(r) \/ Release(r)

Spec == Init /\ [][Next]_vars
=============================================================================
