----------------------------- MODULE MCAdmission -----------------------------
(***************************************************************************)
(* Instances of Admission for TLC, on one key.  Two requests fit a window, *)
(* one slot is there; the tokens of r1 fit the token limit, the others'    *)
(* never do.                                                               *)
(***************************************************************************)
EXTENDS Admission, TLC

CONSTANTS k1, r1, r2, r3

MCKeys == {k1}
TwoRequests == {r1, r2}
ThreeRequests == {r1, r2, r3}
OneKey == [r \in Requests |-> k1]
MCEstimate == [r \in Requests |-> IF r = r1 THEN 1 ELSE 2]
==============================================================================
