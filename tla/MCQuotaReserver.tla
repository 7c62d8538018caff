--------------------------- MODULE MCQuotaReserver ---------------------------
(***************************************************************************)
(* Instances of QuotaReserver for TLC.  The estimates differ, so that two  *)
(* reservations can fit, exceed the limit of 3 together, or exceed it on   *)
(* their own; r4 estimates nothing.                                        *)
(***************************************************************************)
EXTENDS QuotaReserver, TLC

CONSTANTS k1, r1, r2, r3, r4

MCKeys == {k1}
MCRequests == {r1, r2, r3, r4}
MCKeyOf == [r \in MCRequests |-> k1]
MCEstimate == [r \in MCRequests |-> CASE r = r1 -> 2 [] r = r2 -> 3
                                      [] r = r3 -> 2 [] r = r4 -> 0]
==============================================================================
