----------------------- MODULE MCConcurrencyLimiter -----------------------
(***************************************************************************)
(* Instance of ConcurrencyLimiter for TLC.  With Limit = 2, four requests  *)
(* on one key are two holders, one that slips in between the DECR and the  *)
(* DELETE of the first, and one that is refused.                           *)
(***************************************************************************)
EXTENDS ConcurrencyLimiter, TLC

CONSTANTS k1, k2, r1, r2, r3, r4

MCKeys == {k1, k2}
MCRequests == {r1, r2, r3, r4}
OneKeyOf == [r \in MCRequests |-> k1]
=============================================================================
