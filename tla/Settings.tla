------------------------------ MODULE Settings ------------------------------
(***************************************************************************)
(* What the limiters of backend/services/rate_limit share: the API keys,   *)
(* the requests made with them, and the limits that core/config.py reads   *)
(* from the environment, the same for every key.                           *)
(***************************************************************************)
EXTENDS Integers, FiniteSets

CONSTANTS Keys,      \* API keys
          Requests,  \* requests, each of which is admitted once
          KeyOf,     \* the API key of each request
          RpmLimit,  \* rate_limit_rpm: requests per window
          Limit,     \* concurrent_request_limit: requests in flight
          TpmLimit   \* token_limit_tpm: tokens per window

ASSUME SettingsAssumption == /\ IsFiniteSet(Requests)
                             /\ KeyOf \in [Requests -> Keys]
                             /\ RpmLimit \in Nat
                             /\ Limit \in Nat
                             /\ TpmLimit \in Nat

\* The requests that count on the Redis keys of one API key.
On(k) == {r \in Requests : KeyOf[r] = k}
=============================================================================
