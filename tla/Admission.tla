------------------------------ MODULE Admission ------------------------------
(***************************************************************************)
(* backend/services/rate_limit/admission.py: AdmissionService.admit() runs *)
(* the overload gate, the RPM counter, the concurrency limiter and the     *)
(* token reservation in that order, each for the same API key, and returns *)
(* an AdmissionLease that its caller settles with finalize_tokens() and    *)
(* then release().  The three components share Redis but no key.           *)
(***************************************************************************)
EXTENDS Settings

CONSTANT Estimate  \* the tokens each request reserves

VARIABLES overloaded, rpm, rpmTtl, check, window, stamp,
          slots, lease, wiped,
          tpm, tpmKey, quota, charge, period, booked, drifted

RL == INSTANCE RateLimiter
CL == INSTANCE ConcurrencyLimiter
QR == INSTANCE QuotaReserver

rlVars == <<overloaded, rpm, rpmTtl, check, window, stamp>>
clVars == <<slots, lease, wiped>>
qrVars == <<tpm, tpmKey, quota, charge, period, booked, drifted>>
vars == <<rlVars, clVars, qrVars>>

Init == RL!Init /\ CL!Init /\ QR!Init

-----------------------------------------------------------------------------
(* The points between the calls of admit(), read off the components.       *)

\* admit() has returned its lease, and finalize_tokens() is not under way.
Admitted(r) == quota[r] \in {"reserved", "noop", "finalized"}
\* reserve() raised inside admit(), which then has no lease to return.
Dropped(r) == lease[r] = "held" /\ quota[r] \in {"refused", "failed"}

\* concurrency_limiter.acquire(), once check_rpm() has returned.
Acquires(r) == /\ check[r] = "passed"
               /\ CL!Acquire(r)
               /\ UNCHANGED <<rlVars, qrVars>>

\* The DECR of a refused acquire(); the request stays in the RPM counter.
RollsBackSlot(r) == CL!RollBack(r) /\ UNCHANGED <<rlVars, qrVars>>

\* check_overload() and check_rpm().
Checks(r) == RL!Reliable(r) /\ UNCHANGED <<clVars, qrVars>>

\* quota_reserver.reserve(), once acquire() has returned a lease.
Reserves(r) == /\ lease[r] = "held"
               /\ QR!ReserveNothing(r) \/ QR!Reserve(r) \/ QR!Expire(r)
               /\ UNCHANGED <<rlVars, clVars>>

\* The roll-back of a refused reservation; nothing gives back the slot taken above.
RollsBackTokens(r) == QR!RollBack(r) /\ UNCHANGED <<rlVars, clVars>>

\* AdmissionLease.finalize_tokens().
FinalizesTokens(r) == /\ lease[r] = "held"
                      /\ QR!FinalizeAny(r) \/ QR!Delete(r)
                      /\ UNCHANGED <<rlVars, clVars>>

\* Mutant: a caller that has finalized the tokens forgets to release.
MutReleases(r) == /\ \/ Admitted(r) /\ quota[r] # "finalized" /\ CL!Release(r)
                     \/ CL!Delete(r)
                  /\ UNCHANGED <<rlVars, qrVars>>

\* AdmissionLease.release(), the last thing a caller does with its lease, also
\* when it was cancelled before it could finalize.
Releases(r) == /\ \/ Admitted(r) /\ CL!Release(r)
                  \/ CL!Delete(r)
               /\ UNCHANGED <<rlVars, qrVars>>

WindowEnds(k) == \/ RL!WindowEnds(k) /\ UNCHANGED <<clVars, qrVars>>
                 \/ QR!WindowEnds(k) /\ UNCHANGED <<rlVars, clVars>>

SetOverload == RL!SetOverload /\ UNCHANGED <<clVars, qrVars>>

Reliable(r) == \/ Checks(r) \/ Acquires(r) \/ RollsBackSlot(r) \/ Reserves(r)
               \/ RollsBackTokens(r) \/ FinalizesTokens(r) \/ Releases(r)

\* A command fails, or the task is cancelled, at any of the awaits above; or the
\* caller goes without releasing its lease.
Fails(r) ==
    \/ RL!CheckFails(r) /\ UNCHANGED <<clVars, qrVars>>
    \/ /\ \/ check[r] = "passed" /\ CL!AcquireFails(r)
          \/ CL!RollBackFails(r)
          \/ Admitted(r) /\ (CL!ReleaseFails(r) \/ CL!Abandon(r))
          \/ CL!DeleteFails(r)
       /\ UNCHANGED <<rlVars, qrVars>>
    \/ /\ lease[r] = "held" /\ (QR!ReserveFails(r) \/ QR!FinalizeFails(r))
       /\ UNCHANGED <<rlVars, clVars>>

Environment == SetOverload \/ \E k \in Keys : WindowEnds(k)

Next == (\E r \in Requests : Reliable(r) \/ Fails(r)) \/ Environment

Spec == Init /\ [][Next]_vars

\* The event loop resumes every request until it is done, or has failed.
FairSpec == Spec /\ \A r \in Requests : WF_vars(Reliable(r))

-----------------------------------------------------------------------------
\* rate_limiter.py, check_rpm(): of the requests counted in one window of a key at most
\* RpmLimit go on to the slots and the tokens, whichever command of whom fails.
WindowLimit == RL!WindowLimit

\* rate_limiter.py, the EXPIRE of check_rpm(): a counter without an expiry is the doing
\* of the request that opened its window, which has failed or is still at its EXPIRE.
ImmortalOnlyByFault == RL!ImmortalOnlyByFault

\* rate_limiter.py, the 429 of check_rpm(): a request is refused for the requests of
\* its own minute, never for those of an earlier one.
LimitedByThisWindow == RL!LimitedByThisWindow

\* concurrency_limiter.py: a counter never exceeds the requests that still owe it a
\* DECR, wherever admit() and the holder of its lease are interrupted.
NoPhantomSlots == CL!NoPhantomSlots

\* concurrency_limiter.py: a lease is given back once and a refused INCR undone once;
\* only the DELETE of a live count makes the counter of a key inexact.
ExactUnlessWiped == CL!ExactUnlessWiped

\* concurrency_limiter.py: at most Limit requests of a key are past acquire() and
\* before release(), on a key whose live count no DELETE has removed.
LimitUnlessWiped == CL!LimitUnlessWiped

\* Every slot that stays counted in the end has one of two causes: a command of the
\* limiter failed or the holder vanished (leaked), or admit() lost the lease because
\* its reserve() raised.  The second is what NothingKeptByRefusals says never happens.
SlotsDrain ==
    \A k \in Keys :
        <>[](slots[k] <= Cardinality({r \in On(k) : Dropped(r) \/ lease[r] = "leaked"}))

\* docs/todo.md:465, "failed request does not leak concurrency counter": a request that
\* admit() turns away keeps no slot; what stays counted in the end is the slots whose
\* own commands failed or whose holder vanished.
NothingKeptByRefusals ==
    \A k \in Keys :
        <>[](slots[k] <= Cardinality({r \in On(k) : lease[r] = "leaked"}))
=============================================================================
