---------------------------- MODULE QuotaReserver ----------------------------
(***************************************************************************)
(* backend/services/rate_limit/quota_reserver.py: the tokens-per-minute    *)
(* counter of an API key.  reserve() books the estimate of a request with  *)
(* INCRBY, starts the minute with EXPIRE when the counter equals that      *)
(* estimate, and undoes the booking when the limit is exceeded; finalize() *)
(* gives back what was not used once the actual usage is known, which may  *)
(* be minutes later, and deletes the key when nothing seems to remain.     *)
(***************************************************************************)
EXTENDS Settings

CONSTANT Estimate  \* the tokens each request reserves

ASSUME EstimateAssumption == Estimate \in [Requests -> Nat]

VARIABLES tpm,      \* the counter of each key, 0 when the key is absent
          tpmKey,   \* whether the key is absent, without expiry or expiring
          quota,    \* how far each request has come in reserve(), finalize()
          charge,   \* the tokens of each request still booked in a counter
          period,   \* history: how many windows of each key have ended
          booked,   \* history: the window of each request's reservation
          drifted   \* history: keys whose counter took a refund of an earlier
                    \* window or lost a live count to a DELETE

vars == <<tpm, tpmKey, quota, charge, period, booked, drifted>>

Stages == {"new",        \* reserve() has not been called
           "expiring",   \* first of its window: the EXPIRE is due
           "overLimit",  \* booked above the limit, the roll-back is due
           "reserved",   \* reserve() returned a TokenReservation
           "noop",       \* reserve() returned a NoopTokenReservation
           "deleting",   \* finalize() saw a counter <= 0, the DELETE is due
           "finalized",  \* finalize() has run
           "refused",    \* 429 token_rate_limit_exceeded, roll-back done
           "failed"}     \* 503, cancelled, or a roll-back that failed

NotBooked == -1

\* The requests booked in the current window of a key, and what they are charged.
Current(k) == {r \in On(k) : booked[r] = period[k]}
\* The sum of f over R, as the number of its units.
Total(f, R) == Cardinality(UNION {{r} \X (1 .. f[r]) : r \in R})
ChargeOf(R) == Total(charge, R)
Admitted(k) == {r \in Current(k) :
                  quota[r] \in {"reserved", "deleting", "finalized"}}

Init == /\ tpm = [k \in Keys |-> 0]
        /\ tpmKey = [k \in Keys |-> "absent"]
        /\ quota = [r \in Requests |-> "new"]
        /\ charge = [r \in Requests |-> 0]
        /\ period = [k \in Keys |-> 0]
        /\ booked = [r \in Requests |-> NotBooked]
        /\ drifted = {}

-----------------------------------------------------------------------------
Move(r, from, to) == /\ quota[r] = from
                     /\ quota' = [quota EXCEPT ![r] = to]

\* A counting command creates an absent key, and then without an expiry.
Touch(k) == tpmKey' = [tpmKey EXCEPT ![k] = IF @ = "absent" THEN "immortal" ELSE @]

\* INCRBY of the estimate.
Book(r) == /\ tpm' = [tpm EXCEPT ![KeyOf[r]] = @ + Estimate[r]]
           /\ Touch(KeyOf[r])
           /\ charge' = [charge EXCEPT ![r] = Estimate[r]]
           /\ booked' = [booked EXCEPT ![r] = period[KeyOf[r]]]
           /\ UNCHANGED <<period, drifted>>

\* DECRBY of n of the tokens r has booked, in whatever window it is by now.
Refund(r, n) ==
    LET k == KeyOf[r] IN
    /\ tpm' = [tpm EXCEPT ![k] = @ - n]
    /\ Touch(k)
    /\ charge' = [charge EXCEPT ![r] = Estimate[r] - n]
    /\ drifted' = drifted \cup {j \in {k} : booked[r] # period[j]}
    /\ UNCHANGED <<period, booked>>

Keep == UNCHANGED <<tpm, tpmKey, charge, period, booked, drifted>>

\* Mutant: the limit is tested against the counter before this request.
MutVerdict(r, count) ==
    IF count - Estimate[r] > TpmLimit THEN "overLimit" ELSE "reserved"

Verdict(r, count) == IF count > TpmLimit THEN "overLimit" ELSE "reserved"

\* An estimate of zero reserves nothing and sends no command.
ReserveNothing(r) == Estimate[r] = 0 /\ Move(r, "new", "noop") /\ Keep

\* Mutant: only the request that fills the window starts its minute.
MutReserve(r) ==
    LET count == tpm[KeyOf[r]] + Estimate[r] IN
    /\ Estimate[r] > 0
    /\ Move(r, "new", IF count = TpmLimit THEN "expiring" ELSE Verdict(r, count))
    /\ Book(r)

\* INCRBY; the first of a window goes on to EXPIRE, the others to the verdict.
Reserve(r) ==
    LET count == tpm[KeyOf[r]] + Estimate[r] IN
    /\ Estimate[r] > 0
    /\ Move(r, "new", IF count = Estimate[r] THEN "expiring" ELSE Verdict(r, count))
    /\ Book(r)

\* EXPIRE on the key, if it is still there; then the verdict on the count that
\* INCRBY returned.
SetExpiry(k) ==
    /\ tpmKey' = [tpmKey EXCEPT ![k] = IF @ = "absent" THEN @ ELSE "expiring"]
    /\ UNCHANGED <<tpm, charge, period, booked, drifted>>

Expire(r) == /\ Move(r, "expiring", Verdict(r, Estimate[r]))
             /\ SetExpiry(KeyOf[r])

\* Mutant: the rejected booking stays in the counter.
MutRollBack(r) == /\ Move(r, "overLimit", "refused")
                  /\ charge' = [charge EXCEPT ![r] = 0]
                  /\ UNCHANGED <<tpm, tpmKey, period, booked, drifted>>

RollBack(r) == Move(r, "overLimit", "refused") /\ Refund(r, Estimate[r])

\* finalize(actual_tokens, release_all): what goes back to the counter.
Unused(r, actual, releaseAll) ==
    IF releaseAll THEN Estimate[r] ELSE Estimate[r] - actual

\* Mutant: `finalized` is never tested, so usage is refunded a second time.
MutFinalize(r, actual, releaseAll) ==
    LET unused == Unused(r, actual, releaseAll)
        remaining == tpm[KeyOf[r]] - unused IN
    /\ unused > 0
    /\ \E s \in {"reserved", "finalized"} :
         Move(r, s, IF remaining <= 0 THEN "deleting" ELSE "finalized")
    /\ Refund(r, unused)

\* DECRBY of the unused tokens; nothing is sent when the estimate was used up.
Finalize(r, actual, releaseAll) ==
    LET unused == Unused(r, actual, releaseAll)
        remaining == tpm[KeyOf[r]] - unused IN
    \/ /\ unused <= 0
       /\ Move(r, "reserved", "finalized")
       /\ Keep
    \/ /\ unused > 0
       /\ Move(r, "reserved", IF remaining <= 0 THEN "deleting" ELSE "finalized")
       /\ Refund(r, unused)

\* The DELETE removes the key with whatever it holds by then.
Delete(r) ==
    LET k == KeyOf[r] IN
    /\ Move(r, "deleting", "finalized")
    /\ tpm' = [tpm EXCEPT ![k] = 0]
    /\ tpmKey' = [tpmKey EXCEPT ![k] = "absent"]
    /\ drifted' = drifted \cup {j \in {k} : tpm[j] # 0}
    /\ UNCHANGED <<charge, period, booked>>

\* A command of reserve() that raises, or a task cancelled while it awaits one.
ReserveFails(r) ==
    \/ \E s \in {"new", "expiring", "overLimit"} :
         Move(r, s, "failed") /\ Estimate[r] > 0 /\ Keep
    \/ Estimate[r] > 0 /\ Move(r, "new", "failed") /\ Book(r)
    \/ Move(r, "expiring", "failed") /\ SetExpiry(KeyOf[r])

\* A command of finalize() that raises: logged, and nothing further is sent.
FinalizeFails(r) ==
    \/ \E s \in {"reserved", "deleting"} : Move(r, s, "finalized") /\ Keep
    \/ \E n \in 1 .. Estimate[r] : Move(r, "reserved", "finalized") /\ Refund(r, n)

\* External: Redis drops a key whose 60 seconds are over.
WindowEnds(k) ==
    /\ tpmKey[k] = "expiring"
    /\ tpm' = [tpm EXCEPT ![k] = 0]
    /\ tpmKey' = [tpmKey EXCEPT ![k] = "absent"]
    /\ period' = [period EXCEPT ![k] = @ + 1]
    /\ UNCHANGED <<quota, charge, booked, drifted>>

\* A finished request used anything from nothing to more than its estimate; a
\* failed one releases everything.
FinalizeAny(r) == \/ Finalize(r, 0, TRUE)
                  \/ \E actual \in 0 .. Estimate[r] + 1 : Finalize(r, actual, FALSE)

Reliable(r) == \/ ReserveNothing(r) \/ Reserve(r) \/ Expire(r) \/ RollBack(r)
               \/ FinalizeAny(r) \/ Delete(r)

Next == \/ \E r \in Requests : Reliable(r) \/ ReserveFails(r) \/ FinalizeFails(r)
        \/ \E k \in Keys : WindowEnds(k)

Spec == Init /\ [][Next]_vars

\* The event loop takes every call on to its end, which may be a failure, every
\* holder finalizes, and expiries take effect.
FairSpec ==
    /\ Spec
    /\ \A r \in Requests : WF_vars(Reliable(r) \/ ReserveFails(r) \/ FinalizeFails(r))
    /\ \A k \in Keys : WF_vars(WindowEnds(k))

-----------------------------------------------------------------------------
TypeOK == /\ tpm \in [Keys -> Int]
          /\ tpmKey \in [Keys -> {"absent", "immortal", "expiring"}]
          /\ quota \in [Requests -> Stages]
          /\ charge \in [Requests -> Nat]
          /\ period \in [Keys -> Nat]
          /\ booked \in [Requests -> Nat \cup {NotBooked}]
          /\ drifted \in SUBSET Keys

\* A key is never billed more than what the requests of its current window
\* reserved and have not given back: no finalize(), roll-back, DELETE or expiry,
\* in any order and with any of them failing, overcharges it.
NoOvercharge == \A k \in Keys : tpm[k] <= ChargeOf(Current(k))

\* Each reservation is refunded once: the counter is exactly what is owed unless
\* a refund crossed into a later window or a DELETE removed a live count.
ExactUnlessDrifted == \A k \in Keys \ drifted : tpm[k] = ChargeOf(Current(k))

\* The tokens charged to the admitted requests of a window stay within the
\* limit as long as the counter has not drifted.
BudgetUnlessDrifted == \A k \in Keys \ drifted : ChargeOf(Admitted(k)) <= TpmLimit

\* A counter that has not drifted is dropped at the end of its minute: the EXPIRE
\* of reserve() reaches every window that is opened, unless a command failed.
PeriodsCloseUnlessDrifted ==
    \A k \in Keys :
        tpm[k] > 0 ~> \/ tpm[k] <= 0 \/ k \in drifted
                      \/ \E r \in Current(k) : quota[r] = "failed"
=============================================================================
