------------------------- MODULE ConcurrencyLimiter -------------------------
(***************************************************************************)
(* backend/services/rate_limit/concurrency_limiter.py: the per-API-key     *)
(* limit on requests in flight.  A slot is one INCR on a Redis counter     *)
(* that has no expiry; giving it back is a DECR, followed by a DELETE when *)
(* the counter the DECR returned is not positive.  Every Redis command is  *)
(* one atomic step and the awaits between two commands of a request are    *)
(* the points where the steps of other requests interleave.                *)
(***************************************************************************)
EXTENDS Settings

VARIABLES slots,  \* the counter of each key; an absent key reads as 0 in Redis
          lease,  \* how far each request has come in acquire() and release()
          wiped   \* history: keys whose DELETE removed a counter other than 0

vars == <<slots, lease, wiped>>

Stages == {"new",        \* acquire() has not been called
           "overLimit",  \* counted above the limit, the roll-back DECR is due
           "held",       \* acquire() returned a lease
           "deleting",   \* release() saw a counter <= 0, the DELETE is due
           "released",   \* release() has finished
           "refused",    \* acquire() raised and its increment is undone
           "leaked"}     \* gone with its increment still in the counter

Held(k) == {r \in On(k) : lease[r] = "held"}
\* The requests whose increment has not been given back.
Outstanding(k) == {r \in On(k) : lease[r] \in {"overLimit", "held", "leaked"}}

Init == /\ slots = [k \in Keys |-> 0]
        /\ lease = [r \in Requests |-> "new"]
        /\ wiped = {}

-----------------------------------------------------------------------------
Move(r, from, to) == /\ lease[r] = from
                     /\ lease' = [lease EXCEPT ![r] = to]

\* INCR and DECR on the counter of r's key.
Count(r, n) == slots' = [slots EXCEPT ![KeyOf[r]] = @ + n]

\* Mutant: the comparison is off by one.
MutCanAcquire(r) == slots[KeyOf[r]] <= Limit

CanAcquire(r) == slots[KeyOf[r]] + 1 <= Limit

\* INCR, and the comparison of its result with the limit.
Acquire(r) == /\ Move(r, "new", IF CanAcquire(r) THEN "held" ELSE "overLimit")
              /\ Count(r, 1)
              /\ UNCHANGED wiped

\* Mutant: acquire() raises without undoing its INCR.
MutRollBack(r) == /\ Move(r, "overLimit", "refused")
                  /\ UNCHANGED <<slots, wiped>>

\* The DECR that undoes a refused INCR; it never deletes the key.
RollBack(r) == /\ Move(r, "overLimit", "refused")
               /\ Count(r, -1)
               /\ UNCHANGED wiped

\* Mutant: `released` is never tested, a second release() decrements again.
MutRelease(r) ==
    /\ \/ Move(r, "held",
                IF slots[KeyOf[r]] - 1 <= 0 THEN "deleting" ELSE "released")
       \/ Move(r, "released", "deleting")
    /\ Count(r, -1)
    /\ UNCHANGED wiped

\* release() on a lease that is not released yet: flag it, DECR, and go on to
\* the DELETE when nothing seems to remain.
Release(r) == /\ Move(r, "held",
                      IF slots[KeyOf[r]] - 1 <= 0 THEN "deleting" ELSE "released")
              /\ Count(r, -1)
              /\ UNCHANGED wiped

\* The DELETE removes whatever the counter holds by then.
Delete(r) == /\ Move(r, "deleting", "released")
             /\ slots' = [slots EXCEPT ![KeyOf[r]] = 0]
             /\ wiped' = wiped \cup {k \in {KeyOf[r]} : slots[k] # 0}

\* A command that raises, or a task cancelled while it awaits one: Redis has
\* applied the command or it has not, and no later command of the call is sent.
AcquireFails(r) == /\ \/ Move(r, "new", "refused") /\ UNCHANGED slots
                      \/ Move(r, "new", "leaked") /\ Count(r, 1)
                   /\ UNCHANGED wiped

RollBackFails(r) == /\ Move(r, "overLimit", "leaked")
                    /\ UNCHANGED <<slots, wiped>>

ReleaseFails(r) == /\ \/ Move(r, "held", "leaked") /\ UNCHANGED slots
                      \/ Move(r, "held", "released") /\ Count(r, -1)
                   /\ UNCHANGED wiped

DeleteFails(r) == /\ Move(r, "deleting", "released")
                  /\ UNCHANGED <<slots, wiped>>

\* The holder goes without calling release(): nothing else gives a slot back.
Abandon(r) == /\ Move(r, "held", "leaked")
              /\ UNCHANGED <<slots, wiped>>

Reliable(r) == Acquire(r) \/ RollBack(r) \/ Release(r) \/ Delete(r)

Faulty(r) == \/ AcquireFails(r) \/ RollBackFails(r) \/ ReleaseFails(r)
             \/ DeleteFails(r) \/ Abandon(r)

Next == \E r \in Requests : Reliable(r) \/ Faulty(r)

Spec == Init /\ [][Next]_vars

-----------------------------------------------------------------------------
TypeOK == /\ slots \in [Keys -> Int]
          /\ lease \in [Requests -> Stages]
          /\ wiped \in SUBSET Keys

\* The counter of a key never exceeds the requests that still owe it a DECR
\* (acquire, release): a key with nothing outstanding can always be used again.
NoPhantomSlots == \A k \in Keys : slots[k] <= Cardinality(Outstanding(k))

\* A release happens once per lease and every refused INCR is undone once: only
\* the unconditional DELETE of release() can make the counter differ from the
\* requests outstanding.
ExactUnlessWiped ==
    \A k \in Keys \ wiped : slots[k] = Cardinality(Outstanding(k))

\* On a key whose DELETE never removed a live count, at most Limit leases are
\* held together, in every interleaving and with any command failing.
LimitUnlessWiped ==
    \A k \in Keys \ wiped : Cardinality(Held(k)) <= Limit

\* docs/plan.md:1450, "max 3 active streaming requests per API key": at most Limit
\* leases are held together, on every key.
LimitHolds == \A k \in Keys : Cardinality(Held(k)) <= Limit

\* acquire() refuses a request only while Limit other requests of the same key
\* are outstanding; counts left behind by finished requests never cause a 429.
RefusedOnlyWhenFull ==
    [][\A r \in Requests :
         lease[r] = "new" /\ lease'[r] = "overLimit"
            => Cardinality(Outstanding(KeyOf[r])) >= Limit]_vars
=============================================================================
