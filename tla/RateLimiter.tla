----------------------------- MODULE RateLimiter -----------------------------
(***************************************************************************)
(* backend/services/rate_limit/rate_limiter.py: the overload gate and the  *)
(* requests-per-minute counter of an API key.  The first INCR of a window  *)
(* creates the key, a second command, EXPIRE, starts its 60 seconds, and   *)
(* Redis drops the key when they are over.  A minute is an event here: a   *)
(* window of a key ends whenever its expiry, once set, is taken.           *)
(***************************************************************************)
EXTENDS Settings

VARIABLES overloaded,  \* overload:global holds a truthy value
          rpm,         \* the counter of each key, 0 when the key is absent
          rpmTtl,      \* the counter has an expiry
          check,       \* how far each request has come
          window,      \* history: how many windows of each key have ended
          stamp        \* history: the window a request was counted in

vars == <<overloaded, rpm, rpmTtl, check, window, stamp>>

Stages == {"new",        \* nothing sent yet
           "gated",      \* check_overload() has returned
           "expiring",   \* first of its window: the EXPIRE is due
           "passed",     \* check_rpm() has returned
           "limited",    \* 429 rate_limit_exceeded
           "overload",   \* 503 server_overloaded
           "failed"}     \* 503 dependency_unavailable, or cancelled

NotCounted == -1

Counted(k) == {r \in On(k) : stamp[r] = window[k]}
Passed(k, w) == {r \in On(k) : check[r] = "passed" /\ stamp[r] = w}

Init == /\ overloaded = FALSE
        /\ rpm = [k \in Keys |-> 0]
        /\ rpmTtl = [k \in Keys |-> FALSE]
        /\ check = [r \in Requests |-> "new"]
        /\ window = [k \in Keys |-> 0]
        /\ stamp = [r \in Requests |-> NotCounted]

-----------------------------------------------------------------------------
Move(r, from, to) == /\ check[r] = from
                     /\ check' = [check EXCEPT ![r] = to]

\* GET overload:global, and the 503 when it is truthy.
CheckOverload(r) ==
    /\ Move(r, "new", IF overloaded THEN "overload" ELSE "gated")
    /\ UNCHANGED <<overloaded, rpm, rpmTtl, window, stamp>>

\* Mutant: the comparison is off by one, to either side.
MutVerdict(count) == IF count > RpmLimit + 1 THEN "limited" ELSE "passed"
MutVerdictEarly(count) == IF count >= RpmLimit THEN "limited" ELSE "passed"

Verdict(count) == IF count > RpmLimit THEN "limited" ELSE "passed"

Incr(r) == /\ rpm' = [rpm EXCEPT ![KeyOf[r]] = @ + 1]
           /\ stamp' = [stamp EXCEPT ![r] = window[KeyOf[r]]]
           /\ UNCHANGED <<overloaded, rpmTtl, window>>

\* Mutant: a window is only opened by the request that reaches the limit.
MutCount(r) ==
    LET count == rpm[KeyOf[r]] + 1 IN
    /\ Move(r, "gated", IF count = RpmLimit THEN "expiring" ELSE Verdict(count))
    /\ Incr(r)

\* INCR; the first of a window goes on to EXPIRE, the others to the verdict.
Count(r) ==
    LET count == rpm[KeyOf[r]] + 1 IN
    /\ Move(r, "gated", IF count = 1 THEN "expiring" ELSE Verdict(count))
    /\ Incr(r)

\* EXPIRE has an effect only on a key that is there.
SetExpiry(k) == /\ rpmTtl' = [rpmTtl EXCEPT ![k] = rpm[k] # 0]
                /\ UNCHANGED <<overloaded, rpm, window, stamp>>

Expire(r) == Move(r, "expiring", Verdict(1)) /\ SetExpiry(KeyOf[r])

\* A command that raises, or a task cancelled while it awaits one: applied or
\* not, and nothing further is sent.  A counted request is never uncounted.
CheckFails(r) ==
    /\ \E s \in {"new", "gated", "expiring"} : Move(r, s, "failed")
    /\ \/ UNCHANGED <<overloaded, rpm, rpmTtl, window, stamp>>
       \/ check[r] = "gated" /\ Incr(r)
       \/ check[r] = "expiring" /\ SetExpiry(KeyOf[r])

\* External: Redis drops a key whose 60 seconds are over.
WindowEnds(k) == /\ rpmTtl[k]
                 /\ rpm' = [rpm EXCEPT ![k] = 0]
                 /\ rpmTtl' = [rpmTtl EXCEPT ![k] = FALSE]
                 /\ window' = [window EXCEPT ![k] = @ + 1]
                 /\ UNCHANGED <<overloaded, check, stamp>>

\* External: an operator sets or clears overload:global; no code under src/ does.
SetOverload == /\ overloaded' = ~overloaded
               /\ UNCHANGED <<rpm, rpmTtl, check, window, stamp>>

Reliable(r) == CheckOverload(r) \/ Count(r) \/ Expire(r)

Next == \/ \E r \in Requests : Reliable(r) \/ CheckFails(r)
        \/ \E k \in Keys : WindowEnds(k)
        \/ SetOverload

Spec == Init /\ [][Next]_vars

-----------------------------------------------------------------------------
TypeOK == /\ overloaded \in BOOLEAN
          /\ rpm \in [Keys -> Nat]
          /\ rpmTtl \in [Keys -> BOOLEAN]
          /\ check \in [Requests -> Stages]
          /\ window \in [Keys -> Nat]
          /\ stamp \in [Requests -> Nat \cup {NotCounted}]

\* check_rpm() lets at most RpmLimit requests of a key through in one window,
\* whatever the interleaving and whichever command fails.
WindowLimit == \A k \in Keys : \A w \in 0 .. window[k] :
                   Cardinality(Passed(k, w)) <= RpmLimit

\* A key can lack an expiry only while the request that opened its window has
\* the EXPIRE before it, or because that request failed: no interleaving of
\* requests that Redis answers leaves a counter without an end.
ImmortalOnlyByFault ==
    \A k \in Keys : rpm[k] # 0 /\ ~rpmTtl[k]
        => \E r \in Counted(k) : check[r] \in {"expiring", "failed"}

\* A 429 means that RpmLimit other requests were counted in this very window:
\* no request is refused for the traffic of an earlier minute.
LimitedByThisWindow ==
    [][\A r \in Requests :
         check[r] = "gated" /\ check'[r] = "limited"
            => Cardinality(Counted(KeyOf[r])) >= RpmLimit]_vars
=============================================================================
