--------------------------- MODULE Admission_proofs ---------------------------
(***************************************************************************)
(* Proofs about the three limiters as admit() and the lease it returns     *)
(* drive them, for every set of keys, every finite set of requests and     *)
(* every limit.  The RPM limiter is proved first, for any caller (RL!Spec);*)
(* the theorems of the other two come from their own modules of proofs.    *)
(***************************************************************************)
EXTENDS Admission, FiniteSetTheorems, TLAPS

Leases == INSTANCE ConcurrencyLimiter_proofs
Tokens == INSTANCE QuotaReserver_proofs

\* Settings is instanced with each component: its sets have the same sizes in each.
LEMMA SameCount ==
    ASSUME NEW S PROVE RL!Cardinality(S) = Cardinality(S)
BY DEF RL!Cardinality, Cardinality

-----------------------------------------------------------------------------
(* Type correctness.                                                       *)

\* Every step keeps counters, stages and history within their types.
LEMMA TypeStep == RL!TypeOK /\ [RL!Next]_(RL!vars) => RL!TypeOK'
<1> SUFFICES ASSUME RL!TypeOK, [RL!Next]_(RL!vars)
             PROVE  RL!TypeOK'
  OBVIOUS
<1> USE SettingsAssumption DEF RL!TypeOK, RL!Stages, RL!NotCounted
<1>1. ASSUME NEW r \in Requests, RL!CheckOverload(r)
      PROVE  RL!TypeOK'
  BY <1>1 DEF RL!CheckOverload, RL!Move
<1>2. ASSUME NEW r \in Requests, RL!Count(r)
      PROVE  RL!TypeOK'
  BY <1>2 DEF RL!Count, RL!Move, RL!Incr, RL!Verdict
<1>3. ASSUME NEW r \in Requests, RL!Expire(r)
      PROVE  RL!TypeOK'
  BY <1>3 DEF RL!Expire, RL!Move, RL!SetExpiry, RL!Verdict
<1>4. ASSUME NEW r \in Requests, RL!CheckFails(r)
      PROVE  RL!TypeOK'
  <2>1. check' \in [Requests -> RL!Stages]
    BY <1>4 DEF RL!CheckFails, RL!Move
  <2>2. CASE UNCHANGED <<overloaded, rpm, rpmTtl, window, stamp>>
    BY <2>1, <2>2
  <2>3. CASE RL!Incr(r)
    BY <2>1, <2>3 DEF RL!Incr
  <2>4. CASE RL!SetExpiry(KeyOf[r])
    BY <2>1, <2>4 DEF RL!SetExpiry
  <2>. QED  BY <1>4, <2>2, <2>3, <2>4 DEF RL!CheckFails
<1>5. ASSUME NEW k \in Keys, RL!WindowEnds(k)
      PROVE  RL!TypeOK'
  BY <1>5 DEF RL!WindowEnds
<1>6. CASE RL!SetOverload
  BY <1>6 DEF RL!SetOverload
<1>7. CASE UNCHANGED RL!vars
  BY <1>7 DEF RL!vars
<1>. QED  BY <1>1, <1>2, <1>3, <1>4, <1>5, <1>6, <1>7 DEF RL!Next, RL!Reliable

\* The initial state has the declared types.
LEMMA TypeInit == RL!Init => RL!TypeOK
<1> SUFFICES ASSUME RL!Init
             PROVE  RL!TypeOK
  OBVIOUS
<1>1. stamp \in [Requests -> Nat \cup {RL!NotCounted}]
  BY DEF RL!Init
<1>2. check \in [Requests -> RL!Stages]
  BY DEF RL!Init, RL!Stages
<1>3. rpm \in [Keys -> Nat] /\ window \in [Keys -> Nat]
  BY DEF RL!Init
<1>4. overloaded \in BOOLEAN /\ rpmTtl \in [Keys -> BOOLEAN]
  BY DEF RL!Init
<1>. QED  BY <1>1, <1>2, <1>3, <1>4 DEF RL!TypeOK

\* The state variables of the rate limiter always have their declared types.
LEMMA ChecksTyped == RL!Spec => []RL!TypeOK
<1>. QED  BY TypeInit, TypeStep, PTL DEF RL!Spec

-----------------------------------------------------------------------------
(* What each step does to counters, stages and stamps, whichever command it *)
(* is the outcome of.                                                      *)

\* The request moves, and no counter and no stamp changes.
Passes(r) ==
    /\ UNCHANGED <<rpm, window, stamp>>
    /\ \/ /\ check[r] \in {"new", "gated", "expiring"}
          /\ check' = [check EXCEPT ![r] = "failed"]
       \/ /\ check[r] = "new"
          /\ \E s \in {"gated", "overload"} : check' = [check EXCEPT ![r] = s]
       \/ /\ check[r] = "expiring"
          /\ check' = [check EXCEPT ![r] = RL!Verdict(1)]

\* The request is counted, and its stage follows from the count or is "failed".
Counts(r) ==
    /\ check[r] = "gated"
    /\ rpm' = [rpm EXCEPT ![KeyOf[r]] = @ + 1]
    /\ stamp' = [stamp EXCEPT ![r] = window[KeyOf[r]]]
    /\ UNCHANGED window
    /\ \E s \in {"failed",
                 IF rpm[KeyOf[r]] = 0 THEN "expiring" ELSE RL!Verdict(rpm[KeyOf[r]] + 1)} :
          check' = [check EXCEPT ![r] = s]

\* The counter of a key is dropped and its next window begins.
Restarts(k) ==
    /\ rpm' = [rpm EXCEPT ![k] = 0]
    /\ window' = [window EXCEPT ![k] = @ + 1]
    /\ UNCHANGED <<check, stamp>>

\* Every step of the limiter is one of these three, or moves nothing they name.
LEMMA StepShape ==
    ASSUME RL!TypeOK, [RL!Next]_(RL!vars)
    PROVE  \/ \E r \in Requests : Passes(r) \/ Counts(r)
           \/ \E k \in Keys : Restarts(k)
           \/ UNCHANGED <<rpm, check, window, stamp>>
<1>1. ASSUME NEW r \in Requests, RL!CheckOverload(r)
      PROVE  Passes(r)
  BY <1>1 DEF RL!CheckOverload, RL!Move, Passes
<1>2. ASSUME NEW r \in Requests, RL!Count(r)
      PROVE  Counts(r)
  <2>1. rpm[KeyOf[r]] \in Nat
    BY SettingsAssumption DEF RL!TypeOK
  <2>2. rpm[KeyOf[r]] + 1 = 1 <=> rpm[KeyOf[r]] = 0
    BY <2>1
  <2>. QED  BY <1>2, <2>2 DEF RL!Count, RL!Move, RL!Incr, Counts
<1>3. ASSUME NEW r \in Requests, RL!Expire(r)
      PROVE  Passes(r)
  BY <1>3 DEF RL!Expire, RL!Move, RL!SetExpiry, Passes
<1>4. ASSUME NEW r \in Requests, RL!CheckFails(r)
      PROVE  Passes(r) \/ Counts(r)
  BY <1>4 DEF RL!CheckFails, RL!Move, RL!Incr, RL!SetExpiry, Passes, Counts
<1>5. ASSUME NEW k \in Keys, RL!WindowEnds(k)
      PROVE  Restarts(k)
  BY <1>5 DEF RL!WindowEnds, Restarts
<1>6. CASE RL!SetOverload
  BY <1>6 DEF RL!SetOverload
<1>7. CASE UNCHANGED RL!vars
  BY <1>7 DEF RL!vars
<1>. QED  BY <1>1, <1>2, <1>3, <1>4, <1>5, <1>6, <1>7 DEF RL!Next, RL!Reliable

-----------------------------------------------------------------------------
(* The counter of a key is explained by the requests counted in its window. *)

\* A request is stamped when it is counted, with a window that had begun by then.
Stamped == /\ \A r \in Requests : check[r] \in {"new", "gated"} => stamp[r] = RL!NotCounted
           /\ \A r \in Requests : stamp[r] <= window[KeyOf[r]]

\* The counter does not exceed the number of requests counted in the window.
RpmExplained == \A k \in Keys : rpm[k] <= Cardinality(RL!Counted(k))

\* The sets the bounds speak of are finite.
LEMMA OnFinite ==
    ASSUME NEW k, NEW S, S \subseteq RL!On(k)
    PROVE  IsFiniteSet(S) /\ Cardinality(S) \in Nat
<1>1. S \subseteq Requests
  BY DEF RL!On
<1>. QED  BY <1>1, SettingsAssumption, FS_Subset, FS_CardinalityType

\* Stamps are given once, and never from a window that has not begun.
LEMMA StampedStep == RL!TypeOK /\ Stamped /\ [RL!Next]_(RL!vars) => Stamped'
<1> SUFFICES ASSUME RL!TypeOK, Stamped, [RL!Next]_(RL!vars)
             PROVE  Stamped'
  OBVIOUS
<1> USE SettingsAssumption DEF RL!TypeOK, Stamped
<1>1. ASSUME NEW r \in Requests, Passes(r)
      PROVE  Stamped'
  BY <1>1 DEF Passes, RL!Verdict
<1>2. ASSUME NEW r \in Requests, Counts(r)
      PROVE  Stamped'
  <2>1. PICK s \in {"failed", "expiring", "limited", "passed"} :
           check' = [check EXCEPT ![r] = s]
    BY <1>2 DEF Counts, RL!Verdict
  <2>2. /\ stamp' = [stamp EXCEPT ![r] = window[KeyOf[r]]]
        /\ window' = window /\ window[KeyOf[r]] \in Nat
    BY <1>2 DEF Counts
  <2>. QED  BY <2>1, <2>2
<1>3. ASSUME NEW k \in Keys, Restarts(k)
      PROVE  Stamped'
  <2>1. \A j \in Keys : window[j] \in Nat /\ window[j] <= window'[j]
    BY <1>3 DEF Restarts
  <2>2. \A r \in Requests : stamp[r] \in Int /\ stamp[r] <= window'[KeyOf[r]]
    <3> TAKE r \in Requests
    <3>1. /\ stamp[r] \in Int /\ window[KeyOf[r]] \in Nat
          /\ window[KeyOf[r]] <= window'[KeyOf[r]] /\ window'[KeyOf[r]] \in Int
      BY <1>3, <2>1 DEF Restarts, RL!NotCounted
    <3>. QED  BY <3>1
  <2>. QED  BY <1>3, <2>2 DEF Restarts
<1>4. CASE UNCHANGED <<rpm, check, window, stamp>>
  BY <1>4
<1>. QED  BY <1>1, <1>2, <1>3, <1>4, StepShape

\* A key whose counter, window and stamps do not change keeps its count explained.
LEMMA SameCounted ==
    ASSUME RL!TypeOK, RpmExplained, NEW k \in Keys,
           rpm'[k] = rpm[k], RL!Counted(k)' = RL!Counted(k)
    PROVE  rpm'[k] <= Cardinality(RL!Counted(k)')
  BY DEF RpmExplained

\* Every step keeps the counters explained.
LEMMA ExplainedStep == RL!TypeOK /\ Stamped /\ RpmExplained /\ [RL!Next]_(RL!vars) => RpmExplained'
<1> SUFFICES ASSUME RL!TypeOK, Stamped, RpmExplained, [RL!Next]_(RL!vars)
             PROVE  RpmExplained'
  OBVIOUS
<1>1. ASSUME UNCHANGED <<rpm, window, stamp>>
      PROVE  RpmExplained'
  BY <1>1 DEF RpmExplained, RL!Counted, RL!On
<1>2. ASSUME NEW r \in Requests, Counts(r)
      PROVE  RpmExplained'
  <2>. DEFINE key == KeyOf[r]
  <2>1. /\ key \in Keys /\ rpm[key] \in Nat /\ window[key] \in Nat
        /\ stamp[r] = RL!NotCounted
    BY <1>2, SettingsAssumption DEF RL!TypeOK, Stamped, Counts
  <2>2. /\ rpm' = [rpm EXCEPT ![key] = @ + 1] /\ window' = window
        /\ stamp' = [stamp EXCEPT ![r] = window[key]]
    BY <1>2 DEF Counts
  <2>3. rpm'[key] = rpm[key] + 1 /\ \A k \in Keys \ {key} : rpm'[k] = rpm[k]
    BY <2>1, <2>2 DEF RL!TypeOK
  <2>4. \A k \in Keys \ {key} : RL!Counted(k)' = RL!Counted(k)
    BY <2>2 DEF RL!Counted, RL!On, RL!TypeOK
  <2>5. RL!Counted(key)' = RL!Counted(key) \cup {r} /\ r \notin RL!Counted(key)
    BY <2>1, <2>2 DEF RL!Counted, RL!On, RL!TypeOK, RL!NotCounted
  <2>6. RL!Counted(key) \subseteq RL!On(key)
    BY DEF RL!Counted
  <2>7. Cardinality(RL!Counted(key)') = Cardinality(RL!Counted(key)) + 1
    BY <2>5, <2>6, OnFinite, FS_AddElement
  <2>8. rpm'[key] <= Cardinality(RL!Counted(key)')
    <3>1. Cardinality(RL!Counted(key)) \in Nat
      BY <2>6, OnFinite
    <3>. QED  BY <2>1, <2>3, <2>7, <3>1 DEF RpmExplained
  <2>9. \A k \in Keys \ {key} : rpm'[k] <= Cardinality(RL!Counted(k)')
    BY <2>3, <2>4, SameCounted
  <2>. QED  BY <2>8, <2>9 DEF RpmExplained
<1>3. ASSUME NEW k \in Keys, Restarts(k)
      PROVE  RpmExplained'
  <2>1. rpm'[k] = 0 /\ \A j \in Keys \ {k} : rpm'[j] = rpm[j] /\ window'[j] = window[j]
    BY <1>3 DEF Restarts, RL!TypeOK
  <2>2. Cardinality(RL!Counted(k)') \in Nat
    <3>1. RL!Counted(k)' \subseteq RL!On(k)
      BY DEF RL!Counted, RL!On
    <3>. QED  BY <3>1, OnFinite
  <2>3. \A j \in Keys \ {k} : RL!Counted(j)' = RL!Counted(j)
    BY <1>3, <2>1 DEF RL!Counted, RL!On, Restarts
  <2>4. \A j \in Keys \ {k} : rpm'[j] <= Cardinality(RL!Counted(j)')
    BY <2>1, <2>3, SameCounted
  <2>5. rpm'[k] <= Cardinality(RL!Counted(k)')
    BY <2>1, <2>2
  <2>. QED  BY <2>4, <2>5 DEF RpmExplained
<1>4. ASSUME NEW r \in Requests, Passes(r)
      PROVE  RpmExplained'
  BY <1>1, <1>4 DEF Passes
<1>. QED  BY <1>1, <1>2, <1>3, <1>4, StepShape

\* Nothing is counted before the first request.
LEMMA ExplainedInit == RL!Init => RL!TypeOK /\ Stamped /\ RpmExplained
<1> SUFFICES ASSUME RL!Init
             PROVE  RL!TypeOK /\ Stamped /\ RpmExplained
  OBVIOUS
<1>1. RL!TypeOK
  BY TypeInit
<1>2. Stamped
  BY SettingsAssumption DEF RL!Init, Stamped, RL!NotCounted
<1>3. RpmExplained
  <2>1. \A k \in Keys : RL!Counted(k) \subseteq RL!On(k)
    BY DEF RL!Counted
  <2>2. \A k \in Keys : Cardinality(RL!Counted(k)) \in Nat /\ rpm[k] = 0
    BY <2>1, OnFinite DEF RL!Init
  <2>. QED  BY <2>2 DEF RpmExplained
<1>. QED  BY <1>1, <1>2, <1>3

\* A request that is refused by check_rpm() finds a counter above the limit, and
\* so RpmLimit requests counted in this window.
LEMMA RefusalStep ==
    ASSUME RL!TypeOK, Stamped, RpmExplained, [RL!Next]_(RL!vars),
           NEW r \in Requests, check[r] = "gated", check'[r] = "limited"
    PROVE  Cardinality(RL!Counted(KeyOf[r])) >= RpmLimit
<1>. DEFINE key == KeyOf[r]
<1>1. ASSUME NEW q \in Requests, Passes(q)
      PROVE  FALSE
  <2>1. PICK s \in {"failed", "gated", "overload"} :
           \/ check' = [check EXCEPT ![q] = s]
           \/ check[q] = "expiring" /\ check' = [check EXCEPT ![q] = RL!Verdict(1)]
    BY <1>1 DEF Passes
  <2>. QED  BY <2>1 DEF RL!TypeOK
<1>2. ASSUME NEW q \in Requests, Counts(q)
      PROVE  Cardinality(RL!Counted(key)) >= RpmLimit
  <2>1. q = r
    BY <1>2 DEF Counts, RL!TypeOK
  <2>2. PICK s \in {"failed", IF rpm[key] = 0 THEN "expiring" ELSE RL!Verdict(rpm[key] + 1)} :
           check' = [check EXCEPT ![r] = s]
    BY <1>2, <2>1 DEF Counts
  <2>3. s = "limited"
    BY <2>2 DEF RL!TypeOK
  <2>4. RL!Verdict(rpm[key] + 1) = "limited"
    BY <2>2, <2>3
  <2>5. rpm[key] + 1 > RpmLimit
    BY <2>4 DEF RL!Verdict
  <2>6. RL!Counted(key) \subseteq RL!On(key) /\ key \in Keys
    BY SettingsAssumption DEF RL!Counted
  <2>7. Cardinality(RL!Counted(key)) \in Nat /\ rpm[key] \in Nat /\ RpmLimit \in Nat
    BY <2>6, OnFinite, SettingsAssumption DEF RL!TypeOK
  <2>8. rpm[key] <= Cardinality(RL!Counted(key))
    BY <2>6 DEF RpmExplained
  <2>. QED  BY <2>5, <2>7, <2>8
<1>3. ASSUME NEW k \in Keys, Restarts(k)
      PROVE  FALSE
  BY <1>3 DEF Restarts
<1>4. CASE UNCHANGED <<rpm, check, window, stamp>>
  BY <1>4
<1>. QED  BY <1>1, <1>2, <1>3, <1>4, StepShape

\* A 429 is only given when RpmLimit requests were counted in the same window.
LEMMA RefusalsExplained == RL!Spec => RL!LimitedByThisWindow
<1>. DEFINE Refusals == \A r \in Requests :
                            check[r] = "gated" /\ check'[r] = "limited"
                               => Cardinality(RL!Counted(KeyOf[r])) >= RpmLimit
<1>1. RL!TypeOK /\ Stamped /\ RpmExplained /\ [RL!Next]_(RL!vars)
         => RL!TypeOK' /\ Stamped' /\ RpmExplained'
  BY TypeStep, StampedStep, ExplainedStep
<1>2. RL!TypeOK /\ Stamped /\ RpmExplained /\ [RL!Next]_(RL!vars) => [Refusals]_(RL!vars)
  BY RefusalStep
<1>3. [Refusals]_(RL!vars)
         => [\A r \in Requests : check[r] = "gated" /\ check'[r] = "limited"
               => RL!Cardinality(RL!Counted(KeyOf[r])) >= RpmLimit]_(RL!vars)
  BY SameCount
<1>. QED  BY <1>1, <1>2, <1>3, ExplainedInit, PTL DEF RL!Spec, RL!LimitedByThisWindow

-----------------------------------------------------------------------------
(* The limit of a window.                                                  *)

\* The requests that have, or will have, their verdict "passed" from window w.
Slots(k, w) ==
    {r \in RL!On(k) : /\ stamp[r] = w
                   /\ \/ check[r] = "passed"
                      \/ check[r] = "expiring" /\ RL!Verdict(1) = "passed"}

\* No window has more than RpmLimit of them, and the current one has no more than
\* its counter has counted, so that the next count speaks for all of them.
SlotsBounded ==
    \A k \in Keys, w \in Nat :
        /\ w = window[k] => Cardinality(Slots(k, w)) <= rpm[k]
        /\ w <= window[k] => Cardinality(Slots(k, w)) <= RpmLimit

\* The slots of a window are finitely many.
LEMMA SlotsFinite ==
    ASSUME NEW k, NEW w
    PROVE  IsFiniteSet(Slots(k, w)) /\ Cardinality(Slots(k, w)) \in Nat
<1>1. Slots(k, w) \subseteq RL!On(k)
  BY DEF Slots
<1>. QED  BY <1>1, OnFinite

\* A window that gets no new slot, of a key that loses no count, keeps its bounds.
LEMMA NoNewSlot ==
    ASSUME RL!TypeOK, SlotsBounded, NEW k \in Keys, NEW w \in Nat,
           window'[k] = window[k], rpm[k] <= rpm'[k], rpm'[k] \in Nat,
           Slots(k, w)' \subseteq Slots(k, w)
    PROVE  /\ w = window'[k] => Cardinality(Slots(k, w)') <= rpm'[k]
           /\ w <= window'[k] => Cardinality(Slots(k, w)') <= RpmLimit
<1>. DEFINE before == Cardinality(Slots(k, w))
            after == Cardinality(Slots(k, w)')
<1>1. IsFiniteSet(Slots(k, w)) /\ before \in Nat
  BY SlotsFinite
<1>2. IsFiniteSet(Slots(k, w)') /\ after <= before
  BY <1>1, FS_Subset
<1>3. after \in Nat
  BY <1>2, FS_CardinalityType
<1>4. /\ w = window[k] => before <= rpm[k]
      /\ w <= window[k] => before <= RpmLimit
  BY DEF SlotsBounded
<1>5. rpm[k] \in Nat /\ RpmLimit \in Nat
  BY SettingsAssumption DEF RL!TypeOK
<1>. HIDE DEF before, after
<1>6. /\ w = window'[k] => after <= rpm'[k]
      /\ w <= window'[k] => after <= RpmLimit
  BY <1>1, <1>2, <1>3, <1>4, <1>5
<1>. QED  BY <1>6 DEF after

\* A request that passes from the stage "expiring" had its slot already.
LEMMA PassesKeepsSlots ==
    ASSUME RL!TypeOK, NEW r \in Requests, Passes(r), NEW k, NEW w
    PROVE  Slots(k, w)' \subseteq Slots(k, w)
<1>1. stamp' = stamp
  BY DEF Passes
<1>2. CASE check[r] = "expiring" /\ check' = [check EXCEPT ![r] = RL!Verdict(1)]
  BY <1>1, <1>2 DEF Slots, RL!On, RL!TypeOK, RL!Verdict
<1>3. CASE \E s \in {"failed", "gated", "overload"} : check' = [check EXCEPT ![r] = s]
  BY <1>1, <1>3 DEF Slots, RL!On, RL!TypeOK
<1>. QED  BY <1>2, <1>3 DEF Passes

\* A request that is counted and given a slot read a counter below the limit.
LEMMA SlotGrant ==
    ASSUME RL!TypeOK, SlotsBounded, NEW k \in Keys, NEW w \in Nat, NEW r,
           window'[k] = w, window[k] = w, rpm'[k] = rpm[k] + 1,
           rpm[k] + 1 <= RpmLimit,
           Slots(k, w)' \subseteq Slots(k, w) \cup {r}
    PROVE  /\ w = window'[k] => Cardinality(Slots(k, w)') <= rpm'[k]
           /\ w <= window'[k] => Cardinality(Slots(k, w)') <= RpmLimit
<1>. DEFINE before == Cardinality(Slots(k, w))
            with == Cardinality(Slots(k, w) \cup {r})
            after == Cardinality(Slots(k, w)')
<1>1. IsFiniteSet(Slots(k, w)) /\ before \in Nat
  BY SlotsFinite
<1>2. IsFiniteSet(Slots(k, w) \cup {r}) /\ (with = before \/ with = before + 1)
  BY <1>1, FS_AddElement
<1>3. IsFiniteSet(Slots(k, w)') /\ after <= with
  BY <1>2, FS_Subset
<1>4. after \in Nat
  BY <1>3, FS_CardinalityType
<1>5. before <= rpm[k]
  BY DEF SlotsBounded
<1>6. rpm[k] \in Nat /\ RpmLimit \in Nat
  BY SettingsAssumption DEF RL!TypeOK
<1>. HIDE DEF before, with, after
<1>7. after <= rpm'[k] /\ after <= RpmLimit
  BY <1>1, <1>2, <1>3, <1>4, <1>5, <1>6
<1>. QED  BY <1>7 DEF after

\* A request that is counted gets a slot in the current window or none.
LEMMA CountsGrant ==
    ASSUME RL!TypeOK, SlotsBounded, NEW r \in Requests, Counts(r)
    PROVE  SlotsBounded'
<1>. DEFINE key == KeyOf[r]
<1> SUFFICES ASSUME NEW k \in Keys, NEW w \in Nat
             PROVE  /\ w = window'[k] => Cardinality(Slots(k, w)') <= rpm'[k]
                    /\ w <= window'[k] => Cardinality(Slots(k, w)') <= RpmLimit
  BY DEF SlotsBounded
<1>1. /\ key \in Keys /\ rpm[key] \in Nat /\ rpm[k] \in Nat /\ RpmLimit \in Nat
      /\ check[r] = "gated" /\ window' = window
  BY SettingsAssumption DEF RL!TypeOK, Counts
<1>2. /\ rpm'[key] = rpm[key] + 1 /\ (k # key => rpm'[k] = rpm[k])
      /\ stamp' = [stamp EXCEPT ![r] = window[key]]
  BY <1>1 DEF Counts, RL!TypeOK
<1>3. PICK s \in {"failed", IF rpm[key] = 0 THEN "expiring" ELSE RL!Verdict(rpm[key] + 1)} :
         check' = [check EXCEPT ![r] = s]
  BY DEF Counts
<1>4. rpm'[k] \in Nat /\ rpm[k] <= rpm'[k]
  BY <1>1, <1>2
<1>5. CASE k # key \/ w # window[key]
  <2>1. Slots(k, w)' \subseteq Slots(k, w)
    BY <1>1, <1>2, <1>3, <1>5 DEF Slots, RL!On, RL!TypeOK
  <2>. QED  BY <1>1, <1>4, <2>1, NoNewSlot
<1>6. CASE k = key /\ w = window[key] /\ RL!Verdict(rpm[key] + 1) = "passed"
  <2>1. rpm[key] + 1 <= RpmLimit
    BY <1>1, <1>6 DEF RL!Verdict
  <2>2. Slots(k, w)' \subseteq Slots(k, w) \cup {r}
    BY <1>1, <1>2, <1>3, <1>6 DEF Slots, RL!On, RL!TypeOK
  <2>. QED  BY <1>1, <1>2, <1>6, <2>1, <2>2, SlotGrant
<1>7. CASE k = key /\ w = window[key] /\ RL!Verdict(rpm[key] + 1) # "passed"
  <2>1. s \in {"failed", "limited"} \/ (s = "expiring" /\ RL!Verdict(1) # "passed")
    BY <1>1, <1>3, <1>7 DEF RL!Verdict
  <2>2. Slots(k, w)' \subseteq Slots(k, w)
    BY <1>1, <1>2, <1>3, <2>1 DEF Slots, RL!On, RL!TypeOK
  <2>. QED  BY <1>1, <1>4, <2>2, NoNewSlot
<1>. QED  BY <1>5, <1>6, <1>7

\* A window that begins has no slots yet: no stamp is from the future.
LEMMA RestartsEmpty ==
    ASSUME RL!TypeOK, Stamped, SlotsBounded, NEW j \in Keys, Restarts(j)
    PROVE  SlotsBounded'
<1> SUFFICES ASSUME NEW k \in Keys, NEW w \in Nat
             PROVE  /\ w = window'[k] => Cardinality(Slots(k, w)') <= rpm'[k]
                    /\ w <= window'[k] => Cardinality(Slots(k, w)') <= RpmLimit
  BY DEF SlotsBounded
<1>1. Slots(k, w)' = Slots(k, w)
  BY DEF Restarts, Slots, RL!On
<1>2. CASE k # j
  <2>1. window'[k] = window[k] /\ rpm'[k] = rpm[k] /\ rpm[k] \in Nat
    BY <1>2 DEF Restarts, RL!TypeOK
  <2>. QED  BY <1>1, <2>1, NoNewSlot
<1>3. CASE k = j
  <2>1. window[k] \in Nat /\ window'[k] = window[k] + 1 /\ rpm'[k] = 0 /\ RpmLimit \in Nat
    BY <1>3, SettingsAssumption DEF Restarts, RL!TypeOK
  <2>2. CASE w = window[k] + 1
    <3>1. \A r \in RL!On(k) : stamp[r] \in Int /\ stamp[r] <= window[k]
      BY DEF RL!On, Stamped, RL!TypeOK, RL!NotCounted
    <3>2. Slots(k, w) = {}
      BY <2>1, <2>2, <3>1 DEF Slots
    <3>3. Cardinality(Slots(k, w)') = 0
      BY <1>1, <3>2, FS_EmptySet
    <3>. QED  BY <2>1, <3>3
  <2>3. CASE w # window[k] + 1
    <3>1. w <= window[k] => Cardinality(Slots(k, w)) <= RpmLimit
      BY DEF SlotsBounded
    <3>2. w <= window'[k] => w <= window[k]
      BY <2>1, <2>3
    <3>. QED  BY <1>1, <2>1, <2>3, <3>1, <3>2
  <2>. QED  BY <2>2, <2>3
<1>. QED  BY <1>2, <1>3

\* Every step keeps the slots of every window bounded.
LEMMA SlotsStep == RL!TypeOK /\ Stamped /\ SlotsBounded /\ [RL!Next]_(RL!vars) => SlotsBounded'
<1> SUFFICES ASSUME RL!TypeOK, Stamped, SlotsBounded, [RL!Next]_(RL!vars)
             PROVE  SlotsBounded'
  OBVIOUS
<1>1. ASSUME NEW r \in Requests, Passes(r)
      PROVE  SlotsBounded'
  <2> SUFFICES ASSUME NEW k \in Keys, NEW w \in Nat
               PROVE  /\ w = window'[k] => Cardinality(Slots(k, w)') <= rpm'[k]
                      /\ w <= window'[k] => Cardinality(Slots(k, w)') <= RpmLimit
    BY DEF SlotsBounded
  <2>1. Slots(k, w)' \subseteq Slots(k, w)
    BY <1>1, PassesKeepsSlots
  <2>2. window' = window /\ rpm[k] <= rpm'[k] /\ rpm'[k] \in Nat
    BY <1>1 DEF Passes, RL!TypeOK
  <2>. QED  BY <2>1, <2>2, NoNewSlot
<1>2. ASSUME NEW r \in Requests, Counts(r)
      PROVE  SlotsBounded'
  BY <1>2, CountsGrant
<1>3. ASSUME NEW k \in Keys, Restarts(k)
      PROVE  SlotsBounded'
  BY <1>3, RestartsEmpty
<1>4. CASE UNCHANGED <<rpm, check, window, stamp>>
  BY <1>4 DEF SlotsBounded, Slots, RL!On
<1>. QED  BY <1>1, <1>2, <1>3, <1>4, StepShape

\* No window has slots before the first request.
LEMMA SlotsInit == RL!Init => SlotsBounded
<1> SUFFICES ASSUME RL!Init
             PROVE  SlotsBounded
  OBVIOUS
<1>1. \A k, w : Slots(k, w) = {}
  BY DEF RL!Init, Slots, RL!On
<1>2. Cardinality({}) = 0
  BY FS_EmptySet
<1>. QED  BY <1>1, <1>2, SettingsAssumption DEF RL!Init, SlotsBounded

\* The requests that have passed in a window are among its slots.
LEMMA PassedHasSlot == RL!TypeOK /\ SlotsBounded => RL!WindowLimit
<1> SUFFICES ASSUME RL!TypeOK, SlotsBounded, NEW k \in Keys, NEW w \in 0 .. window[k]
             PROVE  RL!Cardinality(RL!Passed(k, w)) <= RpmLimit
  BY DEF RL!WindowLimit
<1>. w \in Nat /\ w <= window[k]
  BY DEF RL!TypeOK
<1>1. RL!Passed(k, w) \subseteq Slots(k, w) /\ RL!Passed(k, w) \subseteq RL!On(k)
  BY DEF RL!Passed, Slots
<1>2. Cardinality(RL!Passed(k, w)) <= Cardinality(Slots(k, w))
  BY <1>1, SlotsFinite, FS_Subset
<1>3. Cardinality(Slots(k, w)) <= RpmLimit
  BY DEF SlotsBounded
<1>4. Cardinality(RL!Passed(k, w)) <= RpmLimit
  BY <1>1, <1>2, <1>3, SlotsFinite, OnFinite, SettingsAssumption
<1>. QED  BY <1>4, SameCount

\* At most RpmLimit requests of a key pass in any one of its windows.
LEMMA PassedLimited == RL!Spec => []RL!WindowLimit
<1>1. RL!Init => RL!TypeOK /\ Stamped /\ SlotsBounded
  BY ExplainedInit, SlotsInit
<1>2. RL!TypeOK /\ Stamped /\ SlotsBounded /\ [RL!Next]_(RL!vars)
         => RL!TypeOK' /\ Stamped' /\ SlotsBounded'
  BY TypeStep, StampedStep, SlotsStep
<1>. QED  BY <1>1, <1>2, PassedHasSlot, PTL DEF RL!Spec

-----------------------------------------------------------------------------
(* Counters without an end.                                                *)

\* A step of a request on its way, or of Redis, leaves no new counter without an
\* expiry, except by a request that is to send the EXPIRE or has failed.
LEMMA ImmortalStep ==
    RL!TypeOK /\ RL!ImmortalOnlyByFault /\ [RL!Next]_(RL!vars) => RL!ImmortalOnlyByFault'
<1> SUFFICES ASSUME RL!TypeOK, RL!ImmortalOnlyByFault, [RL!Next]_(RL!vars),
                    NEW k \in Keys, rpm'[k] # 0, ~rpmTtl'[k]
             PROVE  \E r \in RL!Counted(k)' : check'[r] \in {"expiring", "failed"}
  BY DEF RL!ImmortalOnlyByFault
<1> USE SettingsAssumption
<1>1. ASSUME NEW r \in Requests, NEW s \in RL!Stages,
             rpm' = rpm, rpmTtl' = rpmTtl, window' = window, stamp' = stamp,
             check' = [check EXCEPT ![r] = s],
             check[r] \in {"expiring", "failed"} => s = "failed"
      PROVE  \E q \in RL!Counted(k)' : check'[q] \in {"expiring", "failed"}
  <2>1. PICK q \in RL!Counted(k) : check[q] \in {"expiring", "failed"}
    BY <1>1 DEF RL!ImmortalOnlyByFault
  <2>2. q \in RL!Counted(k)' /\ check'[q] \in {"expiring", "failed"}
    BY <1>1, <2>1 DEF RL!Counted, RL!On, RL!TypeOK
  <2>. QED  BY <2>2
<1>2. ASSUME NEW r \in Requests, NEW s \in RL!Stages,
             check[r] = "gated", check' = [check EXCEPT ![r] = s], RL!Incr(r),
             rpm[KeyOf[r]] = 0 => s \in {"expiring", "failed"}
      PROVE  \E q \in RL!Counted(k)' : check'[q] \in {"expiring", "failed"}
  <2>1. /\ stamp' = [stamp EXCEPT ![r] = window[KeyOf[r]]] /\ window' = window
        /\ rpmTtl' = rpmTtl /\ rpm' = [rpm EXCEPT ![KeyOf[r]] = @ + 1]
    BY <1>2 DEF RL!Incr
  <2>2. CASE rpm[k] = 0
    <3>1. KeyOf[r] = k
      BY <2>1, <2>2 DEF RL!TypeOK
    <3>2. r \in RL!Counted(k)' /\ check'[r] \in {"expiring", "failed"}
      BY <1>2, <2>1, <2>2, <3>1 DEF RL!Counted, RL!On, RL!TypeOK
    <3>. QED  BY <3>2
  <2>3. CASE rpm[k] # 0
    <3>1. PICK q \in RL!Counted(k) : check[q] \in {"expiring", "failed"}
      BY <2>1, <2>3 DEF RL!ImmortalOnlyByFault
    <3>2. q \in RL!Counted(k)' /\ check'[q] \in {"expiring", "failed"}
      BY <1>2, <2>1, <3>1 DEF RL!Counted, RL!On, RL!TypeOK
    <3>. QED  BY <3>2
  <2>. QED  BY <2>2, <2>3
<1>3. ASSUME NEW r \in Requests, NEW s \in RL!Stages,
             check[r] = "expiring", check' = [check EXCEPT ![r] = s], RL!SetExpiry(KeyOf[r])
      PROVE  \E q \in RL!Counted(k)' : check'[q] \in {"expiring", "failed"}
  <2>1. /\ rpm' = rpm /\ stamp' = stamp /\ window' = window
        /\ rpmTtl' = [rpmTtl EXCEPT ![KeyOf[r]] = rpm[KeyOf[r]] # 0]
    BY <1>3 DEF RL!SetExpiry
  <2>2. k # KeyOf[r] /\ ~rpmTtl[k]
    BY <2>1 DEF RL!TypeOK
  <2>3. PICK q \in RL!Counted(k) : check[q] \in {"expiring", "failed"}
    BY <2>1, <2>2 DEF RL!ImmortalOnlyByFault
  <2>4. q \in RL!Counted(k)' /\ check'[q] \in {"expiring", "failed"}
    BY <1>3, <2>1, <2>2, <2>3 DEF RL!Counted, RL!On, RL!TypeOK
  <2>. QED  BY <2>4
<1>4. ASSUME NEW r \in Requests, RL!CheckOverload(r)
      PROVE  \E q \in RL!Counted(k)' : check'[q] \in {"expiring", "failed"}
  BY <1>1, <1>4 DEF RL!CheckOverload, RL!Move, RL!Stages
<1>5. ASSUME NEW r \in Requests, RL!Count(r)
      PROVE  \E q \in RL!Counted(k)' : check'[q] \in {"expiring", "failed"}
  <2>1. PICK s : /\ s = IF rpm[KeyOf[r]] + 1 = 1 THEN "expiring"
                                               ELSE RL!Verdict(rpm[KeyOf[r]] + 1)
                 /\ check' = [check EXCEPT ![r] = s]
    BY <1>5 DEF RL!Count, RL!Move
  <2>2. s \in RL!Stages /\ (rpm[KeyOf[r]] = 0 => s = "expiring")
    BY <2>1 DEF RL!Stages, RL!Verdict
  <2>. QED  BY <1>2, <1>5, <2>1, <2>2 DEF RL!Count, RL!Move
<1>6. ASSUME NEW r \in Requests, RL!Expire(r)
      PROVE  \E q \in RL!Counted(k)' : check'[q] \in {"expiring", "failed"}
  BY <1>3, <1>6 DEF RL!Expire, RL!Move, RL!Stages, RL!Verdict
<1>7. ASSUME NEW r \in Requests, RL!CheckFails(r)
      PROVE  \E q \in RL!Counted(k)' : check'[q] \in {"expiring", "failed"}
  <2>1. check' = [check EXCEPT ![r] = "failed"] /\ "failed" \in RL!Stages
    BY <1>7 DEF RL!CheckFails, RL!Move, RL!Stages
  <2>2. CASE UNCHANGED <<overloaded, rpm, rpmTtl, window, stamp>>
    BY <1>1, <2>1, <2>2
  <2>3. CASE check[r] = "gated" /\ RL!Incr(r)
    BY <1>2, <2>1, <2>3
  <2>4. CASE check[r] = "expiring" /\ RL!SetExpiry(KeyOf[r])
    BY <1>3, <2>1, <2>4
  <2>. QED  BY <1>7, <2>2, <2>3, <2>4 DEF RL!CheckFails
<1>8. ASSUME NEW j \in Keys, RL!WindowEnds(j)
      PROVE  \E q \in RL!Counted(k)' : check'[q] \in {"expiring", "failed"}
  <2>1. k # j /\ rpm'[k] = rpm[k] /\ rpmTtl'[k] = rpmTtl[k] /\ window'[k] = window[k]
    BY <1>8 DEF RL!WindowEnds, RL!TypeOK
  <2>2. PICK q \in RL!Counted(k) : check[q] \in {"expiring", "failed"}
    BY <2>1 DEF RL!ImmortalOnlyByFault
  <2>3. q \in RL!Counted(k)' /\ check'[q] \in {"expiring", "failed"}
    BY <1>8, <2>1, <2>2 DEF RL!Counted, RL!On, RL!WindowEnds
  <2>. QED  BY <2>3
<1>9. CASE UNCHANGED <<rpm, rpmTtl, check, window, stamp>>
  BY <1>9 DEF RL!ImmortalOnlyByFault, RL!Counted, RL!On
<1>. QED  BY <1>4, <1>5, <1>6, <1>7, <1>8, <1>9 DEF RL!Next, RL!Reliable, RL!SetOverload, RL!vars

\* Only the request that opened a window, or a failed one, leaves it without end.
LEMMA ImmortalExplained == RL!Spec => []RL!ImmortalOnlyByFault
<1>1. RL!Init => RL!ImmortalOnlyByFault
  BY DEF RL!Init, RL!ImmortalOnlyByFault
<1>. QED  BY <1>1, ImmortalStep, ChecksTyped, PTL DEF RL!Spec

-----------------------------------------------------------------------------
(* The limiters inside admit().                                            *)

\* Each action of the service is a step of the RPM limiter or leaves it alone ...
LEMMA ChecksOnly == Next => [RL!Next]_(RL!vars)
<1> USE DEF rlVars, RL!vars
<1>1. ASSUME NEW r \in Requests, Reliable(r)
      PROVE  [RL!Next]_(RL!vars)
  <2>1. CASE Checks(r)
    BY <2>1 DEF Checks, RL!Next
  <2>2. CASE ~Checks(r)
    BY <1>1, <2>2
       DEF Reliable, Acquires, RollsBackSlot, Reserves,
           RollsBackTokens, FinalizesTokens, Releases
  <2> QED
    BY <2>1, <2>2
<1>2. ASSUME NEW r \in Requests, Fails(r)
      PROVE  [RL!Next]_(RL!vars)
  BY <1>2 DEF Fails, RL!Next
<1>3. CASE Environment
  BY <1>3 DEF Environment, SetOverload, WindowEnds, RL!Next
<1> QED
  BY <1>1, <1>2, <1>3 DEF Next

\* ... of the concurrency limiter ...
LEMMA SlotsOnly == Next => [CL!Next]_(CL!vars)
<1> USE DEF clVars, CL!vars
<1>1. ASSUME NEW r \in Requests, Reliable(r)
      PROVE  [CL!Next]_(CL!vars)
  <2>1. CASE Acquires(r) \/ RollsBackSlot(r) \/ Releases(r)
    BY <2>1 DEF Acquires, RollsBackSlot, Releases,
                CL!Next, CL!Reliable
  <2>2. CASE \/ Checks(r) \/ Reserves(r) \/ RollsBackTokens(r)
             \/ FinalizesTokens(r)
    BY <2>2 DEF Checks, Reserves, RollsBackTokens,
                FinalizesTokens
  <2> QED
    BY <1>1, <2>1, <2>2 DEF Reliable
<1>2. ASSUME NEW r \in Requests, Fails(r)
      PROVE  [CL!Next]_(CL!vars)
  BY <1>2 DEF Fails, CL!Next, CL!Faulty
<1>3. CASE Environment
  BY <1>3 DEF Environment, SetOverload, WindowEnds
<1> QED
  BY <1>1, <1>2, <1>3 DEF Next

\* ... and of the token reserver.
LEMMA TokensOnly == Next => [QR!Next]_(QR!vars)
<1> USE DEF qrVars, QR!vars
<1>1. ASSUME NEW r \in Requests, Reliable(r)
      PROVE  [QR!Next]_(QR!vars)
  <2>1. CASE Reserves(r) \/ RollsBackTokens(r) \/ FinalizesTokens(r)
    BY <2>1 DEF Reserves, RollsBackTokens, FinalizesTokens,
                QR!Next, QR!Reliable
  <2>2. CASE \/ Checks(r) \/ Acquires(r) \/ RollsBackSlot(r)
             \/ Releases(r)
    BY <2>2 DEF Checks, Acquires, RollsBackSlot, Releases
  <2> QED
    BY <1>1, <2>1, <2>2 DEF Reliable
<1>2. ASSUME NEW r \in Requests, Fails(r)
      PROVE  [QR!Next]_(QR!vars)
  BY <1>2 DEF Fails, QR!Next
<1>3. CASE Environment
  BY <1>3 DEF Environment, SetOverload, WindowEnds, QR!Next
<1> QED
  BY <1>1, <1>2, <1>3 DEF Next

\* So a behaviour of the service is one of each limiter, and what is proved of a
\* limiter alone can be used behind admission.
LEMMA ServiceSteps == Spec => RL!Spec /\ CL!Spec /\ QR!Spec
<1>1. Init => RL!Init /\ CL!Init /\ QR!Init
  BY DEF Init
<1>2. [Next]_vars => /\ [RL!Next]_(RL!vars)
                     /\ [CL!Next]_(CL!vars)
                     /\ [QR!Next]_(QR!vars)
  <2>1. UNCHANGED vars => /\ UNCHANGED RL!vars /\ UNCHANGED CL!vars
                          /\ UNCHANGED QR!vars
    BY DEF vars, rlVars, clVars, qrVars,
           RL!vars, CL!vars, QR!vars
  <2> QED
    BY <2>1, ChecksOnly, SlotsOnly, TokensOnly
<1> QED
  BY <1>1, <1>2, PTL DEF Spec, RL!Spec, CL!Spec, QR!Spec

\* The same, between the instance in Admission and the one the proofs are stated in.
LEMMA SameLeases ==
    ASSUME NEW S PROVE CL!Cardinality(S) = Leases!Cardinality(S)
BY DEF CL!Cardinality, Leases!Cardinality

\* Behind admit() too, the RPM limiter's counters, stages and history keep their types.
THEOREM TypeCorrect == Spec => []RL!TypeOK
BY ChecksTyped, ServiceSteps, PTL

\* rate_limiter.py, check_rpm(): at most RpmLimit requests counted in one window of a
\* key go on to the slots and the tokens, for any requests, limits and estimates.
THEOREM WindowLimited == Spec => []WindowLimit
BY PassedLimited, ServiceSteps, PTL DEF WindowLimit

\* rate_limiter.py, the EXPIRE of check_rpm(): only the request that opened a window,
\* or a failed one, leaves a counter without an expiry.
THEOREM ImmortalFaulty == Spec => []ImmortalOnlyByFault
BY ImmortalExplained, ServiceSteps, PTL DEF ImmortalOnlyByFault

\* rate_limiter.py, the 429 of check_rpm(): a request is refused only when RpmLimit
\* requests were counted in its own window.
THEOREM RefusalsOfThisWindow == Spec => LimitedByThisWindow
BY RefusalsExplained, ServiceSteps, PTL DEF LimitedByThisWindow

\* The counters of the concurrency limiter are right for the leases that admit() hands
\* out, drops when reserve() raises, or never sees.
THEOREM SlotsInAdmission == Spec => /\ []NoPhantomSlots
                                    /\ []ExactUnlessWiped
                                    /\ []LimitUnlessWiped
<1>1. CL!Init <=> Leases!Init
  BY DEF CL!Init, Leases!Init
<1>2. CL!Next <=> Leases!Next
  BY DEF CL!Next, Leases!Next, CL!Reliable, Leases!Reliable,
         CL!Faulty, Leases!Faulty, CL!Acquire, Leases!Acquire,
         CL!RollBack, Leases!RollBack, CL!Release, Leases!Release,
         CL!Delete, Leases!Delete, CL!AcquireFails, Leases!AcquireFails,
         CL!RollBackFails, Leases!RollBackFails, CL!ReleaseFails,
         Leases!ReleaseFails, CL!DeleteFails, Leases!DeleteFails,
         CL!Abandon, Leases!Abandon, CL!CanAcquire, Leases!CanAcquire,
         CL!Move, Leases!Move, CL!Count, Leases!Count
<1>3. UNCHANGED CL!vars <=> UNCHANGED Leases!vars
  BY DEF CL!vars, Leases!vars
<1>4. CL!Spec => Leases!Spec
  BY <1>1, <1>2, <1>3, PTL DEF CL!Spec, Leases!Spec
<1>5. \A k \in Keys : /\ CL!Cardinality(CL!Outstanding(k))
                           = Leases!Cardinality(Leases!Outstanding(k))
                       /\ CL!Cardinality(CL!Held(k))
                           = Leases!Cardinality(Leases!Held(k))
  BY SameLeases DEF CL!Outstanding, Leases!Outstanding, CL!Held, Leases!Held,
                    CL!On, Leases!On
<1>6. Leases!NoPhantomSlots => NoPhantomSlots
  BY <1>5 DEF Leases!NoPhantomSlots, NoPhantomSlots, CL!NoPhantomSlots
<1>7. Leases!ExactUnlessWiped => ExactUnlessWiped
  BY <1>5 DEF Leases!ExactUnlessWiped, ExactUnlessWiped, CL!ExactUnlessWiped
<1>8. Leases!LimitUnlessWiped => LimitUnlessWiped
  BY <1>5 DEF Leases!LimitUnlessWiped, LimitUnlessWiped, CL!LimitUnlessWiped
<1>9. Leases!SettingsAssumption
  BY SettingsAssumption DEF IsFiniteSet, Leases!IsFiniteSet, Leases!SettingsAssumption
<1>10. Leases!Spec => []Leases!NoPhantomSlots
  BY <1>9, Leases!NoPhantoms
<1>11. Leases!Spec => []Leases!ExactUnlessWiped
  BY <1>9, Leases!Exactness
<1>12. Leases!Spec => []Leases!LimitUnlessWiped
  BY <1>9, Leases!LimitHolding
<1> QED
  BY <1>4, <1>6, <1>7, <1>8, <1>10, <1>11, <1>12, ServiceSteps, PTL

\* And for the units of the token reservation.
LEMMA SameUnits ==
    ASSUME NEW S PROVE QR!Cardinality(S) = Tokens!Cardinality(S)
BY DEF QR!Cardinality, Tokens!Cardinality

\* The token counters are right for the reservations that admit() makes behind the
\* other two limits, and that the holders of its leases finalize or forget.
THEOREM TokensInAdmission ==
    ASSUME Estimate \in [Requests -> Nat]
    PROVE  Spec => /\ []QR!NoOvercharge
                   /\ []QR!ExactUnlessDrifted
                   /\ []QR!BudgetUnlessDrifted
<1>1. QR!Init <=> Tokens!Init
  BY DEF QR!Init, Tokens!Init, QR!NotBooked, Tokens!NotBooked
<1>2. QR!Next <=> Tokens!Next
  BY DEF QR!Next, Tokens!Next, QR!Reliable, Tokens!Reliable,
         QR!FinalizeAny, Tokens!FinalizeAny, QR!ReserveNothing,
         Tokens!ReserveNothing, QR!Reserve, Tokens!Reserve, QR!Expire,
         Tokens!Expire, QR!RollBack, Tokens!RollBack, QR!Finalize,
         Tokens!Finalize, QR!Delete, Tokens!Delete, QR!ReserveFails,
         Tokens!ReserveFails, QR!FinalizeFails, Tokens!FinalizeFails,
         QR!WindowEnds, Tokens!WindowEnds, QR!Verdict, Tokens!Verdict,
         QR!Unused, Tokens!Unused, QR!Move, Tokens!Move, QR!Touch,
         Tokens!Touch, QR!Book, Tokens!Book, QR!Refund, Tokens!Refund,
         QR!Keep, Tokens!Keep, QR!SetExpiry, Tokens!SetExpiry
<1>3. UNCHANGED QR!vars <=> UNCHANGED Tokens!vars
  BY DEF QR!vars, Tokens!vars
<1>4. QR!Spec => Tokens!Spec
  BY <1>1, <1>2, <1>3, PTL DEF QR!Spec, Tokens!Spec
<1>5. \A k \in Keys : /\ QR!ChargeOf(QR!Current(k))
                           = Tokens!ChargeOf(Tokens!Current(k))
                       /\ QR!ChargeOf(QR!Admitted(k))
                           = Tokens!ChargeOf(Tokens!Admitted(k))
  BY SameUnits DEF QR!ChargeOf, Tokens!ChargeOf, QR!Total, Tokens!Total,
                   QR!Current, Tokens!Current, QR!Admitted, Tokens!Admitted,
                   QR!On, Tokens!On
<1>6. Tokens!NoOvercharge => QR!NoOvercharge
  BY <1>5 DEF Tokens!NoOvercharge, QR!NoOvercharge
<1>7. Tokens!ExactUnlessDrifted => QR!ExactUnlessDrifted
  BY <1>5 DEF Tokens!ExactUnlessDrifted, QR!ExactUnlessDrifted
<1>8. Tokens!BudgetUnlessDrifted => QR!BudgetUnlessDrifted
  BY <1>5 DEF Tokens!BudgetUnlessDrifted, QR!BudgetUnlessDrifted
<1>9. Tokens!SettingsAssumption /\ Tokens!EstimateAssumption
  BY SettingsAssumption DEF IsFiniteSet, Tokens!IsFiniteSet, Tokens!SettingsAssumption,
                            Tokens!EstimateAssumption
<1>10. Tokens!Spec => []Tokens!NoOvercharge
  BY <1>9, Tokens!NeverOvercharged
<1>11. Tokens!Spec => []Tokens!ExactUnlessDrifted
  BY <1>9, Tokens!Exactness
<1>12. Tokens!Spec => []Tokens!BudgetUnlessDrifted
  BY <1>9, Tokens!BudgetHolds
<1> QED
  BY <1>4, <1>6, <1>7, <1>8, <1>10, <1>11, <1>12, ServiceSteps, PTL
=============================================================================
