---------------------- MODULE ConcurrencyLimiter_proofs ----------------------
(***************************************************************************)
(* Proofs that the invariants of ConcurrencyLimiter hold for every set of  *)
(* keys, every finite set of requests and every limit.                     *)
(***************************************************************************)
EXTENDS ConcurrencyLimiter, FiniteSetTheorems, TLAPS

-----------------------------------------------------------------------------
(* Type correctness.                                                       *)

\* Every step keeps counters, stages and history within their types.
LEMMA TypeStep == TypeOK /\ [Next]_vars => TypeOK'
<1> SUFFICES ASSUME TypeOK, [Next]_vars
             PROVE  TypeOK'
  OBVIOUS
<1> USE SettingsAssumption DEF TypeOK, Stages
<1>1. ASSUME NEW r \in Requests, Acquire(r)
      PROVE  TypeOK'
  BY <1>1 DEF Acquire, Move, Count
<1>2. ASSUME NEW r \in Requests, RollBack(r)
      PROVE  TypeOK'
  BY <1>2 DEF RollBack, Move, Count
<1>3. ASSUME NEW r \in Requests, Release(r)
      PROVE  TypeOK'
  BY <1>3 DEF Release, Move, Count
<1>4. ASSUME NEW r \in Requests, Delete(r)
      PROVE  TypeOK'
  <2>1. slots' \in [Keys -> Int] /\ lease' \in [Requests -> Stages]
    BY <1>4 DEF Delete, Move
  <2>2. wiped' \in SUBSET Keys
    BY <1>4 DEF Delete
  <2>. QED  BY <2>1, <2>2
<1>5. ASSUME NEW r \in Requests, Faulty(r)
      PROVE  TypeOK'
  BY <1>5 DEF Faulty, AcquireFails, RollBackFails, ReleaseFails, DeleteFails,
              Abandon, Move, Count
<1>6. CASE UNCHANGED vars
  BY <1>6 DEF vars
<1>. QED  BY <1>1, <1>2, <1>3, <1>4, <1>5, <1>6 DEF Next, Reliable

\* The state variables of the limiter always have their declared types.
THEOREM TypeCorrect == Spec => []TypeOK
<1>1. Init => TypeOK
  BY DEF Init, TypeOK, Stages
<1>. QED  BY <1>1, TypeStep, PTL DEF Spec

-----------------------------------------------------------------------------
(* How the outstanding requests of a key change.                           *)

\* The outstanding requests of a key are finitely many.
LEMMA OutstandingFinite ==
    \A k : /\ IsFiniteSet(Outstanding(k))
           /\ Cardinality(Outstanding(k)) \in Nat
<1> TAKE k
<1>1. Outstanding(k) \subseteq Requests
  BY DEF Outstanding, On
<1>. QED  BY <1>1, SettingsAssumption, FS_Subset, FS_CardinalityType

\* A request that starts to owe its key an increment adds one to the outstanding
\* requests of that key and none to those of another.
LEMMA OneMore ==
    ASSUME TypeOK, NEW r \in Requests,
           lease[r] \notin {"overLimit", "held", "leaked"},
           NEW s \in {"overLimit", "held", "leaked"},
           lease' = [lease EXCEPT ![r] = s]
    PROVE  /\ Cardinality(Outstanding(KeyOf[r])') = Cardinality(Outstanding(KeyOf[r])) + 1
           /\ \A k \in Keys \ {KeyOf[r]} : Outstanding(k)' = Outstanding(k)
<1>1. Outstanding(KeyOf[r])' = Outstanding(KeyOf[r]) \cup {r}
  BY SettingsAssumption DEF TypeOK, Outstanding, On
<1>2. r \notin Outstanding(KeyOf[r])
  BY DEF Outstanding
<1>3. Cardinality(Outstanding(KeyOf[r])') = Cardinality(Outstanding(KeyOf[r])) + 1
  BY <1>1, <1>2, OutstandingFinite, FS_AddElement
<1>4. \A k \in Keys \ {KeyOf[r]} : Outstanding(k)' = Outstanding(k)
  BY SettingsAssumption DEF TypeOK, Outstanding, On
<1>. QED  BY <1>3, <1>4

\* A request that has given its increment back leaves one outstanding less.
LEMMA OneLess ==
    ASSUME TypeOK, NEW r \in Requests,
           lease[r] \in {"overLimit", "held", "leaked"},
           NEW s \in {"new", "deleting", "released", "refused"},
           lease' = [lease EXCEPT ![r] = s]
    PROVE  /\ Cardinality(Outstanding(KeyOf[r])') = Cardinality(Outstanding(KeyOf[r])) - 1
           /\ \A k \in Keys \ {KeyOf[r]} : Outstanding(k)' = Outstanding(k)
<1>1. Outstanding(KeyOf[r])' = Outstanding(KeyOf[r]) \ {r}
  BY SettingsAssumption DEF TypeOK, Outstanding, On
<1>2. r \in Outstanding(KeyOf[r])
  BY DEF Outstanding, On
<1>3. Cardinality(Outstanding(KeyOf[r])') = Cardinality(Outstanding(KeyOf[r])) - 1
  BY <1>1, <1>2, OutstandingFinite, FS_RemoveElement
<1>4. \A k \in Keys \ {KeyOf[r]} : Outstanding(k)' = Outstanding(k)
  BY SettingsAssumption DEF TypeOK, Outstanding, On
<1>. QED  BY <1>3, <1>4

\* Any other move of a lease leaves the outstanding requests as they are.
LEMMA SameOutstanding ==
    ASSUME TypeOK, NEW r \in Requests, NEW s \in Stages,
           (lease[r] \in {"overLimit", "held", "leaked"})
              <=> (s \in {"overLimit", "held", "leaked"}),
           lease' = [lease EXCEPT ![r] = s]
    PROVE  \A k : Outstanding(k)' = Outstanding(k)
  BY DEF TypeOK, Outstanding, On

-----------------------------------------------------------------------------
(* The counter is bounded by the requests outstanding, and equal to their  *)
(* number while no DELETE has removed a live count.                        *)

Counting == NoPhantomSlots /\ ExactUnlessWiped

\* A key on which nothing moves keeps both bounds.
LEMMA OtherKeys ==
    ASSUME TypeOK, Counting, NEW k \in Keys,
           slots'[k] = slots[k], Outstanding(k)' = Outstanding(k),
           k \notin wiped' => k \notin wiped
    PROVE  /\ slots'[k] <= Cardinality(Outstanding(k)')
           /\ k \notin wiped' => slots'[k] = Cardinality(Outstanding(k)')
  BY DEF Counting, NoPhantomSlots, ExactUnlessWiped

\* A command that counts by n, on behalf of a request whose debt changes by n.
LEMMA CountStep ==
    ASSUME TypeOK, Counting, NEW r \in Requests, NEW n \in {-1, 1},
           Count(r, n), wiped' = wiped,
           Cardinality(Outstanding(KeyOf[r])') = Cardinality(Outstanding(KeyOf[r])) + n,
           \A k \in Keys \ {KeyOf[r]} : Outstanding(k)' = Outstanding(k)
    PROVE  Counting'
<1>. DEFINE key == KeyOf[r]
<1>1. key \in Keys
  BY SettingsAssumption
<1>2. slots'[key] = slots[key] + n /\ \A k \in Keys \ {key} : slots'[k] = slots[k]
  BY <1>1 DEF TypeOK, Count
<1>3. slots[key] \in Int /\ Cardinality(Outstanding(key)) \in Nat
  BY <1>1, OutstandingFinite DEF TypeOK
<1>4. /\ slots'[key] <= Cardinality(Outstanding(key)')
      /\ key \notin wiped' => slots'[key] = Cardinality(Outstanding(key)')
  <2>1. slots[key] <= Cardinality(Outstanding(key))
    BY <1>1 DEF Counting, NoPhantomSlots
  <2>2. key \notin wiped => slots[key] = Cardinality(Outstanding(key))
    BY <1>1 DEF Counting, ExactUnlessWiped
  <2>. QED  BY <1>2, <1>3, <2>1, <2>2
<1>5. \A k \in Keys \ {key} :
         /\ slots'[k] <= Cardinality(Outstanding(k)')
         /\ k \notin wiped' => slots'[k] = Cardinality(Outstanding(k)')
  BY <1>2, OtherKeys
<1>. QED  BY <1>4, <1>5 DEF Counting, NoPhantomSlots, ExactUnlessWiped

\* A step that sends no command and leaves the debts as they are.
LEMMA QuietStep ==
    ASSUME TypeOK, Counting, UNCHANGED <<slots, wiped>>,
           \A k : Outstanding(k)' = Outstanding(k)
    PROVE  Counting'
  BY DEF Counting, NoPhantomSlots, ExactUnlessWiped

\* Every step of acquire() and release(), failing or not, preserves the counting.
LEMMA CountingStep == TypeOK /\ Counting /\ [Next]_vars => Counting'
<1> SUFFICES ASSUME TypeOK, Counting, [Next]_vars
             PROVE  Counting'
  OBVIOUS
<1>1. ASSUME NEW r \in Requests, Acquire(r)
      PROVE  Counting'
  <2>1. lease[r] = "new" /\ Count(r, 1) /\ wiped' = wiped
    BY <1>1 DEF Acquire, Move
  <2>2. PICK s \in {"overLimit", "held", "leaked"} : lease' = [lease EXCEPT ![r] = s]
    BY <1>1 DEF Acquire, Move
  <2>. QED  BY <2>1, <2>2, OneMore, CountStep
<1>2. ASSUME NEW r \in Requests, RollBack(r)
      PROVE  Counting'
  <2>1. lease[r] = "overLimit" /\ Count(r, -1) /\ wiped' = wiped
    BY <1>2 DEF RollBack, Move
  <2>2. lease' = [lease EXCEPT ![r] = "refused"]
    BY <1>2 DEF RollBack, Move
  <2>3. Cardinality(Outstanding(KeyOf[r])') = Cardinality(Outstanding(KeyOf[r])) - 1
        /\ \A k \in Keys \ {KeyOf[r]} : Outstanding(k)' = Outstanding(k)
    BY <2>1, <2>2, OneLess
  <2>4. Cardinality(Outstanding(KeyOf[r])') = Cardinality(Outstanding(KeyOf[r])) + (-1)
    BY <2>3, OutstandingFinite
  <2>. QED  BY <2>1, <2>3, <2>4, CountStep
<1>3. ASSUME NEW r \in Requests, Release(r)
      PROVE  Counting'
  <2>1. lease[r] = "held" /\ Count(r, -1) /\ wiped' = wiped
    BY <1>3 DEF Release, Move
  <2>2. PICK s \in {"deleting", "released"} : lease' = [lease EXCEPT ![r] = s]
    BY <1>3 DEF Release, Move
  <2>3. Cardinality(Outstanding(KeyOf[r])') = Cardinality(Outstanding(KeyOf[r])) - 1
        /\ \A k \in Keys \ {KeyOf[r]} : Outstanding(k)' = Outstanding(k)
    BY <2>1, <2>2, OneLess
  <2>4. Cardinality(Outstanding(KeyOf[r])') = Cardinality(Outstanding(KeyOf[r])) + (-1)
    BY <2>3, OutstandingFinite
  <2>. QED  BY <2>1, <2>3, <2>4, CountStep
<1>4. ASSUME NEW r \in Requests, Delete(r)
      PROVE  Counting'
  <2>. DEFINE key == KeyOf[r]
  <2>1. key \in Keys
    BY SettingsAssumption
  <2>2. \A k : Outstanding(k)' = Outstanding(k)
    BY <1>4, SameOutstanding DEF Delete, Move, Stages
  <2>3. slots'[key] = 0 /\ \A k \in Keys \ {key} : slots'[k] = slots[k]
    BY <1>4, <2>1 DEF Delete, TypeOK
  <2>4. wiped \subseteq wiped' /\ (slots[key] # 0 => key \in wiped')
    BY <1>4 DEF Delete
  <2>5. /\ slots'[key] <= Cardinality(Outstanding(key)')
        /\ key \notin wiped' => slots'[key] = Cardinality(Outstanding(key)')
    <3>1. Cardinality(Outstanding(key)) \in Nat
      BY OutstandingFinite
    <3>2. key \notin wiped => slots[key] = Cardinality(Outstanding(key))
      BY <2>1 DEF Counting, ExactUnlessWiped
    <3>. QED  BY <2>2, <2>3, <2>4, <3>1, <3>2
  <2>6. \A k \in Keys \ {key} :
           /\ slots'[k] <= Cardinality(Outstanding(k)')
           /\ k \notin wiped' => slots'[k] = Cardinality(Outstanding(k)')
    BY <2>2, <2>3, <2>4, OtherKeys
  <2>. QED  BY <2>5, <2>6 DEF Counting, NoPhantomSlots, ExactUnlessWiped
<1>5. ASSUME NEW r \in Requests, AcquireFails(r)
      PROVE  Counting'
  <2>1. CASE Move(r, "new", "refused") /\ UNCHANGED slots
    <3>1. \A k : Outstanding(k)' = Outstanding(k)
      BY <2>1, SameOutstanding DEF Move, Stages
    <3>. QED  BY <1>5, <2>1, <3>1, QuietStep DEF AcquireFails
  <2>2. CASE Move(r, "new", "leaked") /\ Count(r, 1)
    BY <1>5, <2>2, OneMore, CountStep DEF AcquireFails, Move
  <2>. QED  BY <1>5, <2>1, <2>2 DEF AcquireFails
<1>6. ASSUME NEW r \in Requests, RollBackFails(r)
      PROVE  Counting'
  <2>1. \A k : Outstanding(k)' = Outstanding(k)
    BY <1>6, SameOutstanding DEF RollBackFails, Move, Stages
  <2>. QED  BY <1>6, <2>1, QuietStep DEF RollBackFails
<1>7. ASSUME NEW r \in Requests, ReleaseFails(r)
      PROVE  Counting'
  <2>1. CASE Move(r, "held", "leaked") /\ UNCHANGED slots
    <3>1. \A k : Outstanding(k)' = Outstanding(k)
      BY <2>1, SameOutstanding DEF Move, Stages
    <3>. QED  BY <1>7, <2>1, <3>1, QuietStep DEF ReleaseFails
  <2>2. CASE Move(r, "held", "released") /\ Count(r, -1)
    <3>1. Cardinality(Outstanding(KeyOf[r])') = Cardinality(Outstanding(KeyOf[r])) - 1
          /\ \A k \in Keys \ {KeyOf[r]} : Outstanding(k)' = Outstanding(k)
      BY <2>2, OneLess DEF Move
    <3>2. Cardinality(Outstanding(KeyOf[r])') = Cardinality(Outstanding(KeyOf[r])) + (-1)
      BY <3>1, OutstandingFinite
    <3>. QED  BY <1>7, <2>2, <3>1, <3>2, CountStep DEF ReleaseFails
  <2>. QED  BY <1>7, <2>1, <2>2 DEF ReleaseFails
<1>8. ASSUME NEW r \in Requests, DeleteFails(r)
      PROVE  Counting'
  <2>1. \A k : Outstanding(k)' = Outstanding(k)
    BY <1>8, SameOutstanding DEF DeleteFails, Move, Stages
  <2>. QED  BY <1>8, <2>1, QuietStep DEF DeleteFails
<1>9. ASSUME NEW r \in Requests, Abandon(r)
      PROVE  Counting'
  <2>1. \A k : Outstanding(k)' = Outstanding(k)
    BY <1>9, SameOutstanding DEF Abandon, Move, Stages
  <2>. QED  BY <1>9, <2>1, QuietStep DEF Abandon
<1>10. CASE UNCHANGED vars
  BY <1>10 DEF vars, Counting, NoPhantomSlots, ExactUnlessWiped, Outstanding, On
<1>. QED  BY <1>1, <1>2, <1>3, <1>4, <1>5, <1>6, <1>7, <1>8, <1>9, <1>10
          DEF Next, Reliable, Faulty

\* Nothing is outstanding before the first request.
LEMMA CountingInit == Init => Counting
<1> SUFFICES ASSUME Init
             PROVE  Counting
  OBVIOUS
<1>1. \A k \in Keys : Outstanding(k) = {}
  BY DEF Init, Outstanding, On
<1>2. Cardinality({}) = 0
  BY FS_EmptySet
<1>. QED  BY <1>1, <1>2 DEF Init, Counting, NoPhantomSlots, ExactUnlessWiped

\* The counter of a key never counts more than the requests that still owe it a
\* DECR, for any number of requests and with any command failing.
THEOREM NoPhantoms == Spec => []NoPhantomSlots
<1>. QED  BY CountingInit, CountingStep, TypeCorrect, PTL DEF Spec, Counting

\* The counter is exact on every key whose DELETE never removed a live count.
THEOREM Exactness == Spec => []ExactUnlessWiped
<1>. QED  BY CountingInit, CountingStep, TypeCorrect, PTL DEF Spec, Counting

-----------------------------------------------------------------------------
(* The limit itself.                                                       *)

\* A key's held leases are finitely many, and all of them are outstanding.
LEMMA HeldOutstanding ==
    ASSUME NEW k
    PROVE  /\ Cardinality(Held(k)) \in Nat
           /\ Cardinality(Held(k)) <= Cardinality(Outstanding(k))
<1>1. Held(k) \subseteq Outstanding(k)
  BY DEF Held, Outstanding, On
<1>2. IsFiniteSet(Held(k))
  BY <1>1, OutstandingFinite, FS_Subset
<1>. QED  BY <1>1, <1>2, OutstandingFinite, FS_Subset, FS_CardinalityType

\* A lease that was not held before leaves a key's held leases as they were, or
\* fewer, unless it becomes held.
LEMMA FewerHeld ==
    ASSUME TypeOK, NEW r \in Requests, NEW s \in Stages \ {"held"},
           lease' = [lease EXCEPT ![r] = s],
           NEW k
    PROVE  Cardinality(Held(k)') <= Cardinality(Held(k))
<1>1. Held(k)' \subseteq Held(k)
  BY DEF TypeOK, Held, On
<1>2. IsFiniteSet(Held(k))
  <2>1. Held(k) \subseteq Outstanding(k)
    BY DEF Held, Outstanding, On
  <2>. QED  BY <2>1, OutstandingFinite, FS_Subset
<1>. QED  BY <1>1, <1>2, FS_Subset

\* The step that grants a lease read a counter below the limit, which was exact.
LEMMA LimitGrant ==
    ASSUME TypeOK, ExactUnlessWiped, LimitUnlessWiped,
           NEW r \in Requests, Acquire(r), CanAcquire(r)
    PROVE  LimitUnlessWiped'
<1>. DEFINE key == KeyOf[r]
<1>1. key \in Keys /\ lease[r] = "new" /\ wiped' = wiped
  BY SettingsAssumption DEF Acquire, Move
<1>2. lease' = [lease EXCEPT ![r] = "held"]
  BY DEF Acquire, Move
<1>3. \A k \in Keys \ {key} : Held(k)' = Held(k)
  BY <1>2 DEF TypeOK, Held, On
<1>4. Held(key)' = Held(key) \cup {r} /\ r \notin Held(key)
  BY <1>1, <1>2 DEF TypeOK, Held, On
<1>5. Cardinality(Held(key)') = Cardinality(Held(key)) + 1
  <2>1. Held(key) \subseteq Outstanding(key)
    BY DEF Held, Outstanding, On
  <2>2. IsFiniteSet(Held(key))
    BY <2>1, OutstandingFinite, FS_Subset
  <2>. QED  BY <1>4, <2>2, FS_AddElement
<1>6. key \notin wiped => Cardinality(Held(key)') <= Limit
  <2>1. slots[key] \in Int /\ Limit \in Nat
    BY <1>1, SettingsAssumption DEF TypeOK
  <2>2. slots[key] + 1 <= Limit
    BY DEF CanAcquire
  <2>3. key \notin wiped => Cardinality(Outstanding(key)) = slots[key]
    BY <1>1 DEF ExactUnlessWiped
  <2>4. /\ Cardinality(Held(key)) \in Nat
        /\ Cardinality(Held(key)) <= Cardinality(Outstanding(key))
    BY HeldOutstanding
  <2>. QED  BY <1>5, <2>1, <2>2, <2>3, <2>4
<1>. QED  BY <1>1, <1>3, <1>6 DEF LimitUnlessWiped

\* Every other step takes a lease to a stage other than "held".
LEMMA LimitKept ==
    ASSUME TypeOK, LimitUnlessWiped,
           NEW r \in Requests, NEW s \in Stages \ {"held"},
           lease' = [lease EXCEPT ![r] = s], wiped \subseteq wiped'
    PROVE  LimitUnlessWiped'
<1> SUFFICES ASSUME NEW k \in Keys \ wiped'
             PROVE  Cardinality(Held(k)') <= Limit
  BY DEF LimitUnlessWiped
<1>1. Cardinality(Held(k)) <= Limit
  BY DEF LimitUnlessWiped
<1>2. Cardinality(Held(k)') <= Cardinality(Held(k))
  BY FewerHeld
<1>3. Cardinality(Held(k)) \in Nat /\ Cardinality(Held(k)') \in Nat
  <2>1. Cardinality(Held(k)) \in Nat
    BY HeldOutstanding
  <2>2. Held(k)' \subseteq Held(k)
    BY DEF TypeOK, Held, On
  <2>3. IsFiniteSet(Held(k))
    <3>1. Held(k) \subseteq Outstanding(k)
      BY DEF Held, Outstanding, On
    <3>. QED  BY <3>1, OutstandingFinite, FS_Subset
  <2>. QED  BY <2>1, <2>2, <2>3, FS_Subset, FS_CardinalityType
<1>. QED  BY <1>1, <1>2, <1>3, SettingsAssumption

\* Every step keeps the limit on the keys no DELETE has wiped.
LEMMA LimitStep ==
    TypeOK /\ ExactUnlessWiped /\ LimitUnlessWiped /\ [Next]_vars => LimitUnlessWiped'
<1> SUFFICES ASSUME TypeOK, ExactUnlessWiped, LimitUnlessWiped, [Next]_vars
             PROVE  LimitUnlessWiped'
  OBVIOUS
<1>1. ASSUME NEW r \in Requests, Acquire(r)
      PROVE  LimitUnlessWiped'
  <2>1. CASE CanAcquire(r)
    BY <1>1, <2>1, LimitGrant
  <2>2. CASE ~CanAcquire(r)
    <3>1. lease' = [lease EXCEPT ![r] = "overLimit"] /\ wiped' = wiped
      BY <1>1, <2>2 DEF Acquire, Move
    <3>. QED  BY <3>1, LimitKept DEF Stages
  <2>. QED  BY <2>1, <2>2
<1>2. ASSUME NEW r \in Requests,
             RollBack(r) \/ Release(r) \/ Delete(r) \/ Faulty(r)
      PROVE  LimitUnlessWiped'
  <2>1. PICK s \in Stages \ {"held"} : lease' = [lease EXCEPT ![r] = s]
    BY <1>2 DEF RollBack, Release, Delete, Faulty, AcquireFails, RollBackFails,
                ReleaseFails, DeleteFails, Abandon, Move, Stages
  <2>2. wiped \subseteq wiped'
    BY <1>2 DEF RollBack, Release, Delete, Faulty, AcquireFails, RollBackFails,
                ReleaseFails, DeleteFails, Abandon
  <2>. QED  BY <2>1, <2>2, LimitKept
<1>3. CASE UNCHANGED vars
  BY <1>3 DEF vars, LimitUnlessWiped, Held, On
<1>. QED  BY <1>1, <1>2, <1>3 DEF Next, Reliable

\* No lease is held before the first request.
LEMMA LimitInit == Init => LimitUnlessWiped
<1> SUFFICES ASSUME Init
             PROVE  LimitUnlessWiped
  OBVIOUS
<1>1. \A k \in Keys : Held(k) = {}
  BY DEF Init, Held, On
<1>. QED  BY <1>1, FS_EmptySet, SettingsAssumption DEF LimitUnlessWiped

\* On a key whose DELETE never removed a live count, acquire() never lets more
\* than Limit leases be held together.
THEOREM LimitHolding == Spec => []LimitUnlessWiped
<1>. QED  BY LimitInit, LimitStep, TypeCorrect, Exactness, PTL DEF Spec

\* acquire() answers 429 only while Limit requests of the key are outstanding.
THEOREM RefusalsJustified == Spec => RefusedOnlyWhenFull
<1>1. ASSUME TypeOK, NoPhantomSlots, [Next]_vars
      PROVE  [\A r \in Requests :
                lease[r] = "new" /\ lease'[r] = "overLimit"
                   => Cardinality(Outstanding(KeyOf[r])) >= Limit]_vars
  <2> SUFFICES ASSUME Next, NEW r \in Requests,
                      lease[r] = "new", lease'[r] = "overLimit"
               PROVE  Cardinality(Outstanding(KeyOf[r])) >= Limit
    BY <1>1
  <2>1. Acquire(r) /\ ~CanAcquire(r)
    <3>1. PICK q \in Requests : Reliable(q) \/ Faulty(q)
      BY DEF Next
    <3>. QED  BY <1>1, <3>1 DEF TypeOK, Reliable, Faulty, Acquire, RollBack, Release,
                 Delete, AcquireFails, RollBackFails, ReleaseFails, DeleteFails,
                 Abandon, Move
  <2>2. KeyOf[r] \in Keys /\ Limit \in Nat
    BY SettingsAssumption
  <2>3. slots[KeyOf[r]] \in Int /\ slots[KeyOf[r]] >= Limit
    BY <1>1, <2>1, <2>2 DEF TypeOK, CanAcquire
  <2>4. slots[KeyOf[r]] <= Cardinality(Outstanding(KeyOf[r]))
    BY <1>1, <2>2 DEF NoPhantomSlots
  <2>5. Cardinality(Outstanding(KeyOf[r])) \in Nat
    BY OutstandingFinite
  <2>. QED  BY <2>2, <2>3, <2>4, <2>5
<1>. QED  BY <1>1, TypeCorrect, NoPhantoms, PTL DEF Spec, RefusedOnlyWhenFull
=============================================================================
