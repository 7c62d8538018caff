------------------------ MODULE QuotaReserver_proofs ------------------------
(***************************************************************************)
(* Theorems about QuotaReserver, for any keys, any finite set of requests, *)
(* any estimates and any limit.                                            *)
(***************************************************************************)
EXTENDS QuotaReserver, FiniteSetTheorems, TLAPS

\* Both verdicts of reserve() are stages of a request.
LEMMA VerdictIsStage == ASSUME NEW r \in Requests, NEW count \in Int
                        PROVE  Verdict(r, count) \in Stages
BY DEF Verdict, Stages

\* A request that moves on stays within the stages of reserve() and finalize().
LEMMA MoveKeepsStages ==
    ASSUME TypeOK, NEW r \in Requests, NEW from, NEW to \in Stages, Move(r, from, to)
    PROVE  quota' \in [Requests -> Stages]
BY DEF TypeOK, Move

\* Booking an estimate keeps everything but the stage in its type.
LEMMA BookKeepsTypes ==
    ASSUME TypeOK, NEW r \in Requests, Book(r)
    PROVE  /\ tpm' \in [Keys -> Int]
           /\ tpmKey' \in [Keys -> {"absent", "immortal", "expiring"}]
           /\ charge' \in [Requests -> Nat]
           /\ period' \in [Keys -> Nat]
           /\ booked' \in [Requests -> Nat \cup {NotBooked}]
           /\ drifted' \in SUBSET Keys
<1>1. KeyOf[r] \in Keys /\ Estimate[r] \in Nat
  BY SettingsAssumption, EstimateAssumption
<1>2. tpm' \in [Keys -> Int]
  BY <1>1 DEF Book, TypeOK
<1>3. tpmKey' \in [Keys -> {"absent", "immortal", "expiring"}]
  BY DEF Book, Touch, TypeOK
<1>4. charge' \in [Requests -> Nat] /\ booked' \in [Requests -> Nat \cup {NotBooked}]
  BY <1>1 DEF Book, TypeOK
<1> QED
  BY <1>2, <1>3, <1>4 DEF Book, TypeOK

\* So does a refund of at most the estimate: no request is charged less than nothing.
LEMMA RefundKeepsTypes ==
    ASSUME TypeOK, NEW r \in Requests, NEW n \in 0 .. Estimate[r], Refund(r, n)
    PROVE  /\ tpm' \in [Keys -> Int]
           /\ tpmKey' \in [Keys -> {"absent", "immortal", "expiring"}]
           /\ charge' \in [Requests -> Nat]
           /\ period' \in [Keys -> Nat]
           /\ booked' \in [Requests -> Nat \cup {NotBooked}]
           /\ drifted' \in SUBSET Keys
<1>1. KeyOf[r] \in Keys /\ Estimate[r] \in Nat /\ n \in Nat /\ Estimate[r] - n \in Nat
  BY SettingsAssumption, EstimateAssumption
<1>2. tpm' \in [Keys -> Int]
  BY <1>1 DEF Refund, TypeOK
<1>3. tpmKey' \in [Keys -> {"absent", "immortal", "expiring"}]
  BY DEF Refund, Touch, TypeOK
<1>4. charge' \in [Requests -> Nat]
  BY <1>1 DEF Refund, TypeOK
<1>5. drifted' \in SUBSET Keys
  BY <1>1 DEF Refund, TypeOK
<1> QED
  BY <1>2, <1>3, <1>4, <1>5 DEF Refund, TypeOK

\* Whatever finalize() is told was used, it gives back at most the estimate.
LEMMA FinalizeKeepsTypes ==
    ASSUME TypeOK, NEW r \in Requests, NEW actual \in Nat, NEW all \in BOOLEAN,
           Finalize(r, actual, all)
    PROVE  TypeOK'
<1> DEFINE unused == Unused(r, actual, all)
           next == IF tpm[KeyOf[r]] - unused <= 0 THEN "deleting" ELSE "finalized"
<1>1. next \in Stages
  BY DEF Stages
<1>2. \/ Move(r, "reserved", "finalized") /\ Keep
      \/ unused > 0 /\ Move(r, "reserved", next) /\ Refund(r, unused)
  BY DEF Finalize
<1>3. CASE Move(r, "reserved", "finalized") /\ Keep
  <2>1. quota' \in [Requests -> Stages]
    BY <1>3, MoveKeepsStages DEF Stages
  <2> QED
    BY <1>3, <2>1 DEF TypeOK, Keep
<1>4. ASSUME unused > 0, Move(r, "reserved", next), Refund(r, unused) PROVE TypeOK'
  <2>1. unused \in 0 .. Estimate[r]
    BY <1>4, SettingsAssumption, EstimateAssumption DEF Unused
  <2> HIDE DEF unused, next
  <2>2. quota' \in [Requests -> Stages]
    BY <1>1, <1>4, MoveKeepsStages
  <2> QED
    BY <1>4, <2>1, <2>2, RefundKeepsTypes DEF TypeOK
<1> HIDE DEF unused, next
<1> QED
  BY <1>2, <1>3, <1>4

\* quota_reserver.py keeps its types for every key, request, estimate and limit; in
\* particular no request is ever charged a negative number of tokens, whatever
\* usage is reported for it and whichever of its commands fails.
THEOREM TypeCorrect == Spec => []TypeOK
<1>1. Init => TypeOK
  BY SettingsAssumption, EstimateAssumption DEF Init, TypeOK, Stages, NotBooked
<1>2. TypeOK /\ [Next]_vars => TypeOK'
  <2> SUFFICES ASSUME TypeOK, [Next]_vars PROVE TypeOK'
    OBVIOUS
  <2> USE SettingsAssumption, EstimateAssumption
  <2>1. ASSUME NEW r \in Requests, ReserveNothing(r) PROVE TypeOK'
    <3>1. quota' \in [Requests -> Stages]
      BY <2>1, MoveKeepsStages DEF ReserveNothing, Stages
    <3> QED
      BY <2>1, <3>1 DEF ReserveNothing, Keep, TypeOK
  <2>2. ASSUME NEW r \in Requests, Reserve(r) PROVE TypeOK'
    <3> DEFINE count == tpm[KeyOf[r]] + Estimate[r]
               next == IF count = Estimate[r] THEN "expiring" ELSE Verdict(r, count)
    <3>1. count \in Int
      BY DEF TypeOK
    <3>2. next \in Stages
      BY <3>1, VerdictIsStage DEF Stages
    <3>3. Move(r, "new", next) /\ Book(r)
      BY <2>2 DEF Reserve
    <3> HIDE DEF next
    <3>4. quota' \in [Requests -> Stages]
      BY <3>2, <3>3, MoveKeepsStages
    <3> QED
      BY <3>3, <3>4, BookKeepsTypes DEF TypeOK
  <2>3. ASSUME NEW r \in Requests, Expire(r) PROVE TypeOK'
    <3>1. Verdict(r, Estimate[r]) \in Stages
      BY VerdictIsStage
    <3>2. quota' \in [Requests -> Stages]
      BY <2>3, <3>1, MoveKeepsStages DEF Expire
    <3> QED
      BY <2>3, <3>2 DEF Expire, SetExpiry, TypeOK
  <2>4. ASSUME NEW r \in Requests, RollBack(r) PROVE TypeOK'
    <3>1. quota' \in [Requests -> Stages]
      BY <2>4, MoveKeepsStages DEF RollBack, Stages
    <3>2. Refund(r, Estimate[r]) /\ Estimate[r] \in 0 .. Estimate[r]
      BY <2>4 DEF RollBack
    <3> QED
      BY <3>1, <3>2, RefundKeepsTypes DEF TypeOK
  <2>5. ASSUME NEW r \in Requests, FinalizeAny(r) PROVE TypeOK'
    <3>1. CASE Finalize(r, 0, TRUE)
      BY <3>1, FinalizeKeepsTypes
    <3>2. ASSUME NEW actual \in 0 .. Estimate[r] + 1, Finalize(r, actual, FALSE)
          PROVE  TypeOK'
      <4>1. actual \in Nat
        OBVIOUS
      <4> QED
        BY <3>2, <4>1, FinalizeKeepsTypes
    <3> QED
      BY <2>5, <3>1, <3>2 DEF FinalizeAny
  <2>6. ASSUME NEW r \in Requests, Delete(r) PROVE TypeOK'
    <3>1. quota' \in [Requests -> Stages]
      BY <2>6, MoveKeepsStages DEF Delete, Stages
    <3> QED
      BY <2>6, <3>1 DEF Delete, TypeOK
  <2>7. ASSUME NEW r \in Requests, ReserveFails(r) PROVE TypeOK'
    <3>1. quota' \in [Requests -> Stages]
      BY <2>7, MoveKeepsStages DEF ReserveFails, Stages
    <3>2. CASE Keep
      BY <3>1, <3>2 DEF Keep, TypeOK
    <3>3. CASE Book(r)
      BY <3>1, <3>3, BookKeepsTypes DEF TypeOK
    <3>4. CASE SetExpiry(KeyOf[r])
      BY <3>1, <3>4 DEF SetExpiry, TypeOK
    <3> QED
      BY <2>7, <3>2, <3>3, <3>4 DEF ReserveFails
  <2>8. ASSUME NEW r \in Requests, FinalizeFails(r) PROVE TypeOK'
    <3>1. quota' \in [Requests -> Stages]
      BY <2>8, MoveKeepsStages DEF FinalizeFails, Stages
    <3>2. CASE Keep
      BY <3>1, <3>2 DEF Keep, TypeOK
    <3>3. ASSUME NEW n \in 1 .. Estimate[r], Refund(r, n) PROVE TypeOK'
      <4>1. n \in 0 .. Estimate[r]
        OBVIOUS
      <4> QED
        BY <3>1, <3>3, <4>1, RefundKeepsTypes DEF TypeOK
    <3> QED
      BY <2>8, <3>2, <3>3 DEF FinalizeFails
  <2>9. ASSUME NEW k \in Keys, WindowEnds(k) PROVE TypeOK'
    BY <2>9 DEF WindowEnds, TypeOK
  <2>10. CASE UNCHANGED vars
    BY <2>10 DEF vars, TypeOK
  <2> QED
    BY <2>1, <2>2, <2>3, <2>4, <2>5, <2>6, <2>7, <2>8, <2>9, <2>10
       DEF Next, Reliable
<1> QED
  BY <1>1, <1>2, PTL DEF Spec

-----------------------------------------------------------------------------
(* Sums over a finite set of requests.                                     *)

Units(f, R) == UNION {{r} \X (1 .. f[r]) : r \in R}

\* The units of a natural-valued function over finitely many requests are finitely
\* many, so that a total is a natural number.
LEMMA UnitsFinite ==
    ASSUME NEW R \in SUBSET Requests, NEW f \in [Requests -> Nat]
    PROVE  IsFiniteSet(Units(f, R)) /\ Total(f, R) \in Nat
<1>1. IsFiniteSet(R)
  BY FS_Subset, SettingsAssumption, EstimateAssumption
<1>2. IsFiniteSet({{r} \X (1 .. f[r]) : r \in R})
  <2> DEFINE T == {{r} \X (1 .. f[r]) : r \in R}
             g == [r \in R |-> {r} \X (1 .. f[r])]
  <2>1. g \in Surjection(R, T)
    BY DEF Surjection
  <2> HIDE DEF g, T
  <2>2. IsFiniteSet(T)
    BY <1>1, <2>1, FS_Surjection
  <2> QED
    BY <2>2 DEF T
<1>3. ASSUME NEW r \in R PROVE IsFiniteSet({r} \X (1 .. f[r]))
  <2>1. IsFiniteSet({r})
    BY FS_Singleton
  <2>2. 1 \in Int /\ f[r] \in Int
    OBVIOUS
  <2>3. IsFiniteSet(1 .. f[r])
    BY <2>2, FS_Interval
  <2> QED
    BY <2>1, <2>3, FS_Product
<1>4. IsFiniteSet(Units(f, R))
  BY <1>2, <1>3, FS_UNION DEF Units
<1> QED
  BY <1>4, FS_CardinalityType DEF Total, Units

\* Smaller summands over fewer requests give a smaller total.
LEMMA TotalLess ==
    ASSUME NEW R \in SUBSET Requests, NEW Q \in SUBSET R,
           NEW f \in [Requests -> Nat], NEW g \in [Requests -> Nat],
           \A q \in Q : f[q] <= g[q]
    PROVE  Total(f, Q) <= Total(g, R)
<1>1. Units(f, Q) \in SUBSET Units(g, R)
  <2>1. ASSUME NEW q \in Q, NEW u \in {q} \X (1 .. f[q])
        PROVE  u \in {q} \X (1 .. g[q])
    <3>1. 1 .. f[q] \subseteq 1 .. g[q]
      OBVIOUS
    <3> QED
      BY <2>1, <3>1
  <2> QED
    BY <2>1 DEF Units
<1>2. IsFiniteSet(Units(g, R))
  BY UnitsFinite
<1> QED
  BY <1>1, <1>2, FS_Subset DEF Total, Units

\* A total only depends on the summands of its requests.
LEMMA TotalSame ==
    ASSUME NEW R \in SUBSET Requests,
           NEW f \in [Requests -> Nat], NEW g \in [Requests -> Nat],
           \A q \in R : f[q] = g[q]
    PROVE  Total(f, R) = Total(g, R)
<1>1. Total(f, R) <= Total(g, R) /\ Total(g, R) <= Total(f, R)
  BY TotalLess
<1>2. Total(f, R) \in Nat /\ Total(g, R) \in Nat
  BY UnitsFinite
<1> QED
  BY <1>1, <1>2

\* One summand can be taken out of a total.
LEMMA TotalSplit ==
    ASSUME NEW R \in SUBSET Requests, NEW r \in R, NEW f \in [Requests -> Nat]
    PROVE  Total(f, R) = Total(f, R \ {r}) + f[r]
<1> DEFINE rest == Units(f, R \ {r})
           own == {r} \X (1 .. f[r])
<1>1. Units(f, R) = rest \cup own /\ rest \cap own = {}
  BY DEF Units
<1>2. IsFiniteSet(rest)
  BY UnitsFinite
<1>3. IsFiniteSet(own) /\ Cardinality(own) = f[r]
  <2>1. IsFiniteSet({r}) /\ Cardinality({r}) = 1
    BY FS_Singleton
  <2>2. 1 \in Int /\ f[r] \in Int /\ f[r] \in Nat
    OBVIOUS
  <2>3. IsFiniteSet(1 .. f[r]) /\ Cardinality(1 .. f[r]) = f[r]
    BY <2>2, FS_Interval
  <2>4. IsFiniteSet(own) /\ Cardinality(own) = 1 * f[r]
    BY <2>1, <2>3, FS_Product
  <2> QED
    BY <2>2, <2>4
<1> HIDE DEF rest, own
<1>4. Cardinality(rest \cup own) = Cardinality(rest) + Cardinality(own)
  <2>1. Cardinality(rest \cup own)
          = Cardinality(rest) + Cardinality(own) - Cardinality(rest \cap own)
    BY <1>2, <1>3, FS_Union
  <2>2. Cardinality(rest \cap own) = 0
    BY <1>1, FS_EmptySet
  <2>3. Cardinality(rest) \in Nat /\ Cardinality(own) \in Nat
    BY <1>2, <1>3, FS_CardinalityType
  <2> QED
    BY <2>1, <2>2, <2>3
<1> QED
  BY <1>1, <1>3, <1>4 DEF Total, Units, rest

-----------------------------------------------------------------------------
(* What the counters owe.                                                  *)

\* A request is charged nothing before it books, its whole estimate until it is
\* rolled back or finalized, and never more; and it books in no later window.
Settled(r) ==
    /\ quota[r] = "new" => booked[r] = NotBooked
    /\ quota[r] \in {"expiring", "overLimit", "reserved"} => charge[r] = Estimate[r]
    /\ charge[r] <= Estimate[r]
    /\ booked[r] <= period[KeyOf[r]]

\* A request at this stage is admitted, or will be unless its EXPIRE fails.
Vouching(stage, r) == \/ stage \in {"reserved", "deleting", "finalized"}
                      \/ stage = "expiring" /\ Estimate[r] <= TpmLimit
Vouched(k) == {r \in Current(k) : Vouching(quota[r], r)}

Over(k) == tpm[k] <= ChargeOf(Current(k))
Budget(k) == k \notin drifted => /\ tpm[k] = ChargeOf(Current(k))
                                 /\ ChargeOf(Vouched(k)) <= TpmLimit

Books == /\ \A r \in Requests : Settled(r)
         /\ \A k \in Keys : Over(k) /\ Budget(k)

\* What the requests of a window are charged is a number, for all of them and for
\* those that vouch for its budget.
LEMMA ChargesAreNatural ==
    ASSUME TypeOK, NEW k \in Keys
    PROVE  /\ Current(k) \in SUBSET Requests /\ Vouched(k) \in SUBSET Current(k)
           /\ ChargeOf(Current(k)) \in Nat /\ ChargeOf(Vouched(k)) \in Nat
<1>1. Current(k) \in SUBSET Requests /\ Vouched(k) \in SUBSET Current(k)
  BY DEF Current, On, Vouched
<1>2. Vouched(k) \in SUBSET Requests /\ charge \in [Requests -> Nat]
  BY <1>1 DEF TypeOK
<1> QED
  BY <1>1, <1>2, UnitsFinite DEF ChargeOf

\* A step that only lets a request move on, to where it vouches for no more than
\* before.
LEMMA MoveKeepsBooks ==
    ASSUME TypeOK, Books, NEW r \in Requests, NEW from, NEW to, Move(r, from, to),
           UNCHANGED <<tpm, charge, period, booked, drifted>>,
           to # "new",
           to \in {"expiring", "overLimit", "reserved"}
              => from \in {"expiring", "overLimit", "reserved"},
           Vouching(to, r) => Vouching(from, r)
    PROVE  Books'
<1>1. /\ quota'[r] = to /\ quota[r] = from
      /\ \A q \in Requests : q # r => quota'[q] = quota[q]
  BY DEF Move, TypeOK
<1>2. ASSUME NEW q \in Requests PROVE Settled(q)'
  BY <1>1 DEF Books, Settled
<1>3. ASSUME NEW k \in Keys PROVE Over(k)' /\ Budget(k)'
  <2>1. Current(k)' = Current(k) /\ ChargeOf(Current(k))' = ChargeOf(Current(k))
    BY DEF Current, On, ChargeOf
  <2>2. Vouched(k)' \in SUBSET Vouched(k)
    <3>1. ASSUME NEW q \in Requests, Vouching(quota'[q], q) PROVE Vouching(quota[q], q)
      BY <1>1, <3>1
    <3> QED
      BY <2>1, <3>1 DEF Vouched, Current, On, Vouching
  <2>3. ChargeOf(Vouched(k))' <= ChargeOf(Vouched(k))
    <3>1. Vouched(k) \in SUBSET Requests /\ charge \in [Requests -> Nat]
      BY ChargesAreNatural DEF TypeOK
    <3>2. \A q \in Vouched(k)' : charge[q] <= charge[q]
      BY <2>2, <3>1
    <3> QED
      BY <2>2, <3>1, <3>2, TotalLess DEF ChargeOf
  <2>4. ChargeOf(Vouched(k)) \in Nat
    BY ChargesAreNatural
  <2>5. Vouched(k)' \in SUBSET Requests /\ ChargeOf(Vouched(k))' \in Nat
    <3>1. Vouched(k)' \in SUBSET Requests /\ charge' \in [Requests -> Nat]
      BY <2>2, ChargesAreNatural DEF TypeOK
    <3> QED
      BY <3>1, UnitsFinite DEF ChargeOf
  <2> QED
    BY <2>1, <2>3, <2>4, <2>5, SettingsAssumption, EstimateAssumption DEF Books, Over, Budget
<1> QED
  BY <1>2, <1>3 DEF Books

\* A booking adds the estimate to its window, on both sides.
LEMMA BookCharges ==
    ASSUME TypeOK, NEW r \in Requests, booked[r] = NotBooked, Book(r), NEW k \in Keys
    PROVE  /\ Current(k)' = Current(k) \cup {q \in {r} : KeyOf[q] = k}
           /\ charge'[r] = Estimate[r] /\ \A q \in Requests \ {r} : charge'[q] = charge[q]
           /\ charge' \in [Requests -> Nat]
           /\ ChargeOf(Current(k))' - ChargeOf(Current(k)) = tpm'[k] - tpm[k]
<1>1. /\ charge'[r] = Estimate[r] /\ \A q \in Requests \ {r} : charge'[q] = charge[q]
      /\ charge' \in [Requests -> Nat] /\ charge \in [Requests -> Nat]
      /\ booked'[r] = period[KeyOf[r]] /\ \A q \in Requests \ {r} : booked'[q] = booked[q]
      /\ period' = period
  BY SettingsAssumption, EstimateAssumption DEF Book, TypeOK
<1>2. r \notin Current(k)
  BY SettingsAssumption, EstimateAssumption DEF Current, On, NotBooked, TypeOK
<1>3. Current(k)' = Current(k) \cup {q \in {r} : KeyOf[q] = k}
  BY <1>1, <1>2 DEF Current, On
<1>4. Current(k) \in SUBSET Requests /\ Total(charge', Current(k)) = Total(charge, Current(k))
  <2>1. Current(k) \in SUBSET Requests
    BY ChargesAreNatural
  <2>2. \A q \in Current(k) : charge'[q] = charge[q]
    BY <1>1, <1>2, <2>1
  <2> QED
    BY <1>1, <2>1, <2>2, TotalSame
<1>5. Total(charge, Current(k)) \in Nat
  BY <1>1, <1>4, UnitsFinite
<1>6. KeyOf \in [Requests -> Keys] /\ Estimate[r] \in Nat /\ tpm[k] \in Int
  BY SettingsAssumption, EstimateAssumption DEF TypeOK
<1>7. CASE KeyOf[r] = k
  <2>1. Current(k)' = Current(k) \cup {r} /\ (Current(k) \cup {r}) \ {r} = Current(k)
    BY <1>2, <1>3, <1>7
  <2>2. Total(charge', Current(k) \cup {r}) = Total(charge', Current(k)) + Estimate[r]
    <3>1. Current(k) \cup {r} \in SUBSET Requests /\ r \in Current(k) \cup {r}
      BY <1>4
    <3>2. Total(charge', Current(k) \cup {r})
            = Total(charge', (Current(k) \cup {r}) \ {r}) + charge'[r]
      BY <1>1, <3>1, TotalSplit
    <3> QED
      BY <1>1, <2>1, <3>2
  <2>3. tpm'[k] = tpm[k] + Estimate[r]
    BY <1>7 DEF Book, TypeOK
  <2>4. ChargeOf(Current(k))' = ChargeOf(Current(k)) + Estimate[r]
    BY <1>4, <2>1, <2>2 DEF ChargeOf
  <2>5. ChargeOf(Current(k)) \in Nat
    BY <1>5 DEF ChargeOf
  <2>6. ChargeOf(Current(k))' - ChargeOf(Current(k)) = tpm'[k] - tpm[k]
    BY <1>6, <2>3, <2>4, <2>5
  <2> QED
    BY <1>1, <1>3, <2>6
<1>8. CASE KeyOf[r] # k
  <2>1. Current(k)' = Current(k) /\ tpm'[k] = tpm[k]
    BY <1>3, <1>6, <1>8 DEF Book, TypeOK
  <2> QED
    BY <1>1, <1>3, <1>4, <1>5, <1>6, <2>1 DEF ChargeOf
<1> QED
  BY <1>7, <1>8

\* Booking keeps the books, where the request goes on to vouch only for a count
\* within the limit.
LEMMA BookKeepsBooks ==
    ASSUME TypeOK, Books, NEW r \in Requests, NEW to, Move(r, "new", to), Book(r),
           to \in {"expiring", "overLimit", "reserved", "failed"},
           Vouching(to, r) => tpm[KeyOf[r]] + Estimate[r] <= TpmLimit
    PROVE  Books'
<1>0. /\ KeyOf \in [Requests -> Keys] /\ Estimate \in [Requests -> Nat] /\ TpmLimit \in Nat
      /\ period' = period /\ drifted' = drifted
      /\ tpm \in [Keys -> Int] /\ booked \in [Requests -> Nat \cup {NotBooked}]
      /\ period \in [Keys -> Nat] /\ charge \in [Requests -> Nat]
  BY SettingsAssumption, EstimateAssumption DEF Book, TypeOK
<1>1. /\ quota'[r] = to /\ quota[r] = "new"
      /\ \A q \in Requests : q # r => quota'[q] = quota[q]
  BY DEF Move, TypeOK
<1>2. booked[r] = NotBooked
  BY <1>1 DEF Books, Settled
<1>3. /\ charge'[r] = Estimate[r]
      /\ booked'[r] = period[KeyOf[r]]
      /\ \A q \in Requests : q # r => charge'[q] = charge[q] /\ booked'[q] = booked[q]
  BY <1>0 DEF Book
<1>4. ASSUME NEW q \in Requests PROVE Settled(q)'
  <2>1. CASE q = r
    BY <1>0, <1>1, <1>3, <2>1 DEF Settled
  <2>2. CASE q # r
    BY <1>0, <1>1, <1>3, <2>2 DEF Books, Settled
  <2> QED
    BY <2>1, <2>2
<1>5. ASSUME NEW k \in Keys PROVE Over(k)' /\ Budget(k)'
  <2>1. /\ Current(k)' = Current(k) \cup {q \in {r} : KeyOf[q] = k}
        /\ charge' \in [Requests -> Nat]
        /\ ChargeOf(Current(k))' - ChargeOf(Current(k)) = tpm'[k] - tpm[k]
    BY <1>2, BookCharges
  <2>2. /\ ChargeOf(Current(k)) \in Nat /\ Current(k) \in SUBSET Requests
        /\ Vouched(k) \in SUBSET Current(k) /\ ChargeOf(Vouched(k)) \in Nat
    BY ChargesAreNatural
  <2>3. /\ Current(k)' \in SUBSET Requests /\ Vouched(k)' \in SUBSET Current(k)'
        /\ ChargeOf(Current(k))' \in Nat /\ ChargeOf(Vouched(k))' \in Nat
        /\ ChargeOf(Vouched(k))' <= ChargeOf(Current(k))'
    <3>1. Current(k)' \in SUBSET Requests /\ Vouched(k)' \in SUBSET Current(k)'
      BY <2>1, <2>2 DEF Vouched
    <3>2. ChargeOf(Current(k))' \in Nat /\ ChargeOf(Vouched(k))' \in Nat
      <4>1. Vouched(k)' \in SUBSET Requests
        BY <3>1
      <4> QED
        BY <2>1, <3>1, <4>1, UnitsFinite DEF ChargeOf
    <3>3. \A q \in Vouched(k)' : charge'[q] <= charge'[q]
      BY <2>1, <3>1
    <3> QED
      BY <2>1, <3>1, <3>2, <3>3, TotalLess DEF ChargeOf
  <2>4. tpm'[k] \in Int /\ tpm[k] \in Int
    BY <1>0 DEF Book
  <2>5. Over(k)'
    BY <2>1, <2>2, <2>3, <2>4 DEF Books, Over
  <2>6. CASE r \in Vouched(k)'
    <3>1. KeyOf[r] = k /\ Vouching(to, r)
      BY <1>1, <2>6 DEF Vouched, Current, On
    <3>2. tpm'[k] <= TpmLimit
      BY <1>0, <3>1 DEF Book
    <3> QED
      BY <1>0, <2>1, <2>2, <2>3, <2>4, <2>5, <3>2 DEF Books, Budget
  <2>7. CASE r \notin Vouched(k)'
    <3>1. Vouched(k)' \in SUBSET Vouched(k)
      <4>1. ASSUME NEW q \in Vouched(k)' PROVE q \in Vouched(k)
        <5>1. q # r /\ q \in Current(k) /\ q \in Requests /\ Vouching(quota'[q], q)
          BY <2>1, <2>2, <2>7 DEF Vouched
        <5> QED
          BY <1>1, <5>1 DEF Vouched
      <4> QED
        BY <4>1
    <3>2. \A q \in Vouched(k)' : charge'[q] <= charge[q]
      BY <1>0, <1>3, <2>2, <2>7, <3>1
    <3>3. ChargeOf(Vouched(k))' <= ChargeOf(Vouched(k))
      <4>1. Vouched(k) \in SUBSET Requests
        BY <2>2
      <4> QED
        BY <1>0, <2>1, <3>1, <3>2, <4>1, TotalLess DEF ChargeOf
    <3> QED
      BY <1>0, <2>1, <2>2, <2>3, <2>4, <2>5, <3>3 DEF Books, Budget
  <2> QED
    BY <2>6, <2>7
<1> QED
  BY <1>4, <1>5 DEF Books

\* A refund of n takes n from what its window is charged, if that window still runs.
LEMMA RefundCharges ==
    ASSUME TypeOK, NEW r \in Requests, NEW n \in 0 .. Estimate[r],
           charge[r] = Estimate[r], Refund(r, n), NEW k \in Keys
    PROVE  /\ Current(k)' = Current(k)
           /\ charge' \in [Requests -> Nat] /\ \A q \in Requests : charge'[q] <= charge[q]
           /\ r \in Current(k) => /\ tpm'[k] = tpm[k] - n
                                  /\ ChargeOf(Current(k))' = ChargeOf(Current(k)) - n
           /\ r \notin Current(k) => /\ tpm'[k] <= tpm[k]
                                     /\ k \notin drifted' => tpm'[k] = tpm[k]
                                     /\ ChargeOf(Current(k))' = ChargeOf(Current(k))
<1>1. /\ KeyOf \in [Requests -> Keys] /\ Estimate[r] \in Nat /\ n \in Nat
      /\ tpm \in [Keys -> Int] /\ charge \in [Requests -> Nat]
      /\ Estimate[r] - n \in Nat
  BY SettingsAssumption, EstimateAssumption DEF TypeOK
<1>2. Current(k)' = Current(k) /\ Current(k) \in SUBSET Requests
  BY DEF Refund, Current, On
<1>3. /\ charge'[r] = charge[r] - n /\ \A q \in Requests \ {r} : charge'[q] = charge[q]
      /\ charge' \in [Requests -> Nat]
  BY <1>1 DEF Refund
<1>4. \A q \in Requests : charge'[q] <= charge[q]
  BY <1>1, <1>3
<1>5. Total(charge', Current(k) \ {r}) = Total(charge, Current(k) \ {r})
  BY <1>1, <1>2, <1>3, TotalSame
<1>6. CASE r \in Current(k)
  <2>1. KeyOf[r] = k
    BY <1>6 DEF Current, On
  <2>2. tpm'[k] = tpm[k] - n
    BY <1>1, <2>1 DEF Refund
  <2>3. Total(charge, Current(k)) = Total(charge, Current(k) \ {r}) + charge[r]
    BY <1>1, <1>2, <1>6, TotalSplit
  <2>4. Total(charge', Current(k)) = Total(charge', Current(k) \ {r}) + charge'[r]
    BY <1>2, <1>3, <1>6, TotalSplit
  <2>5. Total(charge, Current(k) \ {r}) \in Nat /\ charge[r] \in Nat
    BY <1>1, <1>2, UnitsFinite
  <2>6. Total(charge', Current(k)) = Total(charge, Current(k)) - n
    BY <1>1, <1>3, <1>5, <2>3, <2>4, <2>5
  <2>7. ChargeOf(Current(k))' = ChargeOf(Current(k)) - n
    BY <1>2, <2>6 DEF ChargeOf
  <2> QED
    BY <1>2, <1>3, <1>4, <1>6, <2>2, <2>7
<1>7. CASE r \notin Current(k)
  <2>1. Current(k) \ {r} = Current(k)
    BY <1>7
  <2>2. ChargeOf(Current(k))' = ChargeOf(Current(k))
    BY <1>2, <1>5, <2>1 DEF ChargeOf
  <2>3. CASE KeyOf[r] = k
    <3>1. booked[r] # period[k]
      BY <1>7, <2>3 DEF Current, On
    <3>2. k \in drifted' /\ tpm'[k] <= tpm[k]
      BY <1>1, <2>3, <3>1 DEF Refund
    <3> QED
      BY <1>2, <1>3, <1>4, <1>7, <2>2, <3>2
  <2>4. CASE KeyOf[r] # k
    <3>1. tpm'[k] = tpm[k]
      BY <1>1, <2>4 DEF Refund
    <3> QED
      BY <1>1, <1>2, <1>3, <1>4, <1>7, <2>2, <3>1
  <2> QED
    BY <2>3, <2>4
<1> QED
  BY <1>6, <1>7

\* A refund keeps the books: what left its window leaves the counter below what is
\* owed, never above, and marks the key.
LEMMA RefundKeepsBooks ==
    ASSUME TypeOK, Books, NEW r \in Requests, NEW n \in 0 .. Estimate[r],
           NEW from \in {"overLimit", "reserved"}, NEW to, Move(r, from, to), Refund(r, n),
           to = "refused" \/ (from = "reserved" /\ to \in {"deleting", "finalized"})
    PROVE  Books'
<1>0. /\ Estimate \in [Requests -> Nat] /\ TpmLimit \in Nat
      /\ period' = period /\ booked' = booked /\ drifted \subseteq drifted'
      /\ tpm \in [Keys -> Int] /\ charge \in [Requests -> Nat] /\ tpm' \in [Keys -> Int]
      /\ n \in Nat
  <2>1. tpm' \in [Keys -> Int]
    BY RefundKeepsTypes
  <2>2. n \in Nat
    BY SettingsAssumption, EstimateAssumption
  <2> QED
    BY <2>1, <2>2, SettingsAssumption, EstimateAssumption DEF Refund, TypeOK
<1>1. /\ quota'[r] = to /\ quota[r] = from
      /\ \A q \in Requests : q # r => quota'[q] = quota[q]
  BY DEF Move, TypeOK
<1>2. charge[r] = Estimate[r]
  BY <1>1 DEF Books, Settled
<1>3. charge'[r] <= Estimate[r] /\ \A q \in Requests : q # r => charge'[q] = charge[q]
  BY <1>0 DEF Refund
<1>4. ASSUME NEW q \in Requests PROVE Settled(q)'
  <2>1. CASE q = r
    BY <1>0, <1>1, <1>3, <2>1 DEF Books, Settled
  <2>2. CASE q # r
    BY <1>0, <1>1, <1>3, <2>2 DEF Books, Settled
  <2> QED
    BY <2>1, <2>2
<1>5. ASSUME NEW k \in Keys PROVE Over(k)' /\ Budget(k)'
  <2>1. /\ Current(k)' = Current(k)
        /\ charge' \in [Requests -> Nat] /\ \A q \in Requests : charge'[q] <= charge[q]
        /\ r \in Current(k) => /\ tpm'[k] = tpm[k] - n
                               /\ ChargeOf(Current(k))' = ChargeOf(Current(k)) - n
        /\ r \notin Current(k) => /\ tpm'[k] <= tpm[k]
                                  /\ k \notin drifted' => tpm'[k] = tpm[k]
                                  /\ ChargeOf(Current(k))' = ChargeOf(Current(k))
    BY <1>2, RefundCharges
  <2>2. /\ ChargeOf(Current(k)) \in Nat /\ Current(k) \in SUBSET Requests
        /\ Vouched(k) \in SUBSET Current(k) /\ ChargeOf(Vouched(k)) \in Nat
    BY ChargesAreNatural
  <2>3. tpm[k] \in Int /\ tpm'[k] \in Int
    BY <1>0
  <2>4. tpm[k] <= ChargeOf(Current(k))
    BY DEF Books, Over
  <2>5. Over(k)'
    <3>1. CASE r \in Current(k)
      BY <1>0, <2>1, <2>2, <2>3, <2>4, <3>1 DEF Over
    <3>2. CASE r \notin Current(k)
      BY <2>1, <2>2, <2>3, <2>4, <3>2 DEF Over
    <3> QED
      BY <3>1, <3>2
  <2>6. Vouched(k)' \in SUBSET Vouched(k)
    <3>1. ASSUME NEW q \in Requests, Vouching(quota'[q], q) PROVE Vouching(quota[q], q)
      BY <1>1, <3>1 DEF Vouching
    <3> QED
      BY <2>1, <2>2, <3>1 DEF Vouched
  <2>7. ChargeOf(Vouched(k))' <= ChargeOf(Vouched(k)) /\ ChargeOf(Vouched(k))' \in Nat
    <3>1. Vouched(k) \in SUBSET Requests /\ Vouched(k)' \in SUBSET Requests
      BY <2>2, <2>6
    <3>2. \A q \in Vouched(k)' : charge'[q] <= charge[q]
      BY <2>1, <3>1
    <3> QED
      BY <1>0, <2>1, <2>6, <3>1, <3>2, TotalLess, UnitsFinite DEF ChargeOf
  <2>8. ASSUME k \notin drifted'
        PROVE  tpm'[k] = ChargeOf(Current(k))' /\ ChargeOf(Vouched(k))' <= TpmLimit
    <3>1. tpm[k] = ChargeOf(Current(k)) /\ ChargeOf(Vouched(k)) <= TpmLimit
      BY <1>0, <2>8 DEF Books, Budget
    <3>2. tpm'[k] = ChargeOf(Current(k))'
      BY <2>1, <2>8, <3>1
    <3> QED
      BY <1>0, <2>2, <2>7, <3>1, <3>2
  <2> QED
    BY <2>5, <2>8 DEF Budget
<1> QED
  BY <1>4, <1>5 DEF Books

\* finalize() keeps the books, whatever usage it is told.
LEMMA FinalizeKeepsBooks ==
    ASSUME TypeOK, Books, NEW r \in Requests, NEW actual \in Nat, NEW all \in BOOLEAN,
           Finalize(r, actual, all)
    PROVE  Books'
<1> DEFINE unused == Unused(r, actual, all)
           next == IF tpm[KeyOf[r]] - unused <= 0 THEN "deleting" ELSE "finalized"
<1>1. next \in {"deleting", "finalized"}
  OBVIOUS
<1>2. \/ Move(r, "reserved", "finalized") /\ Keep
      \/ unused > 0 /\ Move(r, "reserved", next) /\ Refund(r, unused)
  BY DEF Finalize
<1>3. CASE Move(r, "reserved", "finalized") /\ Keep
  <2>1. Vouching("finalized", r) => Vouching("reserved", r)
    BY DEF Vouching
  <2> QED
    BY <1>3, <2>1, MoveKeepsBooks DEF Keep
<1>4. ASSUME unused > 0, Move(r, "reserved", next), Refund(r, unused) PROVE Books'
  <2>1. unused \in 0 .. Estimate[r]
    BY <1>4, SettingsAssumption, EstimateAssumption DEF Unused
  <2> HIDE DEF unused, next
  <2> QED
    BY <1>1, <1>4, <2>1, RefundKeepsBooks
<1> HIDE DEF unused, next
<1> QED
  BY <1>2, <1>3, <1>4

\* The DELETE and the end of a window leave a counter of zero: no more than is owed,
\* and just what is owed unless the key is marked.
LEMMA ResetKeepsBooks ==
    ASSUME TypeOK, Books, NEW k \in Keys,
           tpm' = [tpm EXCEPT ![k] = 0], charge' = charge, booked' = booked,
           \A q \in Requests :
              \/ quota'[q] = quota[q]
              \/ quota[q] = "deleting" /\ quota'[q] = "finalized",
           \/ period' = period /\ drifted' = drifted \cup {j \in {k} : tpm[j] # 0}
           \/ period' = [period EXCEPT ![k] = @ + 1] /\ drifted' = drifted
    PROVE  Books'
<1>0. /\ tpm \in [Keys -> Int] /\ charge \in [Requests -> Nat] /\ TpmLimit \in Nat
      /\ period \in [Keys -> Nat] /\ booked \in [Requests -> Nat \cup {NotBooked}]
      /\ KeyOf \in [Requests -> Keys] /\ Estimate \in [Requests -> Nat]
  BY SettingsAssumption, EstimateAssumption DEF TypeOK
<1>1. ASSUME NEW q \in Requests PROVE Settled(q)'
  <2>1. booked'[q] <= period'[KeyOf[q]]
    <3>1. booked[q] <= period[KeyOf[q]] /\ period[KeyOf[q]] <= period'[KeyOf[q]]
      BY <1>0 DEF Books, Settled
    <3>2. booked[q] \in Int /\ period[KeyOf[q]] \in Int /\ period'[KeyOf[q]] \in Int
      BY <1>0 DEF NotBooked
    <3> QED
      BY <3>1, <3>2
  <2> QED
    BY <2>1 DEF Books, Settled
<1>2. ASSUME NEW j \in Keys, Current(j)' = Current(j)
      PROVE  /\ ChargeOf(Current(j))' = ChargeOf(Current(j))
             /\ ChargeOf(Vouched(j))' <= ChargeOf(Vouched(j)) /\ ChargeOf(Vouched(j))' \in Nat
             /\ ChargeOf(Vouched(j)) \in Nat /\ ChargeOf(Current(j)) \in Nat
  <2>1. /\ ChargeOf(Current(j)) \in Nat /\ Current(j) \in SUBSET Requests
        /\ Vouched(j) \in SUBSET Current(j) /\ ChargeOf(Vouched(j)) \in Nat
    BY ChargesAreNatural
  <2>2. Vouched(j)' \in SUBSET Vouched(j)
    <3>1. ASSUME NEW q \in Requests, Vouching(quota'[q], q) PROVE Vouching(quota[q], q)
      BY <3>1 DEF Vouching
    <3> QED
      BY <1>2, <2>1, <3>1 DEF Vouched
  <2>3. Vouched(j) \in SUBSET Requests /\ Vouched(j)' \in SUBSET Requests
    BY <2>1, <2>2
  <2>4. \A q \in Vouched(j)' : charge[q] <= charge[q]
    BY <1>0, <2>3
  <2> QED
    BY <1>0, <1>2, <2>1, <2>2, <2>3, <2>4, TotalLess, UnitsFinite DEF ChargeOf
<1>3. ASSUME NEW j \in Keys, j # k PROVE Over(j)' /\ Budget(j)'
  <2>1. period'[j] = period[j] /\ tpm'[j] = tpm[j] /\ (j \in drifted' <=> j \in drifted)
    BY <1>0, <1>3
  <2>2. Current(j)' = Current(j)
    BY <2>1 DEF Current, On
  <2>3. Over(j)'
    BY <1>2, <2>1, <2>2 DEF Books, Over
  <2>4. Budget(j)'
    BY <1>0, <1>2, <2>1, <2>2 DEF Books, Budget
  <2> QED
    BY <2>3, <2>4
<1>4. Over(k)' /\ Budget(k)'
  <2>0. tpm'[k] = 0
    BY <1>0
  <2>1. CASE period' = period /\ drifted' = drifted \cup {j \in {k} : tpm[j] # 0}
    <3>1. Current(k)' = Current(k)
      BY <2>1 DEF Current, On
    <3>2. Over(k)'
      BY <1>2, <2>0, <3>1 DEF Over
    <3>3. k \notin drifted' => tpm[k] = 0 /\ k \notin drifted
      BY <2>1
    <3>4. Budget(k)'
      BY <1>0, <1>2, <2>0, <3>1, <3>3 DEF Books, Budget
    <3> QED
      BY <3>2, <3>4
  <2>2. CASE period' = [period EXCEPT ![k] = @ + 1] /\ drifted' = drifted
    <3>1. Current(k)' = {}
      <4>1. ASSUME NEW q \in Requests, KeyOf[q] = k PROVE booked[q] # period'[k]
        <5>1. booked[q] <= period[k] /\ booked[q] \in Int
          BY <1>0, <4>1 DEF Books, Settled, NotBooked
        <5>2. period'[k] = period[k] + 1 /\ period[k] \in Nat
          BY <1>0, <2>2
        <5> QED
          BY <5>1, <5>2
      <4> QED
        BY <4>1 DEF Current, On
    <3>2. Vouched(k)' = {}
      BY <3>1 DEF Vouched
    <3>3. Total(charge', {}) = 0
      BY FS_EmptySet DEF Total
    <3> QED
      BY <1>0, <2>0, <3>1, <3>2, <3>3 DEF Over, Budget, ChargeOf
  <2> QED
    BY <2>1, <2>2
<1> QED
  BY <1>1, <1>3, <1>4 DEF Books

-----------------------------------------------------------------------------
(* The theorems about the counters.                                        *)

\* The books balance at first ...
LEMMA BooksInit == Init => Books
<1> SUFFICES ASSUME Init PROVE Books
  OBVIOUS
<1>1. ASSUME NEW r \in Requests PROVE Settled(r)
  BY SettingsAssumption, EstimateAssumption DEF Init, Settled, NotBooked
<1>2. ASSUME NEW k \in Keys PROVE Over(k) /\ Budget(k)
  <2>1. Current(k) = {} /\ Vouched(k) = {}
    BY DEF Init, Current, On, Vouched, NotBooked
  <2>2. Total(charge, {}) = 0
    BY FS_EmptySet DEF Total
  <2> QED
    BY <2>1, <2>2, SettingsAssumption, EstimateAssumption DEF Init, Over, Budget, ChargeOf
<1> QED
  BY <1>1, <1>2 DEF Books

\* ... and after every command.
LEMMA BooksNext == TypeOK /\ Books /\ [Next]_vars => Books'
<1> SUFFICES ASSUME TypeOK, Books, [Next]_vars PROVE Books'
  OBVIOUS
<1> USE SettingsAssumption, EstimateAssumption
<1>1. ASSUME NEW r \in Requests, ReserveNothing(r) PROVE Books'
  BY <1>1, MoveKeepsBooks DEF ReserveNothing, Keep, Vouching
<1>2. ASSUME NEW r \in Requests, Reserve(r) PROVE Books'
  <2> DEFINE count == tpm[KeyOf[r]] + Estimate[r]
             next == IF count = Estimate[r] THEN "expiring" ELSE Verdict(r, count)
  <2>1. Move(r, "new", next) /\ Book(r)
    BY <1>2 DEF Reserve
  <2>2. next \in {"expiring", "overLimit", "reserved", "failed"}
    BY DEF Verdict
  <2>3. Vouching(next, r) => count <= TpmLimit
    <3>1. count \in Int
      BY DEF TypeOK
    <3> QED
      BY <3>1 DEF Verdict, Vouching
  <2> HIDE DEF next
  <2> QED
    BY <2>1, <2>2, <2>3, BookKeepsBooks
<1>3. ASSUME NEW r \in Requests, Expire(r) PROVE Books'
  <2>1. Verdict(r, Estimate[r]) \in {"overLimit", "reserved"}
    BY DEF Verdict
  <2>2. Vouching(Verdict(r, Estimate[r]), r) => Vouching("expiring", r)
    BY DEF Verdict, Vouching
  <2>3. /\ Move(r, "expiring", Verdict(r, Estimate[r]))
        /\ UNCHANGED <<tpm, charge, period, booked, drifted>>
    BY <1>3 DEF Expire, SetExpiry
  <2> QED
    BY <2>1, <2>2, <2>3, MoveKeepsBooks
<1>4. ASSUME NEW r \in Requests, RollBack(r) PROVE Books'
  <2>1. Estimate[r] \in 0 .. Estimate[r]
    OBVIOUS
  <2> QED
    BY <1>4, <2>1, RefundKeepsBooks DEF RollBack
<1>5. ASSUME NEW r \in Requests, FinalizeAny(r) PROVE Books'
  <2>1. CASE Finalize(r, 0, TRUE)
    BY <2>1, FinalizeKeepsBooks
  <2>2. ASSUME NEW actual \in 0 .. Estimate[r] + 1, Finalize(r, actual, FALSE)
        PROVE  Books'
    <3>1. actual \in Nat
      OBVIOUS
    <3> QED
      BY <2>2, <3>1, FinalizeKeepsBooks
  <2> QED
    BY <1>5, <2>1, <2>2 DEF FinalizeAny
<1>6. ASSUME NEW r \in Requests, Delete(r) PROVE Books'
  <2> DEFINE k == KeyOf[r]
  <2>1. /\ k \in Keys /\ tpm' = [tpm EXCEPT ![k] = 0] /\ charge' = charge
        /\ booked' = booked /\ period' = period
        /\ drifted' = drifted \cup {j \in {k} : tpm[j] # 0}
    BY <1>6 DEF Delete
  <2>2. \A q \in Requests : \/ quota'[q] = quota[q]
                            \/ quota[q] = "deleting" /\ quota'[q] = "finalized"
    BY <1>6 DEF Delete, Move, TypeOK
  <2> HIDE DEF k
  <2> QED
    BY <2>1, <2>2, ResetKeepsBooks
<1>7. ASSUME NEW r \in Requests, ReserveFails(r) PROVE Books'
  <2>1. ~Vouching("failed", r)
    BY DEF Vouching
  <2>2. ASSUME NEW s \in {"new", "expiring", "overLimit"}, Move(r, s, "failed"), Keep
        PROVE  Books'
    BY <2>1, <2>2, MoveKeepsBooks DEF Keep
  <2>3. CASE Move(r, "new", "failed") /\ Book(r)
    BY <2>1, <2>3, BookKeepsBooks
  <2>4. CASE Move(r, "expiring", "failed") /\ SetExpiry(KeyOf[r])
    BY <2>1, <2>4, MoveKeepsBooks DEF SetExpiry
  <2> QED
    BY <1>7, <2>2, <2>3, <2>4 DEF ReserveFails
<1>8. ASSUME NEW r \in Requests, FinalizeFails(r) PROVE Books'
  <2>1. ASSUME NEW s \in {"reserved", "deleting"}, Move(r, s, "finalized"), Keep
        PROVE  Books'
    <3>1. Vouching(s, r)
      BY DEF Vouching
    <3> QED
      BY <2>1, <3>1, MoveKeepsBooks DEF Keep
  <2>2. ASSUME NEW n \in 1 .. Estimate[r], Move(r, "reserved", "finalized"), Refund(r, n)
        PROVE  Books'
    <3>1. n \in 0 .. Estimate[r]
      OBVIOUS
    <3> QED
      BY <2>2, <3>1, RefundKeepsBooks
  <2> QED
    BY <1>8, <2>1, <2>2 DEF FinalizeFails
<1>9. ASSUME NEW k \in Keys, WindowEnds(k) PROVE Books'
  BY <1>9, ResetKeepsBooks DEF WindowEnds
<1>10. CASE UNCHANGED vars
  BY <1>10 DEF vars, Books, Settled, Over, Budget, Vouched, Current, On, ChargeOf
<1> QED
  BY <1>1, <1>2, <1>3, <1>4, <1>5, <1>6, <1>7, <1>8, <1>9, <1>10 DEF Next, Reliable

\* The inductive invariant: each request is charged its estimate until it is given
\* back, and each counter equals, or at least does not exceed, what its window owes.
THEOREM BooksKept == Spec => []Books
BY BooksInit, BooksNext, TypeCorrect, PTL DEF Spec

\* A key is never billed more than the requests of its current window reserved and
\* have not given back, for any estimates, usages, failures and expiries.
THEOREM NeverOvercharged == Spec => []NoOvercharge
<1>1. Books => NoOvercharge
  BY DEF Books, Over, NoOvercharge
<1> QED
  BY <1>1, BooksKept, PTL

\* A counter is exactly what is owed, for any requests, until a refund crosses into
\* a later window or the DELETE of finalize() removes a live count.
THEOREM Exactness == Spec => []ExactUnlessDrifted
<1>1. Books => ExactUnlessDrifted
  BY DEF Books, Budget, ExactUnlessDrifted
<1> QED
  BY <1>1, BooksKept, PTL

\* The tokens of the requests admitted in one window stay within TpmLimit on a key
\* that has not drifted: the INCRBY that let a request in counted all those before.
THEOREM BudgetHolds == Spec => []BudgetUnlessDrifted
<1>1. TypeOK /\ Books => BudgetUnlessDrifted
  <2> SUFFICES ASSUME TypeOK, Books, NEW k \in Keys \ drifted
               PROVE  ChargeOf(Admitted(k)) <= TpmLimit
    BY DEF BudgetUnlessDrifted
  <2>1. Admitted(k) \in SUBSET Vouched(k) /\ Vouched(k) \in SUBSET Requests
        /\ charge \in [Requests -> Nat]
    BY DEF Admitted, Vouched, Vouching, Current, On, TypeOK
  <2>2. Admitted(k) \in SUBSET Requests
    BY <2>1
  <2>3. \A q \in Admitted(k) : charge[q] <= charge[q]
    BY <2>1
  <2>4. Total(charge, Admitted(k)) <= Total(charge, Vouched(k))
    BY <2>1, <2>3, TotalLess
  <2>5. Total(charge, Admitted(k)) \in Nat /\ Total(charge, Vouched(k)) \in Nat
    BY <2>1, <2>2, UnitsFinite
  <2>6. Total(charge, Vouched(k)) <= TpmLimit
    BY DEF Books, Budget, ChargeOf
  <2> QED
    BY <2>4, <2>5, <2>6, SettingsAssumption, EstimateAssumption DEF ChargeOf
<1> QED
  BY <1>1, BooksKept, TypeCorrect, PTL
=============================================================================
