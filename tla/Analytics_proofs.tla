--------------------------- MODULE Analytics_proofs ---------------------------
(***************************************************************************)
(* Theorems about Analytics, for any finite set of events, any tables, and *)
(* any sizes of the queue and of the batches.                              *)
(***************************************************************************)
EXTENDS Analytics, FiniteSetTheorems, SequenceTheorems, TLAPS

-----------------------------------------------------------------------------
(* Sequences: what they hold when they are cut and joined.                 *)

\* The places and the members of a sequence.
LEMMA Members == ASSUME NEW S, NEW s \in Seq(S)
                 PROVE  /\ Len(s) \in Nat /\ DOMAIN s = 1 .. Len(s)
                        /\ ToSet(s) = {s[i] : i \in 1 .. Len(s)}
                        /\ ToSet(s) \subseteq S
BY LenProperties, ElementOfSeq DEF ToSet

\* The empty sequence.
LEMMA NoMembers == ToSet(<<>>) = {} /\ IsInjective(<<>>) /\ Len(<<>>) = 0
BY DEF ToSet, IsInjective

\* A sequence of one.
LEMMA OneMember == ASSUME NEW S, NEW e \in S
                   PROVE  /\ <<e>> \in Seq(S) /\ Len(<<e>>) = 1
                          /\ ToSet(<<e>>) = {e} /\ IsInjective(<<e>>)
<1>1. <<e>> \in Seq(S) /\ Len(<<e>>) = 1 /\ <<e>>[1] = e
  OBVIOUS
<1>2. DOMAIN <<e>> = {1}
  BY <1>1, LenProperties
<1> QED
  BY <1>1, <1>2 DEF ToSet, IsInjective

\* A sequence that is joined to another.
LEMMA Joined ==
    ASSUME NEW S, NEW a \in Seq(S), NEW b \in Seq(S)
    PROVE  /\ a \o b \in Seq(S) /\ Len(a \o b) = Len(a) + Len(b)
           /\ ToSet(a \o b) = ToSet(a) \cup ToSet(b)
           /\ IsInjective(a \o b) <=> /\ IsInjective(a) /\ IsInjective(b)
                                      /\ ToSet(a) \cap ToSet(b) = {}
<1> DEFINE c == a \o b
           m == Len(a)
           n == Len(b)
<1>1. /\ c \in Seq(S) /\ Len(c) = m + n /\ m \in Nat /\ n \in Nat
      /\ DOMAIN a = 1 .. m /\ DOMAIN b = 1 .. n /\ DOMAIN c = 1 .. m + n
  BY ConcatProperties, LenProperties
<1>2. /\ \A i \in 1 .. m : i \in 1 .. m + n /\ c[i] = a[i]
      /\ \A i \in 1 .. n : m + i \in 1 .. m + n /\ c[m + i] = b[i]
  <2>1. \A i \in 1 .. m + n : c[i] = IF i <= m THEN a[i] ELSE b[i - m]
    BY ConcatProperties
  <2>2. ASSUME NEW i \in 1 .. n PROVE m + i \in 1 .. m + n /\ ~(m + i <= m) /\ m + i - m = i
    BY <1>1
  <2>3. \A i \in 1 .. m : i \in 1 .. m + n /\ i <= m
    BY <1>1
  <2> HIDE DEF c, m, n
  <2>4. ASSUME NEW i \in 1 .. m PROVE i \in 1 .. m + n /\ c[i] = a[i]
    BY <2>1, <2>3
  <2>5. ASSUME NEW i \in 1 .. n PROVE m + i \in 1 .. m + n /\ c[m + i] = b[i]
    <3>1. m + i \in 1 .. m + n /\ ~(m + i <= m) /\ m + i - m = i
      BY <2>2
    <3>2. PICK j \in 1 .. m + n : j = m + i
      BY <3>1
    <3>3. c[j] = IF j <= m THEN a[j] ELSE b[j - m]
      BY <2>1
    <3>4. ~(j <= m) /\ j - m = i
      BY <1>1, <3>2
    <3>5. c[j] = b[i]
      BY <3>3, <3>4
    <3> QED
      BY <3>1, <3>2, <3>5
  <2> QED
    BY <2>4, <2>5
<1>3. ASSUME NEW i \in 1 .. m + n PROVE i \in 1 .. m \/ \E j \in 1 .. n : i = m + j
  <2>1. CASE i <= m
    BY <1>1, <2>1
  <2>2. CASE i > m
    <3>1. i - m \in 1 .. n /\ i = m + (i - m)
      BY <1>1, <2>2
    <3> QED
      BY <3>1
  <2> QED
    BY <1>1, <2>1, <2>2
<1> HIDE DEF c, m, n
<1>4. ToSet(c) = ToSet(a) \cup ToSet(b)
  <2>1. ASSUME NEW i \in 1 .. m + n PROVE c[i] \in ToSet(a) \cup ToSet(b)
    BY <1>1, <1>2, <1>3 DEF ToSet
  <2>2. ASSUME NEW i \in 1 .. m PROVE a[i] \in ToSet(c)
    BY <1>1, <1>2 DEF ToSet
  <2>3. ASSUME NEW i \in 1 .. n PROVE b[i] \in ToSet(c)
    BY <1>1, <1>2 DEF ToSet
  <2>4. ToSet(c) \subseteq ToSet(a) \cup ToSet(b)
    BY <1>1, <2>1 DEF ToSet
  <2>5. ToSet(a) \subseteq ToSet(c) /\ ToSet(b) \subseteq ToSet(c)
    BY <1>1, <2>2, <2>3 DEF ToSet
  <2> QED
    BY <2>4, <2>5
<1>5. ASSUME IsInjective(c)
      PROVE  IsInjective(a) /\ IsInjective(b) /\ ToSet(a) \cap ToSet(b) = {}
  <2>1. ASSUME NEW i \in 1 .. m, NEW j \in 1 .. m, a[i] = a[j] PROVE i = j
    BY <1>1, <1>2, <1>5, <2>1 DEF IsInjective
  <2>2. ASSUME NEW i \in 1 .. n, NEW j \in 1 .. n, b[i] = b[j] PROVE i = j
    <3>1. m + i = m + j
      BY <1>1, <1>2, <1>5, <2>2 DEF IsInjective
    <3> QED
      BY <1>1, <3>1
  <2>3. ASSUME NEW i \in 1 .. m, NEW j \in 1 .. n PROVE a[i] # b[j]
    <3>1. i # m + j
      BY <1>1
    <3> QED
      BY <1>1, <1>2, <1>5, <3>1 DEF IsInjective
  <2> QED
    BY <1>1, <2>1, <2>2, <2>3 DEF IsInjective, ToSet
<1>6. ASSUME IsInjective(a), IsInjective(b), ToSet(a) \cap ToSet(b) = {}
      PROVE  IsInjective(c)
  <2> SUFFICES ASSUME NEW i \in 1 .. m + n, NEW j \in 1 .. m + n, c[i] = c[j] PROVE i = j
    BY <1>1 DEF IsInjective
  <2>1. ASSUME NEW k \in 1 .. m, NEW l \in 1 .. n PROVE a[k] # b[l]
    BY <1>1, <1>6 DEF ToSet
  <2>2. CASE i \in 1 .. m /\ j \in 1 .. m
    BY <1>1, <1>2, <1>6, <2>2 DEF IsInjective
  <2>3. CASE \E k \in 1 .. n, l \in 1 .. n : i = m + k /\ j = m + l
    <3>1. PICK k \in 1 .. n, l \in 1 .. n : i = m + k /\ j = m + l
      BY <2>3
    <3>2. b[k] = b[l]
      BY <1>2, <3>1
    <3>3. k = l
      BY <1>1, <1>6, <3>2 DEF IsInjective
    <3> QED
      BY <3>1, <3>3
  <2>4. CASE i \in 1 .. m /\ \E l \in 1 .. n : j = m + l
    BY <1>2, <2>1, <2>4
  <2>5. CASE j \in 1 .. m /\ \E l \in 1 .. n : i = m + l
    BY <1>2, <2>1, <2>5
  <2> QED
    BY <1>3, <2>2, <2>3, <2>4, <2>5
<1> QED
  BY <1>1, <1>4, <1>5, <1>6 DEF c, m, n

\* The first n of a sequence and the others make up the whole.
LEMMA Halves ==
    ASSUME NEW S, NEW s \in Seq(S), NEW n \in Nat
    PROVE  LET f == FirstOnes(s, n)
               o == Others(s, n)
           IN  /\ f \in Seq(S) /\ o \in Seq(S) /\ Len(f) <= n
               /\ f \o o = s
<1> DEFINE l == Len(s)
           k == IF n < l THEN n ELSE l
           f == FirstOnes(s, n)
           o == Others(s, n)
<1>1. l \in Nat /\ DOMAIN s = 1 .. l /\ \A i \in 1 .. l : s[i] \in S
  BY LenProperties, ElementOfSeq
<1>2. k \in Nat /\ k <= l /\ k <= n
  BY <1>1
<1>3. f \in Seq(S) /\ Len(f) = k /\ \A i \in 1 .. k : f[i] = s[i]
  <2>1. f = SubSeq(s, 1, k)
    BY DEF FirstOnes
  <2>2. \A i \in 1 .. k : s[i] \in S
    BY <1>1, <1>2
  <2> HIDE DEF k, f
  <2>3. /\ SubSeq(s, 1, k) \in Seq(S)
        /\ Len(SubSeq(s, 1, k)) = IF 1 <= k THEN k - 1 + 1 ELSE 0
        /\ \A i \in 1 .. k - 1 + 1 : SubSeq(s, 1, k)[i] = s[1 + i - 1]
    BY <1>2, <2>2, SubSeqProperties
  <2>4. Len(f) = k
    BY <1>2, <2>1, <2>3
  <2>5. ASSUME NEW i \in 1 .. k PROVE f[i] = s[i]
    <3>1. i \in 1 .. k - 1 + 1 /\ 1 + i - 1 = i
      BY <1>2
    <3> QED
      BY <2>1, <2>3, <3>1
  <2> QED
    BY <2>1, <2>3, <2>4, <2>5
<1>4. o \in Seq(S) /\ Len(o) = l - k /\ \A i \in 1 .. l - k : o[i] = s[k + i]
  <2>1. o = SubSeq(s, n + 1, l)
    BY DEF Others
  <2>2. CASE n < l
    <3>1. k = n
      BY <2>2
    <3>2. \A i \in n + 1 .. l : s[i] \in S
      BY <1>1
    <3> HIDE DEF o, k, l
    <3>3. n + 1 \in Int /\ l \in Int
      BY <1>1
    <3>4. /\ SubSeq(s, n + 1, l) \in Seq(S)
          /\ Len(SubSeq(s, n + 1, l)) = IF n + 1 <= l THEN l - (n + 1) + 1 ELSE 0
          /\ \A i \in 1 .. l - (n + 1) + 1 : SubSeq(s, n + 1, l)[i] = s[n + 1 + i - 1]
      BY <3>2, <3>3, SubSeqProperties
    <3>5. Len(o) = l - k
      BY <1>1, <2>1, <2>2, <3>1, <3>4
    <3>6. ASSUME NEW i \in 1 .. l - k PROVE o[i] = s[k + i]
      <4>1. i \in 1 .. l - (n + 1) + 1 /\ n + 1 + i - 1 = k + i
        BY <1>1, <3>1
      <4> QED
        BY <2>1, <3>4, <4>1
    <3> QED
      BY <2>1, <3>4, <3>5, <3>6
  <2>3. CASE ~(n < l)
    <3>1. k = l /\ l < n + 1 /\ l - k = 0
      BY <1>1, <2>3
    <3>2. o = <<>>
      <4> HIDE DEF o, k, l
      <4>1. n + 1 \in Int /\ l \in Int
        BY <1>1
      <4>2. SubSeq(s, n + 1, l) = <<>>
        BY <3>1, <4>1, SubSeqEmpty
      <4> QED
        BY <2>1, <4>2
    <3> HIDE DEF o, k, l
    <3>3. <<>> \in Seq(S) /\ Len(<<>>) = 0
      BY EmptySeq
    <3> QED
      BY <3>1, <3>2, <3>3
  <2> QED
    BY <2>2, <2>3
<1> HIDE DEF f, o, k
<1>5. f \o o = s
  <2>1. /\ f \o o \in Seq(S) /\ Len(f \o o) = l
        /\ \A i \in 1 .. k + (l - k) : (f \o o)[i] = IF i <= k THEN f[i] ELSE o[i - k]
    <3>1. /\ f \o o \in Seq(S) /\ Len(f \o o) = Len(f) + Len(o)
          /\ \A i \in 1 .. Len(f) + Len(o) :
                (f \o o)[i] = IF i <= Len(f) THEN f[i] ELSE o[i - Len(f)]
      BY <1>3, <1>4, ConcatProperties
    <3>2. Len(f) = k /\ Len(o) = l - k /\ k + (l - k) = l
      BY <1>1, <1>2, <1>3, <1>4
    <3>3. \A i \in 1 .. k + (l - k) : (f \o o)[i] = IF i <= k THEN f[i] ELSE o[i - k]
      BY <3>1, <3>2
    <3>4. Len(f \o o) = l
      BY <3>1, <3>2
    <3> QED
      BY <3>1, <3>3, <3>4
  <2>2. ASSUME NEW i \in 1 .. l PROVE (f \o o)[i] = s[i]
    <3>1. (f \o o)[i] = IF i <= k THEN f[i] ELSE o[i - k]
      BY <1>1, <1>2, <2>1
    <3>2. CASE i <= k
      BY <1>1, <1>2, <1>3, <3>1, <3>2
    <3>3. CASE ~(i <= k)
      <4>1. i - k \in 1 .. l - k /\ k + (i - k) = i
        BY <1>1, <1>2, <3>3
      <4>2. o[i - k] = s[k + (i - k)]
        BY <1>4, <4>1
      <4> QED
        BY <3>1, <3>3, <4>1, <4>2
    <3> QED
      BY <3>2, <3>3
  <2> QED
    BY <2>1, <2>2, SeqEqual
<1> QED
  BY <1>2, <1>3, <1>4, <1>5 DEF f, o

-----------------------------------------------------------------------------
(* The inductive invariant.                                                *)

Other(f) == IF f = "loop" THEN "stop" ELSE "loop"

Places == {"new", "ready", "sleep", "ended", "done"}

\* Types, and that only a flusher between two attempts holds a batch.
Typed == /\ TypeOK
         /\ flush \in [Flushers -> Places]
         /\ \A f \in Flushers : flush[f] # "sleep" => batch[f] = <<>>
         /\ spooling \subseteq Critical

\* Every event is in one place at most.
Apart ==
    /\ IsInjective(queue) /\ \A f \in Flushers : IsInjective(batch[f])
    /\ \A f \in Flushers : ToSet(queue) \cap ToSet(batch[f]) = {}
    /\ ToSet(batch["loop"]) \cap ToSet(batch["stop"]) = {}
    /\ ToSet(queue) \cap (spooling \cup spool) = {}
    /\ \A f \in Flushers : ToSet(batch[f]) \cap (spooling \cup spool) = {}
    /\ spooling \cap spool = {}

\* Only what was emitted is anywhere.
Known == /\ ToSet(queue) \subseteq seen /\ spooling \subseteq seen /\ spool \subseteq seen
         /\ \A f \in Flushers : ToSet(batch[f]) \subseteq seen
         /\ \A e \in Events \ seen : rows[e] = 0

\* What may still be inserted has a row only from inserts that raised.
Counted == /\ DuplicatesByFailure
           /\ \A e \in ToSet(queue) : rows[e] <= failures
           /\ \A f \in Flushers, e \in Events : e \in ToSet(batch[f]) => rows[e] <= failures

Inv == Typed /\ Apart /\ Known /\ Counted /\ LossesAreSeen

-----------------------------------------------------------------------------
(* Events that move: by collect(), or by an attempt of one flusher.        *)

\* The events a step has at hand, those of them that it keeps for an insert.
AtHand(f) == ToSet(queue) \cup ToSet(batch[f]) \cup (seen' \ seen)
Kept(f) == ToSet(queue') \cup ToSet(batch'[f])

\* A step moves the events at hand to the queue or the batch of a flusher, to the
\* spool or into ClickHouse, or counts them as dropped.
Moves(f) ==
    /\ seen \subseteq seen' /\ seen' \subseteq Events
    /\ spool' = spool /\ unspooled' = unspooled
    /\ queue' \in Seq(Events) /\ Len(queue') <= MaxQueue /\ IsInjective(queue')
    /\ batch' \in [Flushers -> Seq(Events)]
    /\ batch'[Other(f)] = batch[Other(f)] /\ IsInjective(batch'[f])
    /\ ToSet(queue') \cap ToSet(batch'[f]) = {}
    /\ Kept(f) \subseteq AtHand(f)
    /\ spooling \subseteq spooling'
    /\ spooling' \ spooling \subseteq (AtHand(f) \cap Critical) \ Kept(f)
    /\ failures \in Nat /\ failures' \in {failures, failures + 1}
    /\ rows \in [Events -> Nat] /\ rows' \in [Events -> Nat]
    /\ \A e \in Events :
          \/ rows'[e] = rows[e]
          \/ /\ rows'[e] = rows[e] + 1 /\ e \in AtHand(f)
             /\ failures' = failures + 1 \/ e \notin Kept(f)
    /\ \E D \in SUBSET (Events \ Critical) :
          /\ dropped' = dropped + Cardinality(D)
          /\ \A e \in AtHand(f) :
                e \in Kept(f) \/ e \in spooling' \/ rows'[e] > 0 \/ e \in D

\* What moves is in one place afterwards, and was emitted.
LEMMA MovesKeepApart ==
    ASSUME Inv, NEW f \in Flushers, Moves(f)
    PROVE  Apart' /\ Known' /\ spooling' \subseteq Critical
<1> DEFINE g == Other(f)
<1>0. /\ Flushers = {f, g} /\ g \in Flushers /\ f # g
      /\ {"loop", "stop"} = {f, g}
  BY DEF Flushers, Other
<1>1. /\ ToSet(queue) \cap ToSet(batch[g]) = {} /\ ToSet(batch[f]) \cap ToSet(batch[g]) = {}
      /\ ToSet(queue) \cap (spooling \cup spool) = {} /\ spooling \cap spool = {}
      /\ ToSet(batch[f]) \cap (spooling \cup spool) = {}
      /\ ToSet(batch[g]) \cap (spooling \cup spool) = {}
      /\ IsInjective(batch[g])
  BY <1>0 DEF Inv, Apart, Flushers
<1>2. /\ ToSet(batch[g]) \subseteq seen /\ spooling \subseteq seen /\ spool \subseteq seen
      /\ ToSet(queue) \subseteq seen /\ ToSet(batch[f]) \subseteq seen
  BY <1>0 DEF Inv, Known
<1>3. AtHand(f) \cap ToSet(batch[g]) = {} /\ AtHand(f) \cap (spooling \cup spool) = {}
  BY <1>1, <1>2 DEF AtHand
<1>4. AtHand(f) \subseteq seen'
  BY <1>2 DEF AtHand, Moves
<1>5. batch'[g] = batch[g] /\ spool' = spool /\ seen \subseteq seen'
  BY DEF Moves
<1>6. /\ ToSet(queue') \subseteq AtHand(f) /\ ToSet(batch'[f]) \subseteq AtHand(f)
      /\ ToSet(queue') \cap ToSet(batch'[f]) = {}
      /\ ToSet(queue') \cap (spooling' \cup spool) = {}
      /\ ToSet(batch'[f]) \cap (spooling' \cup spool) = {}
  BY <1>3 DEF Moves, Kept
<1>7. /\ ToSet(batch'[g]) \cap (spooling' \cup spool) = {}
      /\ spooling' \cap spool = {} /\ spooling' \subseteq seen'
  BY <1>1, <1>2, <1>3, <1>4, <1>5 DEF Moves
<1>8. Apart'
  <2>1. \A h \in Flushers : /\ IsInjective(batch'[h])
                            /\ ToSet(queue') \cap ToSet(batch'[h]) = {}
                            /\ ToSet(batch'[h]) \cap (spooling' \cup spool') = {}
    BY <1>0, <1>1, <1>3, <1>5, <1>6, <1>7 DEF Moves
  <2>2. ToSet(batch'["loop"]) \cap ToSet(batch'["stop"]) = {}
    <3>1. ToSet(batch'[f]) \cap ToSet(batch'[g]) = {}
      BY <1>3, <1>5, <1>6
    <3> QED
      BY <3>1 DEF Other, Flushers
  <2> QED
    BY <1>5, <1>6, <1>7, <2>1, <2>2 DEF Apart, Moves
<1>9. Known'
  <2>1. \A h \in Flushers : ToSet(batch'[h]) \subseteq seen'
    BY <1>0, <1>2, <1>4, <1>5, <1>6
  <2>2. \A e \in Events \ seen' : rows'[e] = 0
    <3> SUFFICES ASSUME NEW e \in Events \ seen' PROVE rows'[e] = 0
      OBVIOUS
    <3>1. e \notin AtHand(f) /\ e \notin seen
      BY <1>4, <1>5
    <3> QED
      BY <3>1 DEF Moves, Inv, Known
  <2> QED
    BY <1>2, <1>4, <1>5, <1>6, <1>7, <2>1, <2>2 DEF Known
<1>10. spooling' \subseteq Critical
  BY DEF Moves, Inv, Typed
<1> QED
  BY <1>8, <1>9, <1>10

\* What is kept for another insert has a row from a failed one only.
LEMMA MovesKeepCounted ==
    ASSUME Inv, NEW f \in Flushers, Moves(f)
    PROVE  Counted'
<1>0. Flushers = {f, Other(f)} /\ Other(f) \in Flushers
  BY DEF Flushers, Other
<1>1. /\ failures \in Nat /\ failures' \in {failures, failures + 1}
      /\ rows \in [Events -> Nat] /\ rows' \in [Events -> Nat]
  BY DEF Moves
<1>2. ASSUME NEW e \in Events, e \in AtHand(f) PROVE rows[e] <= failures
  <2>1. CASE e \in ToSet(queue) \/ e \in ToSet(batch[f])
    BY <2>1 DEF Inv, Counted
  <2>2. CASE e \in seen' \ seen
    BY <1>1, <2>2 DEF Inv, Known
  <2> QED
    BY <1>2, <2>1, <2>2 DEF AtHand
<1>3. ASSUME NEW e \in Events PROVE rows'[e] <= 1 + failures'
  <2>1. rows[e] <= 1 + failures
    BY DEF Inv, Counted, DuplicatesByFailure
  <2>2. CASE rows'[e] = rows[e]
    BY <1>1, <2>1, <2>2
  <2>3. CASE rows'[e] = rows[e] + 1 /\ e \in AtHand(f)
    BY <1>1, <1>2, <2>3
  <2> QED
    BY <2>2, <2>3 DEF Moves
<1>4. ASSUME NEW e \in Events, e \in Kept(f) PROVE rows'[e] <= failures'
  <2>1. rows[e] <= failures
    BY <1>2, <1>4 DEF Moves
  <2>2. CASE rows'[e] = rows[e]
    BY <1>1, <2>1, <2>2
  <2>3. CASE rows'[e] = rows[e] + 1 /\ failures' = failures + 1
    BY <1>1, <2>1, <2>3
  <2> QED
    BY <1>4, <2>2, <2>3 DEF Moves
<1>5. ASSUME NEW e \in Events, e \in ToSet(batch'[Other(f)]) PROVE rows'[e] <= failures'
  <2>1. e \in ToSet(batch[Other(f)])
    BY <1>5 DEF Moves
  <2>2. rows[e] <= failures
    BY <1>0, <2>1 DEF Inv, Counted
  <2>3. e \notin AtHand(f)
    BY <2>1 DEF Inv, Apart, Known, AtHand, Flushers, Other
  <2>4. rows'[e] = rows[e]
    BY <2>3 DEF Moves
  <2> QED
    BY <1>1, <2>2, <2>4
<1>6. ToSet(queue') \subseteq Events
  BY Members DEF Moves
<1>7. \A e \in ToSet(queue') : rows'[e] <= failures'
  BY <1>4, <1>6 DEF Kept
<1>8. \A h \in Flushers, e \in Events : e \in ToSet(batch'[h]) => rows'[e] <= failures'
  BY <1>0, <1>4, <1>5 DEF Kept
<1> QED
  BY <1>3, <1>7, <1>8 DEF Counted, DuplicatesByFailure

\* What a step loses, it counts.
LEMMA MovesAreSeen ==
    ASSUME Inv, NEW f \in Flushers, Moves(f)
    PROVE  LossesAreSeen'
<1>1. PICK D \in SUBSET (Events \ Critical) :
          /\ dropped' = dropped + Cardinality(D)
          /\ \A e \in AtHand(f) :
                e \in Kept(f) \/ e \in spooling' \/ rows'[e] > 0 \/ e \in D
  BY DEF Moves
<1>2. Flushers = {f, Other(f)} /\ Other(f) \in Flushers
  BY DEF Flushers, Other
<1>3. /\ failures \in Nat /\ rows \in [Events -> Nat] /\ rows' \in [Events -> Nat]
      /\ spool' = spool /\ spooling \subseteq spooling' /\ batch'[Other(f)] = batch[Other(f)]
  BY DEF Moves
<1>4. ASSUME NEW e \in Events, e \in Gone' PROVE e \in Gone \cup D
  <2>1. /\ e \in seen' /\ e \notin ToSet(queue') /\ e \notin spooling'
        /\ \A h \in Flushers : e \notin ToSet(batch'[h])
        /\ ~(rows'[e] > 0) /\ e \notin spool'
    BY <1>4 DEF Gone, InMemory, Delivered
  <2>2. e \notin Kept(f)
    BY <1>2, <2>1 DEF Kept
  <2>3. CASE e \in AtHand(f)
    BY <1>1, <2>1, <2>2, <2>3
  <2>4. CASE e \notin AtHand(f)
    <3>1. e \in seen /\ e \notin ToSet(queue) /\ e \notin ToSet(batch[f])
      BY <2>1, <2>4 DEF AtHand
    <3>2. e \notin ToSet(batch[Other(f)]) /\ e \notin spooling /\ e \notin spool
      BY <1>2, <1>3, <2>1
    <3>3. rows'[e] = rows[e]
      BY <2>4 DEF Moves
    <3>4. ~(rows[e] > 0)
      BY <2>1, <3>3
    <3> QED
      BY <1>2, <3>1, <3>2, <3>4 DEF Gone, InMemory, Delivered
  <2> QED
    BY <2>3, <2>4
<1>5. Gone \subseteq Events /\ Gone' \subseteq Events
  BY DEF Gone, Inv, Typed, TypeOK, Moves
<1>6. Gone' \cap Critical \subseteq unspooled'
  BY <1>4, <1>5 DEF Inv, LossesAreSeen, Moves
<1>7. Cardinality(Gone' \ Critical) <= dropped'
  <2> DEFINE old == Gone \ Critical
             new == Gone' \ Critical
  <2>1. IsFiniteSet(old) /\ IsFiniteSet(D)
    BY <1>5, FS_Subset, AnalyticsAssumption
  <2>2. new \in SUBSET (old \cup D)
    BY <1>4, <1>5
  <2>3. Cardinality(old) <= dropped /\ dropped \in Nat
    BY DEF Inv, LossesAreSeen, Typed, TypeOK
  <2> HIDE DEF old, new
  <2>4. /\ IsFiniteSet(old \cup D) /\ IsFiniteSet(old \cap D)
        /\ Cardinality(old \cup D)
              = Cardinality(old) + Cardinality(D) - Cardinality(old \cap D)
    BY <2>1, FS_Union, FS_Intersection
  <2>5. Cardinality(new) <= Cardinality(old \cup D) /\ IsFiniteSet(new)
    BY <2>2, <2>4, FS_Subset
  <2>6. /\ Cardinality(old) \in Nat /\ Cardinality(D) \in Nat
        /\ Cardinality(old \cap D) \in Nat /\ Cardinality(new) \in Nat
        /\ Cardinality(old \cup D) \in Nat
    BY <2>1, <2>4, <2>5, FS_CardinalityType
  <2>7. Cardinality(new) <= dropped + Cardinality(D)
    BY <2>3, <2>4, <2>5, <2>6
  <2> QED
    BY <1>1, <2>7 DEF new
<1> QED
  BY <1>6, <1>7 DEF LossesAreSeen

-----------------------------------------------------------------------------
(* The steps are such moves.                                               *)

\* The constants are numbers, and the events can be counted.
LEMMA Sizes == /\ MaxQueue \in Nat /\ BatchSize \in Nat /\ MaxRetries \in Nat
               /\ MaxRetries > 0 /\ BatchSize > 0 /\ MaxFailures \in Nat
               /\ IsFiniteSet(Events) /\ Critical \subseteq Events
BY AnalyticsAssumption

\* Events that are offered end up in the queue, on their way to the spool, or
\* counted as dropped.
LEMMA Offered ==
    ASSUME NEW q \in Seq(Events), NEW events \in Seq(Events),
           IsInjective(q), IsInjective(events), ToSet(q) \cap ToSet(events) = {},
           Len(q) <= MaxQueue, dropped \in Nat, Offer(q, events)
    PROVE  /\ queue' \in Seq(Events) /\ Len(queue') <= MaxQueue /\ IsInjective(queue')
           /\ ToSet(q) \subseteq ToSet(queue')
           /\ ToSet(queue') \subseteq ToSet(q) \cup ToSet(events)
           /\ spooling \subseteq spooling'
           /\ spooling' \ spooling \subseteq (ToSet(events) \cap Critical) \ ToSet(queue')
           /\ dropped' \in Nat
           /\ \E D \in SUBSET (Events \ Critical) :
                 /\ dropped' = dropped + Cardinality(D)
                 /\ \A e \in ToSet(events) : e \in ToSet(queue') \/ e \in spooling' \/ e \in D
<1> DEFINE room == MaxQueue - Len(q)
           fit == FirstOnes(events, room)
           rest == Others(events, room)
           D == ToSet(rest) \ Critical
<1>1. /\ queue' = q \o fit
      /\ dropped' = dropped + Cardinality(D)
      /\ spooling' = spooling \cup (ToSet(rest) \cap Critical)
  BY DEF Offer
<1>2. room \in Nat /\ Len(q) + room = MaxQueue
  BY LenProperties, Sizes
<1> HIDE DEF room
<1>3. fit \in Seq(Events) /\ rest \in Seq(Events) /\ Len(fit) <= room /\ fit \o rest = events
  BY <1>2, Halves
<1> HIDE DEF fit, rest
<1>4. /\ ToSet(events) = ToSet(fit) \cup ToSet(rest) /\ ToSet(fit) \cap ToSet(rest) = {}
      /\ IsInjective(fit)
  <2>1. IsInjective(fit \o rest)
    BY <1>3
  <2>2. /\ ToSet(fit \o rest) = ToSet(fit) \cup ToSet(rest)
        /\ IsInjective(fit \o rest) <=> /\ IsInjective(fit) /\ IsInjective(rest)
                                        /\ ToSet(fit) \cap ToSet(rest) = {}
    <3>1. fit \in Seq(Events) /\ rest \in Seq(Events)
      BY <1>3
    <3> HIDE DEF D
    <3> QED
      BY <3>1, Joined
  <2>3. ToSet(fit \o rest) = ToSet(events)
    BY <1>3
  <2> QED
    BY <2>1, <2>2, <2>3
<1>5. /\ queue' \in Seq(Events) /\ Len(queue') = Len(q) + Len(fit)
      /\ ToSet(queue') = ToSet(q) \cup ToSet(fit) /\ IsInjective(queue')
  BY <1>1, <1>3, <1>4, Joined
<1>6. Len(queue') <= MaxQueue
  <2>1. Len(q) \in Nat /\ Len(fit) \in Nat
    BY <1>3, LenProperties
  <2> QED
    BY <1>2, <1>3, <1>5, <2>1, Sizes
<1>7. spooling' \ spooling \subseteq (ToSet(events) \cap Critical) \ ToSet(queue')
  BY <1>1, <1>4, <1>5
<1>8. D \in SUBSET (Events \ Critical)
  BY <1>3, Members
<1>9. dropped' \in Nat
  <2>1. D \in SUBSET Events
    BY <1>8
  <2>2. IsFiniteSet(D)
    BY <2>1, FS_Subset, Sizes
  <2>3. Cardinality(D) \in Nat
    BY <2>2, FS_CardinalityType
  <2> QED
    BY <1>1, <2>3
<1>10. \A e \in ToSet(events) : e \in ToSet(queue') \/ e \in spooling' \/ e \in D
  BY <1>1, <1>4, <1>5
<1> HIDE DEF D
<1> QED
  BY <1>1, <1>4, <1>5, <1>6, <1>7, <1>8, <1>9, <1>10

\* The state that an attempt of a flusher leaves besides the events.
Tidies(f) ==
    /\ dropped' \in Nat /\ failures' \in 0 .. MaxFailures
    /\ flush' \in [Flushers -> Places] /\ flush'[Other(f)] = flush[Other(f)]
    /\ flush'[f] \in {"sleep", Idle(f)} /\ (flush'[f] # "sleep" => batch'[f] = <<>>)
    /\ attempt' \in [Flushers -> 0 .. MaxRetries - 1]

\* The two flushers and the place each comes to rest at.
LEMMA TheFlushers == ASSUME NEW f \in Flushers
                     PROVE  /\ Flushers = {f, Other(f)} /\ Other(f) \in Flushers
                            /\ Other(f) # f /\ Idle(f) \in Places /\ Idle(f) # "sleep"
BY DEF Flushers, Other, Idle, Places

\* Where a flusher goes, and with which batch.
LEMMA WhereAt ==
    ASSUME Typed, NEW f \in Flushers, NEW place \in {"sleep", Idle(f)},
           NEW events \in Seq(Events), NEW n \in 0 .. MaxRetries - 1,
           place # "sleep" => events = <<>>, At(f, place, events, n)
    PROVE  /\ flush' \in [Flushers -> Places] /\ flush'[Other(f)] = flush[Other(f)]
           /\ flush'[f] = place /\ (flush'[f] # "sleep" => batch'[f] = <<>>)
           /\ attempt' \in [Flushers -> 0 .. MaxRetries - 1]
           /\ batch' \in [Flushers -> Seq(Events)]
           /\ batch'[f] = events /\ batch'[Other(f)] = batch[Other(f)]
<1>1. /\ place \in Places /\ Other(f) \in Flushers /\ Other(f) # f
      /\ flush \in [Flushers -> Places] /\ batch \in [Flushers -> Seq(Events)]
      /\ attempt \in [Flushers -> 0 .. MaxRetries - 1]
  BY TheFlushers DEF Typed, TypeOK, Places
<1> QED
  BY <1>1 DEF At

\* The rows after an insert: one more for the events of the tables it reached.
LEMMA Inserted ==
    ASSUME rows \in [Events -> Nat], NEW events \in Seq(Events), NEW tables,
           Insert(events, tables)
    PROVE  /\ rows' \in [Events -> Nat]
           /\ \A e \in Events : \/ rows'[e] = rows[e]
                                \/ rows'[e] = rows[e] + 1 /\ e \in ToSet(events)
           /\ tables = Tables(events) => \A e \in ToSet(events) : rows'[e] > 0
<1>1. rows' \in [Events -> Nat]
      /\ \A e \in Events : \/ rows'[e] = rows[e]
                           \/ rows'[e] = rows[e] + 1 /\ e \in ToSet(events)
  BY DEF Insert
<1>2. ASSUME tables = Tables(events), NEW e \in ToSet(events) PROVE rows'[e] > 0
  <2>1. PICK i \in DOMAIN events : e = events[i]
    BY DEF ToSet
  <2>2. TableOf[e] \in tables
    BY <1>2, <2>1 DEF Tables, ToSet
  <2>3. e \in Events
    BY Members
  <2> QED
    BY <1>2, <2>2, <2>3 DEF Insert
<1> QED
  BY <1>1, <1>2

\* An attempt moves its batch and the queue.
LEMMA AttemptMoves ==
    ASSUME Typed, NEW f \in Flushers, NEW n \in 1 .. MaxRetries,
           NEW q \in Seq(Events), NEW events \in Seq(Events),
           IsInjective(q), IsInjective(events), ToSet(q) \cap ToSet(events) = {},
           Len(q) <= MaxQueue,
           ToSet(q) \cup ToSet(events) = ToSet(queue) \cup ToSet(batch[f]),
           Attempt(f, q, events, n), UNCHANGED <<spool, seen, unspooled>>
    PROVE  Moves(f) /\ Tidies(f)
<1>1. /\ seen' = seen /\ spool' = spool /\ unspooled' = unspooled /\ seen \subseteq Events
      /\ failures \in 0 .. MaxFailures /\ failures \in Nat /\ dropped \in Nat
      /\ rows \in [Events -> Nat]
  BY DEF Typed, TypeOK
<1>2. AtHand(f) = ToSet(q) \cup ToSet(events)
  BY <1>1 DEF AtHand
<1>3. <<>> \in Seq(Events) /\ ToSet(<<>>) = {} /\ IsInjective(<<>>)
  BY EmptySeq, NoMembers
<1>4. 0 \in 0 .. MaxRetries - 1 /\ (n < MaxRetries => n \in 0 .. MaxRetries - 1)
  BY Sizes
<1>5. {} \in SUBSET (Events \ Critical) /\ Cardinality({}) = 0
  BY FS_EmptySet
<1>6. CASE /\ Insert(events, Tables(events)) /\ At(f, Idle(f), <<>>, 0)
           /\ queue' = q /\ UNCHANGED <<dropped, spooling, failures>>
  <2>1. /\ flush' \in [Flushers -> Places] /\ flush'[Other(f)] = flush[Other(f)]
        /\ flush'[f] = Idle(f) /\ (flush'[f] # "sleep" => batch'[f] = <<>>)
        /\ attempt' \in [Flushers -> 0 .. MaxRetries - 1]
        /\ batch' \in [Flushers -> Seq(Events)]
        /\ batch'[f] = <<>> /\ batch'[Other(f)] = batch[Other(f)]
    BY <1>3, <1>4, <1>6, WhereAt
  <2>2. Kept(f) = ToSet(q)
    BY <1>3, <1>6, <2>1 DEF Kept
  <2>3. /\ rows' \in [Events -> Nat]
        /\ \A e \in Events : \/ rows'[e] = rows[e]
                             \/ rows'[e] = rows[e] + 1 /\ e \in ToSet(events)
        /\ \A e \in ToSet(events) : rows'[e] > 0
    BY <1>1, <1>6, Inserted
  <2>4. dropped' = dropped + Cardinality({})
    BY <1>1, <1>5, <1>6
  <2>5. Tidies(f)
    BY <1>1, <1>6, <2>1 DEF Tidies
  <2>6. \A e \in Events :
          \/ rows'[e] = rows[e]
          \/ /\ rows'[e] = rows[e] + 1 /\ e \in AtHand(f)
             /\ failures' = failures + 1 \/ e \notin Kept(f)
    BY <1>2, <2>2, <2>3
  <2>7. \A e \in AtHand(f) : e \in Kept(f) \/ e \in spooling' \/ rows'[e] > 0 \/ e \in {}
    BY <1>2, <2>2, <2>3
  <2>8. /\ queue' \in Seq(Events) /\ Len(queue') <= MaxQueue /\ IsInjective(queue')
        /\ IsInjective(batch'[f]) /\ ToSet(queue') \cap ToSet(batch'[f]) = {}
        /\ spooling' = spooling /\ failures' = failures
    BY <1>3, <1>6, <2>1
  <2>9. Kept(f) \subseteq AtHand(f)
    BY <1>2, <2>2
  <2> QED
    BY <1>1, <1>5, <2>1, <2>3, <2>4, <2>5, <2>6, <2>7, <2>8, <2>9 DEF Moves
<1>7. ASSUME NEW ts, failures < MaxFailures, failures' = failures + 1, Insert(events, ts),
             n < MaxRetries, At(f, "sleep", events, n), queue' = q,
             UNCHANGED <<dropped, spooling>>
      PROVE  Moves(f) /\ Tidies(f)
  <2>1. /\ flush' \in [Flushers -> Places] /\ flush'[Other(f)] = flush[Other(f)]
        /\ flush'[f] = "sleep" /\ (flush'[f] # "sleep" => batch'[f] = <<>>)
        /\ attempt' \in [Flushers -> 0 .. MaxRetries - 1]
        /\ batch' \in [Flushers -> Seq(Events)]
        /\ batch'[f] = events /\ batch'[Other(f)] = batch[Other(f)]
    BY <1>4, <1>7, WhereAt
  <2>2. Kept(f) = AtHand(f)
    BY <1>2, <1>7, <2>1 DEF Kept
  <2>3. /\ rows' \in [Events -> Nat]
        /\ \A e \in Events : \/ rows'[e] = rows[e]
                             \/ rows'[e] = rows[e] + 1 /\ e \in ToSet(events)
    BY <1>1, <1>7, Inserted
  <2>4. dropped' = dropped + Cardinality({})
    BY <1>1, <1>5, <1>7
  <2>5. Tidies(f)
    <3>1. failures' \in 0 .. MaxFailures
      BY <1>1, <1>7, Sizes
    <3> QED
      BY <1>1, <1>7, <2>1, <3>1 DEF Tidies
  <2>6. \A e \in Events :
          \/ rows'[e] = rows[e]
          \/ /\ rows'[e] = rows[e] + 1 /\ e \in AtHand(f)
             /\ failures' = failures + 1 \/ e \notin Kept(f)
    BY <1>2, <1>7, <2>3
  <2>7. \A e \in AtHand(f) : e \in Kept(f) \/ e \in spooling' \/ rows'[e] > 0 \/ e \in {}
    BY <2>2
  <2>8. /\ queue' \in Seq(Events) /\ Len(queue') <= MaxQueue /\ IsInjective(queue')
        /\ IsInjective(batch'[f]) /\ ToSet(queue') \cap ToSet(batch'[f]) = {}
        /\ spooling' = spooling
    BY <1>7, <2>1
  <2> QED
    BY <1>1, <1>5, <1>7, <2>1, <2>2, <2>3, <2>4, <2>5, <2>6, <2>7, <2>8 DEF Moves
<1>8. ASSUME NEW ts, failures < MaxFailures, failures' = failures + 1, Insert(events, ts),
             At(f, Idle(f), <<>>, 0), Offer(q, events)
      PROVE  Moves(f) /\ Tidies(f)
  <2>1. /\ flush' \in [Flushers -> Places] /\ flush'[Other(f)] = flush[Other(f)]
        /\ flush'[f] = Idle(f) /\ (flush'[f] # "sleep" => batch'[f] = <<>>)
        /\ attempt' \in [Flushers -> 0 .. MaxRetries - 1]
        /\ batch' \in [Flushers -> Seq(Events)]
        /\ batch'[f] = <<>> /\ batch'[Other(f)] = batch[Other(f)]
    BY <1>3, <1>4, <1>8, WhereAt
  <2>2. /\ queue' \in Seq(Events) /\ Len(queue') <= MaxQueue /\ IsInjective(queue')
        /\ ToSet(q) \subseteq ToSet(queue')
        /\ ToSet(queue') \subseteq ToSet(q) \cup ToSet(events)
        /\ spooling \subseteq spooling'
        /\ spooling' \ spooling \subseteq (ToSet(events) \cap Critical) \ ToSet(queue')
        /\ dropped' \in Nat
        /\ \E D \in SUBSET (Events \ Critical) :
              /\ dropped' = dropped + Cardinality(D)
              /\ \A e \in ToSet(events) : e \in ToSet(queue') \/ e \in spooling' \/ e \in D
    BY <1>1, <1>8, Offered
  <2>3. Kept(f) = ToSet(queue') /\ IsInjective(batch'[f])
        /\ ToSet(queue') \cap ToSet(batch'[f]) = {}
    BY <1>3, <2>1 DEF Kept
  <2>4. /\ rows' \in [Events -> Nat]
        /\ \A e \in Events : \/ rows'[e] = rows[e]
                             \/ rows'[e] = rows[e] + 1 /\ e \in ToSet(events)
    BY <1>1, <1>8, Inserted
  <2>5. Tidies(f)
    <3>1. failures' \in 0 .. MaxFailures
      BY <1>1, <1>8, Sizes
    <3> QED
      BY <2>1, <2>2, <3>1 DEF Tidies
  <2>6. \A e \in Events :
          \/ rows'[e] = rows[e]
          \/ /\ rows'[e] = rows[e] + 1 /\ e \in AtHand(f)
             /\ failures' = failures + 1 \/ e \notin Kept(f)
    BY <1>2, <1>8, <2>4
  <2>7. PICK D \in SUBSET (Events \ Critical) :
          /\ dropped' = dropped + Cardinality(D)
          /\ \A e \in ToSet(events) : e \in ToSet(queue') \/ e \in spooling' \/ e \in D
    BY <2>2
  <2>8. \A e \in AtHand(f) : e \in Kept(f) \/ e \in spooling' \/ rows'[e] > 0 \/ e \in D
    BY <1>2, <2>2, <2>3, <2>7
  <2>9. /\ Kept(f) \subseteq AtHand(f)
        /\ spooling' \ spooling \subseteq (AtHand(f) \cap Critical) \ Kept(f)
    BY <1>2, <2>2, <2>3
  <2> QED
    BY <1>1, <1>8, <2>1, <2>2, <2>3, <2>4, <2>5, <2>6, <2>7, <2>8, <2>9 DEF Moves
<1> QED
  BY <1>6, <1>7, <1>8 DEF Attempt

\* A collected event is at hand, and lands in the queue, before the spool, or in the
\* count of the dropped.
LEMMA CollectMoves ==
    ASSUME Inv, NEW e \in Events, Collect(e)
    PROVE  Moves("loop") /\ dropped' \in Nat
<1> DEFINE f == "loop"
<1>1. /\ queue \in Seq(Events) /\ Len(queue) <= MaxQueue /\ dropped \in Nat
      /\ IsInjective(queue) /\ ToSet(queue) \subseteq seen /\ seen \subseteq Events
      /\ rows \in [Events -> Nat] /\ failures \in 0 .. MaxFailures
      /\ batch \in [Flushers -> Seq(Events)] /\ f \in Flushers
  BY DEF Inv, Typed, TypeOK, Apart, Known, Flushers
<1>2. /\ e \notin seen /\ seen' = seen \cup {e} /\ Offer(queue, <<e>>)
      /\ spool' = spool /\ batch' = batch /\ rows' = rows /\ unspooled' = unspooled
      /\ failures' = failures
  BY DEF Collect, flusher
<1>3. /\ <<e>> \in Seq(Events) /\ ToSet(<<e>>) = {e} /\ IsInjective(<<e>>)
  BY OneMember
<1>4. ToSet(queue) \cap ToSet(<<e>>) = {}
  BY <1>1, <1>2, <1>3
<1>5. /\ queue' \in Seq(Events) /\ Len(queue') <= MaxQueue /\ IsInjective(queue')
      /\ ToSet(queue) \subseteq ToSet(queue')
      /\ ToSet(queue') \subseteq ToSet(queue) \cup ToSet(<<e>>)
      /\ spooling \subseteq spooling'
      /\ spooling' \ spooling \subseteq (ToSet(<<e>>) \cap Critical) \ ToSet(queue')
      /\ dropped' \in Nat
      /\ \E D \in SUBSET (Events \ Critical) :
            /\ dropped' = dropped + Cardinality(D)
            /\ \A d \in ToSet(<<e>>) : d \in ToSet(queue') \/ d \in spooling' \/ d \in D
  BY <1>1, <1>2, <1>3, <1>4, Offered
<1>6. /\ IsInjective(batch[f]) /\ ToSet(queue) \cap ToSet(batch[f]) = {}
      /\ ToSet(batch[f]) \subseteq seen
  BY <1>1 DEF Inv, Apart, Known
<1>7. /\ seen' \ seen = {e} /\ e \notin ToSet(batch[f])
      /\ AtHand(f) = ToSet(queue) \cup ToSet(batch[f]) \cup {e}
      /\ Kept(f) = ToSet(queue') \cup ToSet(batch[f])
  BY <1>2, <1>6 DEF AtHand, Kept
<1>8. PICK D \in SUBSET (Events \ Critical) :
         /\ dropped' = dropped + Cardinality(D)
         /\ \A d \in ToSet(<<e>>) : d \in ToSet(queue') \/ d \in spooling' \/ d \in D
  BY <1>5
<1>9. \A d \in AtHand(f) : d \in Kept(f) \/ d \in spooling' \/ rows'[d] > 0 \/ d \in D
  BY <1>3, <1>5, <1>7, <1>8
<1>10. /\ ToSet(queue') \cap ToSet(batch'[f]) = {} /\ Kept(f) \subseteq AtHand(f)
       /\ spooling' \ spooling \subseteq (AtHand(f) \cap Critical) \ Kept(f)
  BY <1>2, <1>3, <1>5, <1>6, <1>7
<1>11. seen \subseteq seen' /\ seen' \subseteq Events /\ failures \in Nat
  BY <1>1, <1>2
<1> HIDE DEF f
<1>12. Moves(f)
  BY <1>1, <1>2, <1>5, <1>6, <1>8, <1>9, <1>10, <1>11 DEF Moves
<1> QED
  BY <1>5, <1>12 DEF f

\* A flush takes the first of the queue in hand, a retry the batch it has.
LEMMA FlushMoves ==
    ASSUME Inv, NEW f \in Flushers, flush[f] # "sleep", FlushOnce(f),
           UNCHANGED <<spool, seen, unspooled>>
    PROVE  Moves(f) /\ Tidies(f)
<1>1. /\ queue \in Seq(Events) /\ Len(queue) <= MaxQueue /\ IsInjective(queue)
      /\ batch[f] = <<>> /\ Typed /\ dropped \in Nat /\ failures \in 0 .. MaxFailures
      /\ rows \in [Events -> Nat] /\ seen \subseteq Events
      /\ batch \in [Flushers -> Seq(Events)]
  BY DEF Inv, Typed, TypeOK, Apart
<1>2. ToSet(<<>>) = {} /\ IsInjective(<<>>) /\ <<>> \in Seq(Events)
  BY NoMembers, EmptySeq
<1>3. CASE queue # <<>>
  <2> DEFINE events == FirstOnes(queue, BatchSize)
             q == Drained(queue)
  <2>1. events \in Seq(Events) /\ q \in Seq(Events) /\ events \o q = queue
    BY <1>1, Halves, Sizes DEF Drained
  <2>2. Attempt(f, q, events, 1)
    BY <1>3 DEF FlushOnce
  <2> HIDE DEF events, q
  <2>3. /\ Len(events \o q) = Len(events) + Len(q)
        /\ ToSet(events \o q) = ToSet(events) \cup ToSet(q)
        /\ IsInjective(events \o q) <=> /\ IsInjective(events) /\ IsInjective(q)
                                        /\ ToSet(events) \cap ToSet(q) = {}
    <3>1. events \in Seq(Events) /\ q \in Seq(Events)
      BY <2>1
    <3> QED
      BY <3>1, Joined
  <2>4. Len(events \o q) <= MaxQueue /\ IsInjective(events \o q)
    BY <1>1, <2>1
  <2>5. IsInjective(events) /\ IsInjective(q) /\ ToSet(q) \cap ToSet(events) = {}
    BY <2>3, <2>4
  <2>6. Len(q) <= MaxQueue
    <3>1. Len(events) \in Nat /\ Len(q) \in Nat
      BY <2>1, LenProperties
    <3> QED
      BY <2>3, <2>4, <3>1, Sizes
  <2>7. ToSet(events \o q) = ToSet(queue)
    BY <2>1
  <2>8. ToSet(q) \cup ToSet(events) = ToSet(queue) \cup ToSet(batch[f])
    BY <1>1, <1>2, <2>3, <2>7
  <2>9. 1 \in 1 .. MaxRetries
    BY Sizes
  <2> QED
    BY <1>1, <2>1, <2>2, <2>5, <2>6, <2>8, <2>9, AttemptMoves
<1>4. CASE queue = <<>>
  <2>1. /\ At(f, Idle(f), <<>>, 0) /\ queue' = queue /\ dropped' = dropped
        /\ spooling' = spooling /\ rows' = rows /\ failures' = failures
    BY <1>4 DEF FlushOnce, memory
  <2>2. 0 \in 0 .. MaxRetries - 1
    BY Sizes
  <2>3. /\ flush' \in [Flushers -> Places] /\ flush'[Other(f)] = flush[Other(f)]
        /\ flush'[f] = Idle(f) /\ (flush'[f] # "sleep" => batch'[f] = <<>>)
        /\ attempt' \in [Flushers -> 0 .. MaxRetries - 1]
        /\ batch' \in [Flushers -> Seq(Events)]
        /\ batch'[f] = <<>> /\ batch'[Other(f)] = batch[Other(f)]
    BY <1>1, <1>2, <2>1, <2>2, WhereAt
  <2>4. AtHand(f) = {} /\ Kept(f) = {}
    BY <1>1, <1>2, <1>4, <2>1, <2>3 DEF AtHand, Kept
  <2>5. {} \in SUBSET (Events \ Critical) /\ dropped' = dropped + Cardinality({})
    BY <1>1, <2>1, FS_EmptySet
  <2>6. \E D \in SUBSET (Events \ Critical) :
          /\ dropped' = dropped + Cardinality(D)
          /\ \A e \in AtHand(f) :
                e \in Kept(f) \/ e \in spooling' \/ rows'[e] > 0 \/ e \in D
    BY <2>4, <2>5
  <2>7. Moves(f)
    BY <1>1, <1>2, <2>1, <2>3, <2>4, <2>6 DEF Moves
  <2> QED
    BY <1>1, <2>1, <2>3, <2>7 DEF Tidies
<1> QED
  BY <1>3, <1>4

\* A retry takes the batch that the flusher holds.
LEMMA RetryMoves ==
    ASSUME Inv, NEW f \in Flushers, Retry(f)
    PROVE  Moves(f) /\ Tidies(f)
<1>1. /\ queue \in Seq(Events) /\ Len(queue) <= MaxQueue /\ IsInjective(queue)
      /\ batch[f] \in Seq(Events) /\ IsInjective(batch[f]) /\ Typed
      /\ ToSet(queue) \cap ToSet(batch[f]) = {} /\ attempt[f] \in 0 .. MaxRetries - 1
  BY DEF Inv, Typed, TypeOK, Apart
<1>2. attempt[f] + 1 \in 1 .. MaxRetries
  BY <1>1, Sizes
<1>3. Attempt(f, queue, batch[f], attempt[f] + 1) /\ UNCHANGED <<spool, seen, unspooled>>
  BY DEF Retry, history
<1> QED
  BY <1>1, <1>2, <1>3, AttemptMoves

\* A step that only moves events keeps the invariant.
LEMMA MovesKeepInv ==
    ASSUME Inv, NEW f \in Flushers, Moves(f),
           dropped' \in Nat, failures' \in 0 .. MaxFailures,
           flush' \in [Flushers -> Places],
           flush'["loop"] \in {"ready", "sleep", "ended"},
           flush'["stop"] \in {"new", "sleep", "done"},
           \A g \in Flushers : flush'[g] # "sleep" => batch'[g] = <<>>,
           attempt' \in [Flushers -> 0 .. MaxRetries - 1],
           stopped' \in BOOLEAN
    PROVE  Inv'
<1>1. Apart' /\ Known' /\ spooling' \subseteq Critical
  BY MovesKeepApart
<1>2. Counted'
  BY MovesKeepCounted
<1>3. LossesAreSeen'
  BY MovesAreSeen
<1>4. TypeOK'
  <2>1. {spooling', spool', seen', unspooled'} \subseteq SUBSET Events
    <3>1. spool \subseteq Events /\ unspooled \subseteq Events
      BY DEF Inv, Typed, TypeOK
    <3>2. spooling' \subseteq Events
      BY <1>1, Sizes
    <3>3. spool' = spool /\ unspooled' = unspooled /\ seen' \subseteq Events
      BY DEF Moves
    <3> QED
      BY <3>1, <3>2, <3>3
  <2>2. /\ queue' \in Seq(Events) /\ Len(queue') <= MaxQueue
        /\ batch' \in [Flushers -> Seq(Events)] /\ rows' \in [Events -> Nat]
    BY DEF Moves
  <2> QED
    BY <2>1, <2>2 DEF TypeOK
<1>5. Typed'
  BY <1>1, <1>4 DEF Typed
<1> QED
  BY <1>1, <1>2, <1>3, <1>5 DEF Inv

\* collect() keeps the invariant.
LEMMA CollectKeeps == ASSUME Inv, NEW e \in Events, Collect(e) PROVE Inv'
<1>1. Moves("loop") /\ dropped' \in Nat /\ "loop" \in Flushers
  BY CollectMoves DEF Flushers
<1>2. /\ flush' = flush /\ batch' = batch /\ attempt' = attempt /\ stopped' = stopped
      /\ failures' = failures
  BY DEF Collect, flusher
<1>3. Typed /\ TypeOK
  BY DEF Inv, Typed, TypeOK
<1>4. /\ failures \in 0 .. MaxFailures /\ flush \in [Flushers -> Places]
      /\ flush["loop"] \in {"ready", "sleep", "ended"}
      /\ flush["stop"] \in {"new", "sleep", "done"}
      /\ \A g \in Flushers : flush[g] # "sleep" => batch[g] = <<>>
      /\ attempt \in [Flushers -> 0 .. MaxRetries - 1] /\ stopped \in BOOLEAN
  BY <1>3 DEF Typed, TypeOK
<1> QED
  BY <1>1, <1>2, <1>4, MovesKeepInv

\* A write to the spool takes one event out of memory, and notes it when it fails.
LEMMA SafeSpoolKeeps == ASSUME Inv, NEW e \in Events, SafeSpool(e) PROVE Inv'
<1>1. /\ e \in spooling /\ spooling' = spooling \ {e}
      /\ queue' = queue /\ dropped' = dropped /\ flush' = flush /\ batch' = batch
      /\ attempt' = attempt /\ stopped' = stopped /\ rows' = rows /\ seen' = seen
  BY DEF SafeSpool, flusher
<1>2. \/ spool' = spool \cup {e} /\ unspooled' = unspooled /\ failures' = failures
      \/ /\ failures < MaxFailures /\ failures' = failures + 1
         /\ unspooled' = unspooled \cup {e} /\ spool' = spool
  BY DEF SafeSpool
<1>3. /\ failures \in Nat /\ rows \in [Events -> Nat] /\ e \in Critical /\ e \in seen
      /\ failures \in 0 .. MaxFailures
  BY <1>1 DEF Inv, Typed, TypeOK, Known
<1>4. /\ spool' \subseteq spool \cup {e} /\ unspooled' \subseteq unspooled \cup {e}
      /\ unspooled \subseteq unspooled' /\ spool \subseteq spool'
      /\ failures <= failures' /\ failures' \in 0 .. MaxFailures /\ failures' \in Nat
      /\ e \in spool' \/ e \in unspooled'
  BY <1>2, <1>3, Sizes
<1>5. Typed'
  <2>1. TypeOK'
    <3>1. {spooling', spool', seen', unspooled'} \subseteq SUBSET Events
      BY <1>1, <1>4 DEF Inv, Typed, TypeOK
    <3> QED
      BY <1>1, <1>4, <3>1 DEF Inv, Typed, TypeOK
  <2> QED
    BY <1>1, <2>1 DEF Inv, Typed
<1>6. Apart'
  <2>1. spooling' \cup spool' \subseteq spooling \cup spool
    BY <1>1, <1>4
  <2>2. spooling' \cap spool' = {}
    BY <1>1, <1>4 DEF Inv, Apart
  <2> QED
    BY <1>1, <2>1, <2>2 DEF Inv, Apart
<1>7. Known'
  BY <1>1, <1>3, <1>4 DEF Inv, Known
<1>8. Counted'
  <2>1. ASSUME NEW d \in Events PROVE rows'[d] <= 1 + failures'
    BY <1>1, <1>3, <1>4 DEF Inv, Counted, DuplicatesByFailure
  <2>2. ASSUME NEW d \in ToSet(queue') PROVE rows'[d] <= failures'
    <3>1. rows[d] <= failures /\ d \in Events
      BY <1>1, Members DEF Inv, Counted, Typed, TypeOK
    <3> QED
      BY <1>1, <1>3, <1>4, <3>1
  <2>3. ASSUME NEW h \in Flushers, NEW d \in Events, d \in ToSet(batch'[h])
        PROVE  rows'[d] <= failures'
    <3>1. rows[d] <= failures
      BY <1>1, <2>3 DEF Inv, Counted
    <3> QED
      BY <1>1, <1>3, <1>4, <3>1
  <2> QED
    BY <2>1, <2>2, <2>3 DEF Counted, DuplicatesByFailure
<1>9. LossesAreSeen'
  <2>1. \A d \in Gone' : d \in Gone \/ (d = e /\ e \in unspooled')
    BY <1>1, <1>4 DEF Gone, InMemory, Delivered
  <2>2. Gone' \cap Critical \subseteq unspooled'
    BY <1>4, <2>1 DEF Inv, LossesAreSeen
  <2>3. Gone' \ Critical \subseteq Gone \ Critical /\ Gone \subseteq Events
    BY <1>3, <2>1 DEF Gone, Inv, Typed, TypeOK
  <2>4. /\ Cardinality(Gone' \ Critical) <= Cardinality(Gone \ Critical)
        /\ Cardinality(Gone \ Critical) \in Nat /\ Cardinality(Gone' \ Critical) \in Nat
    <3> DEFINE old == Gone \ Critical
               new == Gone' \ Critical
    <3>1. IsFiniteSet(old)
      BY <2>3, FS_Subset, Sizes
    <3>2. new \in SUBSET old
      BY <2>3
    <3> HIDE DEF old, new
    <3>3. IsFiniteSet(new) /\ Cardinality(new) <= Cardinality(old)
      BY <3>1, <3>2, FS_Subset
    <3>4. Cardinality(old) \in Nat /\ Cardinality(new) \in Nat
      BY <3>1, <3>3, FS_CardinalityType
    <3> QED
      BY <3>3, <3>4 DEF old, new
  <2>5. Cardinality(Gone \ Critical) <= dropped /\ dropped \in Nat
    BY DEF Inv, LossesAreSeen, Typed, TypeOK
  <2>6. Cardinality(Gone' \ Critical) <= dropped'
    BY <1>1, <2>4, <2>5
  <2> QED
    BY <2>2, <2>6 DEF LossesAreSeen
<1> QED
  BY <1>5, <1>6, <1>7, <1>8, <1>9 DEF Inv

\* An attempt of a flusher, wherever it starts.
LEMMA FlusherKeeps ==
    ASSUME Inv, NEW f \in Flushers, Moves(f), Tidies(f),
           stopped' \in BOOLEAN
    PROVE  Inv'
<1>1. /\ Flushers = {f, Other(f)} /\ Other(f) \in Flushers /\ Other(f) # f
      /\ Idle("loop") = "ready" /\ Idle("stop") = "done"
      /\ Flushers = {"loop", "stop"} /\ "loop" # "stop"
  BY TheFlushers DEF Idle, Flushers
<1>2. /\ dropped' \in Nat /\ failures' \in 0 .. MaxFailures
      /\ flush' \in [Flushers -> Places] /\ flush'[Other(f)] = flush[Other(f)]
      /\ flush'[f] \in {"sleep", Idle(f)} /\ (flush'[f] # "sleep" => batch'[f] = <<>>)
      /\ attempt' \in [Flushers -> 0 .. MaxRetries - 1]
      /\ batch'[Other(f)] = batch[Other(f)]
  BY DEF Tidies, Moves
<1>3. /\ flush["loop"] \in {"ready", "sleep", "ended"}
      /\ flush["stop"] \in {"new", "sleep", "done"}
      /\ \A g \in Flushers : flush[g] # "sleep" => batch[g] = <<>>
  BY DEF Inv, Typed, TypeOK
<1>4. flush'["loop"] \in {"ready", "sleep", "ended"}
  BY <1>1, <1>2, <1>3 DEF Other
<1>5. flush'["stop"] \in {"new", "sleep", "done"}
  BY <1>1, <1>2, <1>3 DEF Other
<1>6. \A g \in Flushers : flush'[g] # "sleep" => batch'[g] = <<>>
  BY <1>1, <1>2, <1>3
<1> QED
  BY <1>2, <1>4, <1>5, <1>6, MovesKeepInv

\* The invariant holds when the application starts ...
LEMMA InvInit == Init => Inv
<1> SUFFICES ASSUME Init PROVE Inv
  OBVIOUS
<1>1. /\ queue = <<>> /\ dropped = 0 /\ spooling = {} /\ spool = {}
      /\ flush = [loop |-> "ready", stop |-> "new"]
      /\ batch = [f \in Flushers |-> <<>>] /\ attempt = [f \in Flushers |-> 0]
      /\ stopped = FALSE /\ rows = [e \in Events |-> 0]
      /\ seen = {} /\ unspooled = {} /\ failures = 0
  BY DEF Init
<1>2. /\ <<>> \in Seq(Events) /\ ToSet(<<>>) = {} /\ IsInjective(<<>>) /\ Len(<<>>) = 0
  BY EmptySeq, NoMembers
<1>3. TypeOK
  <2>1. 0 \in 0 .. MaxRetries - 1 /\ 0 \in 0 .. MaxFailures /\ 0 <= MaxQueue
    BY Sizes
  <2> QED
    BY <1>1, <1>2, <2>1 DEF TypeOK
<1>4. Typed
  BY <1>1, <1>3 DEF Typed, Flushers, Places
<1>5. Apart
  BY <1>1, <1>2 DEF Apart, Flushers
<1>6. Known /\ Counted
  BY <1>1, <1>2 DEF Known, Counted, DuplicatesByFailure
<1>7. LossesAreSeen
  <2>1. Gone = {}
    BY <1>1 DEF Gone
  <2>2. Cardinality({}) = 0
    BY FS_EmptySet
  <2>3. Gone \ Critical = {}
    BY <2>1
  <2> QED
    BY <1>1, <2>1, <2>2, <2>3 DEF LossesAreSeen
<1> QED
  BY <1>4, <1>5, <1>6, <1>7 DEF Inv

\* ... and every step keeps it.
LEMMA InvNext == Inv /\ [Next]_vars => Inv'
<1> SUFFICES ASSUME Inv, [Next]_vars PROVE Inv'
  OBVIOUS
<1>0. /\ "loop" \in Flushers /\ "stop" \in Flushers
      /\ stopped \in BOOLEAN
  BY DEF Flushers, Inv, Typed, TypeOK
<1>1. CASE \E e \in Events : Collect(e)
  BY <1>1, CollectKeeps
<1>2. CASE \E e \in Events : SafeSpool(e)
  BY <1>2, SafeSpoolKeeps
<1>3. CASE Round
  <2>1. Moves("loop") /\ Tidies("loop")
    BY <1>0, <1>3, FlushMoves DEF Round, history
  <2> QED
    BY <1>0, <1>3, <2>1, FlusherKeeps DEF Round, history
<1>4. CASE Stop
  <2>1. Moves("stop") /\ Tidies("stop")
    BY <1>0, <1>4, FlushMoves DEF Stop, history
  <2>2. stopped' \in BOOLEAN
    BY <1>4 DEF Stop
  <2> QED
    BY <1>0, <2>1, <2>2, FlusherKeeps
<1>5. CASE \E f \in Flushers : Retry(f)
  <2>1. PICK f \in Flushers : Retry(f)
    BY <1>5
  <2>2. Moves(f) /\ Tidies(f)
    BY <2>1, RetryMoves
  <2> QED
    BY <1>0, <2>1, <2>2, FlusherKeeps DEF Retry, history
<1>6. CASE LeaveLoop \/ UNCHANGED vars
  <2>1. /\ queue' = queue /\ dropped' = dropped /\ spooling' = spooling /\ spool' = spool
        /\ batch' = batch /\ attempt' = attempt /\ stopped' = stopped /\ rows' = rows
        /\ seen' = seen /\ unspooled' = unspooled /\ failures' = failures
    BY <1>6 DEF LeaveLoop, vars, memory, flusher, history
  <2>2. /\ flush' \in [Flushers -> Places]
        /\ flush'["loop"] \in {"ready", "sleep", "ended"}
        /\ flush'["stop"] \in {"new", "sleep", "done"}
        /\ \A f \in Flushers : flush'[f] # "sleep" => batch'[f] = <<>>
    <3>1. /\ flush \in [Flushers -> Places] /\ flush["loop"] \in {"ready", "sleep", "ended"}
          /\ flush["stop"] \in {"new", "sleep", "done"}
          /\ \A f \in Flushers : flush[f] # "sleep" => batch[f] = <<>>
      BY DEF Inv, Typed, TypeOK
    <3>2. CASE LeaveLoop
      BY <1>0, <2>1, <3>1, <3>2 DEF LeaveLoop, Flushers, Places
    <3>3. CASE UNCHANGED vars
      BY <2>1, <3>1, <3>3 DEF vars, flusher
    <3> QED
      BY <1>6, <3>2, <3>3
  <2>3. Typed'
    BY <2>1, <2>2 DEF Inv, Typed, TypeOK
  <2>4. Apart' /\ Known' /\ Counted'
    BY <2>1 DEF Inv, Apart, Known, Counted, DuplicatesByFailure
  <2>5. LossesAreSeen'
    BY <2>1 DEF Inv, LossesAreSeen, Gone, InMemory, Delivered
  <2> QED
    BY <2>3, <2>4, <2>5 DEF Inv
<1> QED
  BY <1>0, <1>1, <1>2, <1>3, <1>4, <1>5, <1>6 DEF Next, Loop

-----------------------------------------------------------------------------
(* What the pipeline promises.                                             *)

\* The invariant holds throughout.
LEMMA InvAlways == Spec => []Inv
BY InvInit, InvNext, PTL DEF Spec

\* The queue never grows over its maximum, and every variable keeps its type.
THEOREM TypeCorrect == Spec => []TypeOK
<1>1. Inv => TypeOK
  BY DEF Inv, Typed
<1> QED
  BY <1>1, InvAlways, PTL

\* drain_batch(), put_nowait() and the spool hand every event over: it is nowhere
\* twice, whoever flushes.
THEOREM HeldOnce == Spec => []NeverTwice
<1>1. Inv => NeverTwice
  <2> SUFFICES ASSUME Inv PROVE NeverTwice
    OBVIOUS
  <2> DEFINE b == batch["loop"]
             c == batch["stop"]
  <2>1. /\ queue \in Seq(Events) /\ b \in Seq(Events) /\ c \in Seq(Events)
        /\ IsInjective(queue) /\ IsInjective(b) /\ IsInjective(c)
        /\ ToSet(queue) \cap ToSet(b) = {} /\ ToSet(queue) \cap ToSet(c) = {}
        /\ ToSet(b) \cap ToSet(c) = {}
    BY DEF Inv, Typed, TypeOK, Apart, Flushers
  <2>2. /\ ToSet(queue) \cap (spooling \cup spool) = {} /\ spooling \cap spool = {}
        /\ ToSet(b) \cap (spooling \cup spool) = {} /\ ToSet(c) \cap (spooling \cup spool) = {}
    BY DEF Inv, Apart, Flushers
  <2> HIDE DEF b, c
  <2>3. /\ queue \o b \in Seq(Events) /\ ToSet(queue \o b) = ToSet(queue) \cup ToSet(b)
        /\ IsInjective(queue \o b)
    BY <2>1, Joined
  <2> DEFINE d == queue \o b
  <2>4. d \in Seq(Events) /\ ToSet(d) = ToSet(queue) \cup ToSet(b) /\ IsInjective(d)
    BY <2>3
  <2> HIDE DEF d
  <2>5. /\ ToSet(d \o c) = ToSet(d) \cup ToSet(c)
        /\ IsInjective(d \o c) <=> /\ IsInjective(d) /\ IsInjective(c)
                                   /\ ToSet(d) \cap ToSet(c) = {}
    BY <2>1, <2>4, Joined
  <2>6. IsInjective(d \o c)
    BY <2>1, <2>4, <2>5
  <2>7. ToSet(d \o c) \cap (spooling \cup spool) = {}
    BY <2>2, <2>4, <2>5
  <2> QED
    BY <2>2, <2>6, <2>7 DEF NeverTwice, b, c, d
<1> QED
  BY <1>1, InvAlways, PTL

\* An event has no second row in ClickHouse but for an insert that raised: a batch
\* that went in is never sent again.
THEOREM DuplicatesOnlyByFailure == Spec => []DuplicatesByFailure
<1>1. Inv => DuplicatesByFailure
  BY DEF Inv, Counted
<1> QED
  BY <1>1, InvAlways, PTL

\* A critical event is lost only by a spool that could not be written, any other one
\* is in dropped_non_critical.
THEOREM LossesSeen == Spec => []LossesAreSeen
<1>1. Inv => LossesAreSeen
  BY DEF Inv
<1> QED
  BY <1>1, InvAlways, PTL
=============================================================================
