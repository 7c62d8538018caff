------------------------- MODULE SessionScope_proofs -------------------------
(***************************************************************************)
(* Theorems about SessionScope, for any calls, rows, seeds and pool.       *)
(***************************************************************************)
EXTENDS SessionScope, TLAPS

\* Rolling back or ending a transaction leaves every lock with a call or nobody.
LEMMA UnlockKeepsTypes == ASSUME TypeOK, NEW c \in Calls, Unlock(c)
                          PROVE  lock' \in [Rows -> Calls \cup {Nobody}]
BY DEF TypeOK, Unlock

\* db/postgres.py and its consumers keep their types for every set of calls; a row
\* is only ever written by the call that holds it.
THEOREM TypeCorrect == Spec => []TypeOK
<1>1. Init => TypeOK
  BY DEF Init, TypeOK, Phases
<1>2. TypeOK /\ [Next]_vars => TypeOK'
  <2> SUFFICES ASSUME TypeOK, [Next]_vars PROVE TypeOK'
    OBVIOUS
  <2>0. ASSUME NEW c \in Calls PROVE Row[c] \in Rows
    BY DEF Rows
  <2>1. ASSUME NEW c \in Calls, Open(c) PROVE TypeOK'
    BY <2>1 DEF Open, Go, TypeOK, Phases
  <2>2. ASSUME NEW c \in Calls, Select(c) PROVE TypeOK'
    BY <2>2 DEF Select, LeaveLoop, Go, Give, TypeOK, Phases
  <2>3. ASSUME NEW c \in Calls, Write(c) PROVE TypeOK'
    BY <2>3 DEF Write, Go, TypeOK, Phases
  <2>4. ASSUME NEW c \in Calls, Return(c) PROVE TypeOK'
    BY <2>4 DEF Return, LeaveLoop, Go, Give, TypeOK, Phases
  <2>5. ASSUME NEW c \in Calls, Exhaust(c) PROVE TypeOK'
    BY <2>5 DEF Exhaust, Go, TypeOK, Phases
  <2>6. ASSUME NEW c \in Calls, Commit(c) PROVE TypeOK'
    <3>1. lock' \in [Rows -> Calls \cup {Nobody}]
      BY <2>6, UnlockKeepsTypes DEF Commit
    <3>2. phase' \in [Calls -> Phases]
      BY <2>6 DEF Commit, Go, TypeOK, Phases
    <3>3. result' \in [Calls -> {"none", "ok", "missing", "error"}]
      BY <2>6 DEF Commit, Give, TypeOK
    <3>4. row' \in [Rows -> Calls \cup {Nobody, Absent}]
      BY <2>6 DEF Commit, Written, TypeOK
    <3> QED
      BY <3>1, <3>2, <3>3, <3>4 DEF TypeOK
  <2>7. ASSUME NEW c \in Calls, Close(c) PROVE TypeOK'
    <3>1. lock' \in [Rows -> Calls \cup {Nobody}]
      BY <2>7, UnlockKeepsTypes DEF Close
    <3> QED
      BY <2>7, <3>1 DEF Close, Go, TypeOK, Phases
  <2>8. ASSUME NEW c \in Calls, StatementFails(c) PROVE TypeOK'
    BY <2>8 DEF StatementFails, LeaveLoop, Go, Give, TypeOK, Phases
  <2>9. CASE UNCHANGED vars
    BY <2>9 DEF vars, TypeOK
  <2> QED
    BY <2>1, <2>2, <2>3, <2>4, <2>5, <2>6, <2>7, <2>8, <2>9 DEF Next, Progress
<1> QED
  BY <1>1, <1>2, PTL DEF Spec

-----------------------------------------------------------------------------
(* What callers are told, and what is in the table.                        *)

\* One call: it is answered when it leaves its loop or commits, it holds its row
\* from its write to the end of its session, and only an answer of "ok" is found in
\* the table.
Honest(c) ==
    /\ result[c] = "none" <=> phase[c] \notin {"abandoned", "done"}
    /\ phase[c] \in {"bodyDone", "committing"} /\ Kind[c] # "read" => lock[Row[c]] = c
    /\ \A x \in Rows : row[x] = c => phase[c] = "done" /\ result[c] = "ok"
    /\ Exit[c] = "exhaust" /\ Kind[c] # "read" /\ result[c] = "ok"
          => row[Row[c]] \in Calls

HonestInv == \A c \in Calls : Honest(c)

\* A step of call d does to call c no more than this: c keeps its phase, its answer
\* and its lock, and rows only change to d.
Spares(c, d) ==
    /\ phase'[c] = phase[c] /\ result'[c] = result[c]
    /\ lock[Row[c]] = c => lock'[Row[c]] = c
    /\ \A x \in Rows : row'[x] \in {row[x], d}

\* What is spared stays honest.
LEMMA SparedStaysHonest ==
    ASSUME NEW c \in Calls, NEW d \in Calls, c # d, Honest(c), Spares(c, d)
    PROVE  Honest(c)'
<1>1. Row[c] \in Rows
  BY DEF Rows
<1> QED
  BY <1>1 DEF Honest, Spares

\* A step of one call spares all others.
LEMMA OthersAreSpared ==
    ASSUME TypeOK, NEW c \in Calls, NEW d \in Calls, c # d,
           Progress(d) \/ StatementFails(d)
    PROVE  Spares(c, d)
<1>0. Row[c] \in Rows /\ Row[d] \in Rows
  BY DEF Rows
<1>n. Nobody \notin Calls
  BY SessionAssumption
<1>1. CASE Open(d)
  BY <1>1 DEF Open, Go, Spares, TypeOK
<1>2. CASE Select(d)
  BY <1>2 DEF Select, LeaveLoop, Go, Give, Spares, TypeOK
<1>3. CASE Write(d)
  <2>1. lock[Row[c]] = c => Row[c] # Row[d]
    BY <1>3, <1>n DEF Write
  <2> QED
    BY <1>3, <1>0, <2>1 DEF Write, Go, Spares, TypeOK
<1>4. CASE Return(d)
  BY <1>4 DEF Return, LeaveLoop, Go, Give, Spares, TypeOK
<1>5. CASE Exhaust(d)
  BY <1>5 DEF Exhaust, Go, Spares, TypeOK
<1>6. CASE Commit(d)
  <2>1. phase'[c] = phase[c] /\ result'[c] = result[c]
    BY <1>6 DEF Commit, Go, Give, TypeOK
  <2>2. lock[Row[c]] = c => lock'[Row[c]] = c
    BY <1>6, <1>0 DEF Commit, Unlock
  <2>3. \A x \in Rows : row'[x] \in {row[x], d}
    BY <1>6 DEF Commit, Written, TypeOK
  <2> QED
    BY <2>1, <2>2, <2>3 DEF Spares
<1>7. CASE Close(d)
  BY <1>7, <1>0 DEF Close, Unlock, Go, Spares, TypeOK
<1>8. CASE StatementFails(d)
  BY <1>8 DEF StatementFails, LeaveLoop, Go, Give, Spares, TypeOK
<1> QED
  BY <1>1, <1>2, <1>3, <1>4, <1>5, <1>6, <1>7, <1>8 DEF Progress

\* A step of a call leaves itself honest.
LEMMA StaysHonest ==
    ASSUME TypeOK, NEW c \in Calls, Honest(c), Progress(c) \/ StatementFails(c)
    PROVE  Honest(c)'
<1>0. Row[c] \in Rows
  BY DEF Rows
<1>1. CASE Open(c)
  BY <1>1, <1>0 DEF Open, Go, Honest, TypeOK
<1>2. CASE Select(c)
  BY <1>2, <1>0 DEF Select, LeaveLoop, Go, Give, Honest, TypeOK
<1>3. CASE Write(c)
  BY <1>3, <1>0 DEF Write, Go, Honest, TypeOK
<1>4. CASE Return(c)
  BY <1>4, <1>0 DEF Return, LeaveLoop, Go, Give, Honest, TypeOK
<1>5. CASE Exhaust(c)
  BY <1>5, <1>0 DEF Exhaust, Go, Honest, TypeOK
<1>6. CASE Commit(c)
  <2>1. phase[c] = "committing" /\ phase'[c] = "done"
    BY <1>6 DEF Commit, Go, TypeOK
  <2>2. CASE Give(c, "ok") /\ row' = Written(c)
    <3>1. result'[c] = "ok"
      BY <2>2 DEF Give, TypeOK
    <3>2. Kind[c] # "read" => row'[Row[c]] = c
      BY <2>1, <2>2, <1>0 DEF Honest, Written, TypeOK
    <3> QED
      BY <2>1, <3>1, <3>2 DEF Honest
  <2>3. CASE Give(c, "error") /\ UNCHANGED row
    <3>1. result'[c] = "error"
      BY <2>3 DEF Give, TypeOK
    <3>2. \A x \in Rows : row'[x] # c
      BY <2>1, <2>3 DEF Honest
    <3> QED
      BY <2>1, <3>1, <3>2 DEF Honest
  <2> QED
    BY <1>6, <2>2, <2>3 DEF Commit
<1>7. CASE Close(c)
  BY <1>7, <1>0 DEF Close, Go, Honest, TypeOK
<1>8. CASE StatementFails(c)
  BY <1>8, <1>0 DEF StatementFails, LeaveLoop, Go, Give, Honest, TypeOK
<1> QED
  BY <1>1, <1>2, <1>3, <1>4, <1>5, <1>6, <1>7, <1>8 DEF Progress

\* A caller that was told of a failure finds nothing of its call in the table, and
\* one that exhausts session_scope() is answered "ok" only once its write is there,
\* for any calls, rows and pool.  The invariant says what a suspended generator
\* still owes: it holds its lock, and an answer given from within the loop is not
\* in the table.
THEOREM AnswersTrue == Spec => []AnswersAreTrue
<1>1. Init => HonestInv
  <2> SUFFICES ASSUME Init, NEW c \in Calls PROVE Honest(c)
    BY DEF HonestInv
  <2>1. \A x \in Rows : row[x] # c
    BY SessionAssumption DEF Init
  <2> QED
    BY <2>1 DEF Init, Honest
<1>2. TypeOK /\ HonestInv /\ [Next]_vars => HonestInv'
  <2> SUFFICES ASSUME TypeOK, \A q \in Calls : Honest(q), [Next]_vars, NEW c \in Calls
               PROVE  Honest(c)'
    BY DEF HonestInv
  <2>1. ASSUME NEW d \in Calls, Progress(d) \/ StatementFails(d) PROVE Honest(c)'
    <3>1. CASE d = c
      BY <2>1, <3>1, StaysHonest
    <3>2. CASE d # c
      <4>1. Spares(c, d)
        BY <2>1, <3>2, OthersAreSpared
      <4> QED
        BY <3>2, <4>1, SparedStaysHonest
    <3> QED
      BY <3>1, <3>2
  <2>2. CASE UNCHANGED vars
    BY <2>2 DEF vars, Honest
  <2> QED
    BY <2>1, <2>2 DEF Next
<1>3. HonestInv => AnswersAreTrue
  BY DEF HonestInv, Honest, AnswersAreTrue
<1> QED
  BY <1>1, <1>2, <1>3, TypeCorrect, PTL DEF Spec
=============================================================================
