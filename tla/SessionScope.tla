---------------------------- MODULE SessionScope ----------------------------
(***************************************************************************)
(* backend/db/postgres.py: session_scope() is an async generator that      *)
(* yields one session and commits when it is resumed.  Every method of the *)
(* job store, the audit service and the API key service consumes it with   *)
(* `async for session in session_scope(...)`.  A method whose body returns,*)
(* or raises, inside the loop never resumes the generator: it stays        *)
(* suspended at its yield, with the connection and the row locks of the    *)
(* session, until the event loop closes it with a GeneratorExit, which     *)
(* `except Exception` does not catch and which leaves the session          *)
(* uncommitted.                                                            *)
(***************************************************************************)
EXTENDS Naturals, FiniteSets

CONSTANTS Calls,     \* calls of such methods, each about one row
          Row,       \* the row of each call
          Kind,      \* what each does: "insert", "update" or "read" its row
          Exit,      \* how the body of each leaves its loop: "return", "exhaust"
          Seeded,    \* the rows that are there from the start
          PoolSize,  \* connections of the engine's pool
          Nobody,    \* the writer of a seeded row; no holder of a lock
          Absent     \* the row is not there

ASSUME SessionAssumption == /\ IsFiniteSet(Calls)
                            /\ Kind \in [Calls -> {"insert", "update", "read"}]
                            /\ Exit \in [Calls -> {"return", "exhaust"}]
                            /\ Seeded \subseteq {Row[c] : c \in Calls}
                            /\ PoolSize \in Nat \ {0}
                            /\ Nobody \notin Calls /\ Absent \notin Calls \cup {Nobody}

VARIABLES phase,   \* how far each call and its generator have come
          result,  \* what its caller was given: "none", "ok", "missing", "error"
          row,     \* the last committed writer of each row
          lock     \* the call whose uncommitted write holds the row

vars == <<phase, result, row, lock>>

Rows == {Row[c] : c \in Calls}
Phases == {"new", "open", "found", "bodyDone", "abandoned", "committing", "done"}
\* The calls that hold a connection of the pool.
Connected == {c \in Calls : phase[c] \notin {"new", "done"}}

Init == /\ phase = [c \in Calls |-> "new"]
        /\ result = [c \in Calls |-> "none"]
        /\ row = [x \in Rows |-> IF x \in Seeded THEN Nobody ELSE Absent]
        /\ lock = [x \in Rows |-> Nobody]

-----------------------------------------------------------------------------
Go(c, from, to) == phase[c] = from /\ phase' = [phase EXCEPT ![c] = to]
Give(c, how) == result' = [result EXCEPT ![c] = how]

Unlock(c) == lock' = [x \in Rows |-> IF lock[x] = c THEN Nobody ELSE lock[x]]

\* Leaving the loop from within: `return` or `raise`.
LeaveLoop(c, from, how) == /\ Go(c, from, "abandoned")
                           /\ Give(c, how)
                           /\ UNCHANGED <<row, lock>>

\* The first statement of the session takes a connection from the pool.
Open(c) == /\ Cardinality(Connected) < PoolSize
           /\ Go(c, "new", "open")
           /\ UNCHANGED <<result, row, lock>>

\* The SELECT of an update or a read sees committed rows.  Without one, or with one
\* in the wrong state (its status, its expiry), the method returns None or raises.
Select(c) ==
    /\ Kind[c] # "insert"
    /\ \/ /\ row[Row[c]] # Absent
          /\ Go(c, "open", IF Kind[c] = "read" THEN "bodyDone" ELSE "found")
          /\ UNCHANGED <<result, row, lock>>
       \/ LeaveLoop(c, "open", "missing")

\* flush() of an INSERT or UPDATE: it waits for whoever holds the row.
Write(c) == /\ Go(c, IF Kind[c] = "insert" THEN "open" ELSE "found", "bodyDone")
            /\ Kind[c] # "read" /\ lock[Row[c]] = Nobody
            /\ lock' = [lock EXCEPT ![Row[c]] = c]
            /\ UNCHANGED <<result, row>>

\* A statement that raises leaves the loop as well.
StatementFails(c) == \E from \in {"open", "found"} : LeaveLoop(c, from, "error")

\* `return record` inside the loop: the caller has its answer.
Return(c) == Exit[c] = "return" /\ LeaveLoop(c, "bodyDone", "ok")

\* The body ends and the loop asks for the next session.
Exhaust(c) == /\ Exit[c] = "exhaust"
              /\ Go(c, "bodyDone", "committing")
              /\ UNCHANGED <<result, row, lock>>

Written(c) == IF lock[Row[c]] = c THEN [row EXCEPT ![Row[c]] = c] ELSE row

\* Mutant: the caller has its answer before the commit, which then fails.
MutCommit(c) == /\ Go(c, "committing", "done")
                /\ Give(c, "ok")
                /\ row' = Written(c) \/ UNCHANGED row
                /\ Unlock(c)

\* commit(), or the roll-back when it raises.
Commit(c) == /\ Go(c, "committing", "done")
             /\ \/ Give(c, "ok") /\ row' = Written(c)
                \/ Give(c, "error") /\ UNCHANGED row
             /\ Unlock(c)

\* Mutant: closing the generator does not end the transaction.
MutCloseKeepsLock(c) == /\ Go(c, "abandoned", "done")
                        /\ UNCHANGED <<result, row, lock>>

\* The event loop closes an abandoned generator: the session is closed, and with
\* it the transaction is rolled back.
Close(c) == /\ Go(c, "abandoned", "done")
            /\ Unlock(c)
            /\ UNCHANGED <<result, row>>

Progress(c) == \/ Open(c) \/ Select(c) \/ Write(c) \/ Return(c) \/ Exhaust(c)
               \/ Commit(c) \/ Close(c)

Next == \E c \in Calls : Progress(c) \/ StatementFails(c)

\* The event loop runs every task and the finalizer of every generator; a statement
\* that waits for a lock need not fail.
Spec == Init /\ [][Next]_vars
             /\ \A c \in Calls : WF_vars(Progress(c))

-----------------------------------------------------------------------------
TypeOK == /\ phase \in [Calls -> Phases]
          /\ result \in [Calls -> {"none", "ok", "missing", "error"}]
          /\ row \in [Rows -> Calls \cup {Nobody, Absent}]
          /\ lock \in [Rows -> Calls \cup {Nobody}]

\* A caller that was given an error, or nothing, finds nothing of its call in the
\* table, neither at once nor later; and a consumer that exhausts session_scope()
\* is answered only once its write is there, where everybody finds it from then on.
AnswersAreTrue ==
    \A c \in Calls :
        /\ result[c] \in {"error", "missing"} => \A x \in Rows : row[x] # c
        /\ Exit[c] = "exhaust" /\ Kind[c] # "read" /\ result[c] = "ok"
              => row[Row[c]] \in Calls

\* The generators that callers leave suspended do not starve the others: every
\* call gets its connection and its row, and is answered.
CallsAreAnswered == \A c \in Calls : <>(result[c] # "none")

\* docs/todo.md:807, "Batch jobs are durable through Postgres": what a method
\* reported as created is in the table once its session is over.
AnsweredIsDurable ==
    \A c \in Calls : Kind[c] = "insert" /\ phase[c] = "done" /\ result[c] = "ok"
        => row[Row[c]] # Absent
=============================================================================
