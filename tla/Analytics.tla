------------------------------ MODULE Analytics ------------------------------
(***************************************************************************)
(* backend/services/analytics: request handlers put events into a bounded  *)
(* queue without ever waiting, a flusher inserts them into ClickHouse in   *)
(* batches, with retries, and critical events that find the queue full go  *)
(* to a local spool file by a task of their own.  All of it runs on one    *)
(* event loop: an action is the code between two awaits, and client.insert *)
(* blocks the loop.  The flusher is built on the collector the handlers    *)
(* fill, as the class takes it and the integration test builds it.  The    *)
(* program itself joins no two of them: the gateway's collector has no     *)
(* flusher, and the worker's flusher drains a collector of its own, which  *)
(* nobody fills (README, section 5).                                       *)
(***************************************************************************)
EXTENDS Naturals, Sequences, FiniteSets, SequencesExt

CONSTANTS Events,
          Critical,     \* the events with critical=True
          TableOf,      \* the table of each event
          MaxQueue,     \* AnalyticsCollector(max_size)
          BatchSize,    \* ClickHouseFlusher(batch_size)
          MaxRetries,   \* ClickHouseFlusher(max_retries)
          MaxFailures   \* bound: inserts and spool writes that raise

ASSUME AnalyticsAssumption ==
    /\ IsFiniteSet(Events) /\ Critical \subseteq Events
    /\ DOMAIN TableOf = Events
    /\ {MaxQueue, BatchSize, MaxRetries} \subseteq Nat \ {0} /\ MaxFailures \in Nat

VARIABLES queue,     \* the collector's queue
          dropped,   \* dropped_non_critical
          spooling,  \* events whose _safe_spool() task has not run yet
          spool,     \* events in the spool file
          flush,     \* where run_forever() ("loop") and stop() ("stop") are
          batch,     \* the events each of them has drained and not inserted yet
          attempt,   \* inserts each of them has tried for its batch
          stopped,   \* the event that stop() sets
          rows,      \* how many rows ClickHouse holds for each event
          seen,      \* history: the events handlers have emitted
          unspooled, \* history: events whose write to the spool raised
          failures   \* history: inserts and spool writes that raised

memory == <<queue, dropped, spooling>>
flusher == <<flush, batch, attempt, stopped>>
history == <<seen, unspooled>>
vars == <<memory, spool, flusher, rows, history, failures>>

Flushers == {"loop", "stop"}

Init == /\ queue = <<>> /\ dropped = 0 /\ spooling = {} /\ spool = {}
        /\ flush = [loop |-> "ready", stop |-> "new"]
        /\ batch = [f \in Flushers |-> <<>>]
        /\ attempt = [f \in Flushers |-> 0]
        /\ stopped = FALSE
        /\ rows = [e \in Events |-> 0]
        /\ seen = {} /\ unspooled = {} /\ failures = 0

-----------------------------------------------------------------------------
\* The first n events of a sequence, or all of them, and those after them.
FirstOnes(s, n) == SubSeq(s, 1, IF n < Len(s) THEN n ELSE Len(s))
Others(s, n) == SubSeq(s, n + 1, Len(s))

(* The collector.                                                          *)

\* Mutant: what does not fit is dropped whatever it is.
MutOffer(q, events) ==
    LET room == MaxQueue - Len(q) IN
    /\ queue' = q \o FirstOnes(events, room)
    /\ dropped' = dropped + Len(Others(events, room))
    /\ UNCHANGED spooling

\* Mutant: the queue was created without its max size.
MutOfferUnbounded(q, events) == /\ queue' = q \o events
                                /\ UNCHANGED <<dropped, spooling>>

\* put_nowait() of some events after the others of queue q; those that find it
\* full are spooled or dropped, and only the dropped ones are counted here.
Offer(q, events) ==
    LET room == MaxQueue - Len(q)
        rest == ToSet(Others(events, room))
    IN /\ queue' = q \o FirstOnes(events, room)
       /\ dropped' = dropped + Cardinality(rest \ Critical)
       /\ spooling' = spooling \cup (rest \cap Critical)

\* collect(), never waiting and never raising.
Collect(e) == /\ e \notin seen
              /\ seen' = seen \cup {e}
              /\ Offer(queue, <<e>>)
              /\ UNCHANGED <<spool, flusher, rows, unspooled, failures>>

\* _safe_spool(): a failing write is logged and the event is gone.
SafeSpool(e) == /\ e \in spooling
                /\ spooling' = spooling \ {e}
                /\ \/ spool' = spool \cup {e} /\ UNCHANGED <<unspooled, failures>>
                   \/ /\ failures < MaxFailures
                      /\ failures' = failures + 1
                      /\ unspooled' = unspooled \cup {e}
                      /\ UNCHANGED spool
                /\ UNCHANGED <<queue, dropped, flusher, rows, seen>>

-----------------------------------------------------------------------------
(* The flusher.                                                            *)

\* Mutant: the batch is read and stays in the queue until it is inserted.
MutDrained(q) == q

\* drain_batch(): what it leaves of the queue.
Drained(q) == Others(q, BatchSize)

\* _insert(): one insert per table, in the order in which the tables appear.
Tables(events) == ToSet([i \in DOMAIN events |-> TableOf[events[i]]])
FirstOf(events, t) == CHOOSE i \in DOMAIN events :
                          /\ TableOf[events[i]] = t
                          /\ \A j \in 1 .. i - 1 : TableOf[events[j]] # t
Insert(events, tables) ==
    rows' = [e \in Events |-> IF e \in ToSet(events) /\ TableOf[e] \in tables
                              THEN rows[e] + 1 ELSE rows[e]]

\* The tables that hold the batch after an insert that raised: those before the
\* failing one, which ClickHouse may have written all the same.
PartlyInserted(events) ==
    {ts \in SUBSET Tables(events) :
        \A t \in ts, u \in Tables(events) \ ts : FirstOf(events, t) < FirstOf(events, u)}

Idle(f) == IF f = "loop" THEN "ready" ELSE "done"

At(f, place, events, n) == /\ flush' = [flush EXCEPT ![f] = place]
                           /\ batch' = [batch EXCEPT ![f] = events]
                           /\ attempt' = [attempt EXCEPT ![f] = n]

\* Mutant: the retry loop goes on after an insert that succeeded.
MutAttempt(f, q, events, n) ==
    \/ /\ Insert(events, Tables(events))
       /\ IF n < MaxRetries THEN At(f, "sleep", events, n) ELSE At(f, Idle(f), <<>>, 0)
       /\ queue' = q
       /\ UNCHANGED <<dropped, spooling, failures>>
    \/ /\ failures < MaxFailures
       /\ failures' = failures + 1
       /\ \E ts \in PartlyInserted(events) : Insert(events, ts)
       /\ IF n < MaxRetries
          THEN /\ At(f, "sleep", events, n)
               /\ queue' = q
               /\ UNCHANGED <<dropped, spooling>>
          ELSE At(f, Idle(f), <<>>, 0) /\ Offer(q, events)

\* The n-th insert of a batch; q is the queue without it.  A failure is retried
\* after a pause, and the last one puts the batch back behind the queue.
Attempt(f, q, events, n) ==
    \/ /\ Insert(events, Tables(events))
       /\ At(f, Idle(f), <<>>, 0)
       /\ queue' = q
       /\ UNCHANGED <<dropped, spooling, failures>>
    \/ /\ failures < MaxFailures
       /\ failures' = failures + 1
       /\ \E ts \in PartlyInserted(events) : Insert(events, ts)
       /\ IF n < MaxRetries
          THEN /\ At(f, "sleep", events, n)
               /\ queue' = q
               /\ UNCHANGED <<dropped, spooling>>
          ELSE At(f, Idle(f), <<>>, 0) /\ Offer(q, events)

\* flush_once() up to its first await.
FlushOnce(f) ==
    IF queue # <<>>
    THEN Attempt(f, Drained(queue), FirstOnes(queue, BatchSize), 1)
    ELSE At(f, Idle(f), <<>>, 0) /\ UNCHANGED <<memory, rows, failures>>


\* One round of run_forever(), when its pause is over.
Round == /\ flush["loop"] = "ready" /\ ~stopped
         /\ FlushOnce("loop")
         /\ UNCHANGED <<spool, stopped, history>>

LeaveLoop == /\ flush["loop"] = "ready" /\ stopped
             /\ flush' = [flush EXCEPT !["loop"] = "ended"]
             /\ UNCHANGED <<memory, spool, batch, attempt, stopped, rows, history,
                            failures>>

\* The back-off is over: the next insert of the same batch.
Retry(f) == /\ flush[f] = "sleep"
            /\ Attempt(f, queue, batch[f], attempt[f] + 1)
            /\ UNCHANGED <<spool, stopped, history>>

\* stop(), by whoever owns the flusher, also while the loop sleeps on a batch.
Stop == /\ flush["stop"] = "new"
        /\ stopped' = TRUE
        /\ FlushOnce("stop")
        /\ UNCHANGED <<spool, history>>

Loop == Round \/ LeaveLoop \/ Retry("loop")

Next == \/ \E e \in Events : Collect(e) \/ SafeSpool(e)
        \/ Loop \/ Stop \/ Retry("stop")

\* The event loop wakes sleepers and runs the tasks that were created; nobody
\* need ever call stop().
Spec == /\ Init /\ [][Next]_vars
        /\ WF_vars(Loop) /\ WF_vars(Retry("stop"))
        /\ \A e \in Events : WF_vars(SafeSpool(e))

-----------------------------------------------------------------------------
InMemory(e) == \/ e \in ToSet(queue) \/ e \in spooling
               \/ \E f \in Flushers : e \in ToSet(batch[f])
Delivered(e) == rows[e] > 0 \/ e \in spool
Gone == {e \in seen : ~InMemory(e) /\ ~Delivered(e)}

TypeOK == /\ queue \in Seq(Events) /\ Len(queue) <= MaxQueue
          /\ dropped \in Nat
          /\ {spooling, spool, seen, unspooled} \subseteq SUBSET Events
          /\ flush["loop"] \in {"ready", "sleep", "ended"}
          /\ flush["stop"] \in {"new", "sleep", "done"}
          /\ batch \in [Flushers -> Seq(Events)]
          /\ attempt \in [Flushers -> 0 .. MaxRetries - 1]
          /\ stopped \in BOOLEAN
          /\ rows \in [Events -> Nat]
          /\ failures \in 0 .. MaxFailures

\* Nothing is lost unseen, however full the queue is and however often ClickHouse
\* fails: a critical event only by a spool file that cannot be written, every other
\* one shows in dropped_non_critical.
LossesAreSeen == /\ Gone \cap Critical \subseteq unspooled
                 /\ Cardinality(Gone \ Critical) <= dropped

\* No event is ever queued, drained, or spooled twice over, even when stop()
\* flushes while the loop is between two attempts on its own batch.
NeverTwice ==
    LET all == queue \o batch["loop"] \o batch["stop"]
    IN /\ IsInjective(all)
       /\ ToSet(all) \cap (spooling \cup spool) = {} /\ spooling \cap spool = {}

\* ClickHouse gets a second row for an event only after an insert that raised.
DuplicatesByFailure == \A e \in Events : rows[e] <= 1 + failures

=============================================================================
