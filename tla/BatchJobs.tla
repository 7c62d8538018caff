------------------------------ MODULE BatchJobs ------------------------------
(***************************************************************************)
(* backend/services/batch and backend/workers: jobs are created in the job *)
(* store, queued by id, claimed and executed by worker processes, cancelled*)
(* through the API, and re-queued by a recovery scanner.  A call of the    *)
(* store or of the queue is one atomic step, as the in-memory store and    *)
(* Redis make it; everything else interleaves between them.                *)
(***************************************************************************)
EXTENDS Naturals, FiniteSets, Sequences, SequencesExt

CONSTANTS Jobs, Workers,
          NoJob,       \* what a worker holds before its first dequeue
          Dedup,       \* TRUE: InMemoryBatchQueue, FALSE: RedisBatchQueue
          Gated,       \* the workers that were given a should_run_job hook
          ScanLimit,   \* list_recoverable(limit)
          Faults,      \* "upstream", "refusal", "enqueue", "audit", "store", "crash"
          MaxCrashes,  \* bound: worker processes that die
          Crowds       \* bound: sets of jobs and workers that may come into play together

ASSUME BatchAssumption == /\ NoJob \notin Jobs
                          /\ Dedup \in BOOLEAN /\ Gated \subseteq Workers
                          /\ {ScanLimit, MaxCrashes} \subseteq Nat
                          /\ Crowds \subseteq SUBSET (Jobs \cup Workers)

VARIABLES status,    \* the status of each job, "absent" before its creation
          created,   \* the jobs of the store, in order of creation
          queue,     \* batch_queue:pending
          submits,   \* how far submit() has come for each job
          worker,    \* how far process_one() has come in each worker
          job,       \* the job each worker has dequeued
          slot,      \* the workers that hold an admission lease
          audit,     \* status of the audit record of each job's execution
          reported,  \* jobs whose usage event was handed to analytics
          todo,      \* jobs the scanner has listed and not visited yet: places in created
          scanning,  \* the scanner found the first of them missing
          runs,      \* history: how often a job was sent to vLLM
          crashes    \* history: worker processes that died

store == <<status, created>>
ledger == <<slot, audit, reported, runs>>
scanner == <<todo, scanning>>
vars == <<store, queue, submits, worker, job, ledger, scanner, crashes>>

Places == {"idle", "check", "gate", "requeue", "claim", "admit", "auditStart",
           "call", "finalize", "succeed", "fail", "release"}

\* The abstract job, with its table of transitions.
JL == INSTANCE JobLifecycle WITH Jobs <- Jobs, status <- status

Init ==
    /\ JL!Init
    /\ created = <<>> /\ queue = <<>> /\ todo = {} /\ scanning = FALSE
    /\ submits = [j \in Jobs |-> "new"]
    /\ worker = [w \in Workers |-> "idle"]
    /\ job = [w \in Workers |-> NoJob]
    /\ slot = {} /\ reported = {}
    /\ audit = [j \in Jobs |-> "none"]
    /\ runs = [j \in Jobs |-> 0]
    /\ crashes = 0

-----------------------------------------------------------------------------
\* The bound on who comes into play: a job by its submission, a worker by its
\* first dequeue.
InPlay == {j \in Jobs : submits[j] # "new"} \cup {w \in Workers : job[w] # NoJob}
MayJoin(a) == \E crowd \in Crowds : InPlay \cup {a} \subseteq crowd

(* The queue.                                                              *)

Enqueue(j) == queue' = IF Dedup /\ Contains(queue, j) THEN queue ELSE Append(queue, j)

(* The API: submit and cancel.                                             *)

SubmitCreate(j) == /\ submits[j] = "new" /\ MayJoin(j)
                   /\ submits' = [submits EXCEPT ![j] = "enqueue"]
                   /\ status' = [status EXCEPT ![j] = "queued"]
                   /\ created' = Append(created, j)
                   /\ UNCHANGED <<queue, worker, job, ledger, scanner, crashes>>

\* A failing enqueue is swallowed: the scanner is to find the job.
SubmitEnqueue(j) == /\ submits[j] = "enqueue"
                    /\ submits' = [submits EXCEPT ![j] = "done"]
                    /\ \/ Enqueue(j)
                       \/ "enqueue" \in Faults /\ UNCHANGED queue
                    /\ UNCHANGED <<store, worker, job, ledger, scanner, crashes>>

\* A terminal job is returned as it is; transition() tests the status again.
CancelJob(j) == /\ JL!can_transition(status[j], "cancelled")
                /\ status' = [status EXCEPT ![j] = "cancelled"]
                /\ UNCHANGED <<created, queue, submits, worker, job, ledger, scanner,
                               crashes>>

-----------------------------------------------------------------------------
(* The worker: one process_one() after the other.                          *)

Go(w, from, to) == worker[w] = from /\ worker' = [worker EXCEPT ![w] = to]

Dequeue(w) == /\ queue # <<>> /\ MayJoin(w)
              /\ Go(w, "idle", "check")
              /\ job' = [job EXCEPT ![w] = Head(queue)]
              /\ queue' = Tail(queue)
              /\ UNCHANGED <<store, submits, ledger, scanner, crashes>>

\* A job that is cancelled by now is dropped.
Check(w) == /\ Go(w, "check", IF status[job[w]] = "cancelled" THEN "idle"
                              ELSE IF w \in Gated THEN "gate" ELSE "claim")
            /\ UNCHANGED <<store, queue, submits, job, ledger, scanner, crashes>>

\* should_run_job(): the job goes back to the queue when it says no.
Gate(w) == /\ \E next \in {"claim", "requeue"} : Go(w, "gate", next)
           /\ UNCHANGED <<store, queue, submits, job, ledger, scanner, crashes>>

Requeue(w) == /\ Go(w, "requeue", "idle")
              /\ Enqueue(job[w])
              /\ UNCHANGED <<store, submits, job, ledger, scanner, crashes>>

\* Mutant: a job that is running already may be claimed once more.
MutCanClaim(j) == status[j] \in {"queued", "running"}

CanClaim(j) == JL!can_transition(status[j], "running")

\* transition(job_id, RUNNING): only one worker gets the job.
Claim(w) == /\ \/ /\ Go(w, "claim", "admit")
                  /\ CanClaim(job[w])
                  /\ status' = [status EXCEPT ![job[w]] = "running"]
               \/ /\ Go(w, "claim", "idle")
                  /\ ~CanClaim(job[w])
                  /\ UNCHANGED status
            /\ UNCHANGED <<created, queue, submits, job, ledger, scanner, crashes>>

\* The token plan and admit(); any refusal goes to the `except`.
Admit(w) == /\ \/ Go(w, "admit", "auditStart") /\ slot' = slot \cup {w}
               \/ "refusal" \in Faults /\ Go(w, "admit", "fail") /\ UNCHANGED slot
            /\ UNCHANGED <<store, queue, submits, job, audit, reported, runs, scanner,
                           crashes>>

AuditStart(w) == /\ \/ /\ Go(w, "auditStart", "call")
                       /\ audit' = [audit EXCEPT ![job[w]] = "accepted"]
                    \/ "audit" \in Faults /\ Go(w, "auditStart", "fail") /\ UNCHANGED audit
                 /\ UNCHANGED <<store, queue, submits, job, slot, reported, runs,
                                scanner, crashes>>

Call(w) == /\ \/ Go(w, "call", "finalize")
              \/ "upstream" \in Faults /\ Go(w, "call", "fail")
           /\ runs' = [runs EXCEPT ![job[w]] = @ + 1]
           /\ UNCHANGED <<store, queue, submits, job, slot, audit, reported, scanner,
                          crashes>>

\* Mutant: the job's status is written to the audit record.
MutAuditStatus(w) ==
    /\ Go(w, "finalize", "succeed")
    /\ audit' = [audit EXCEPT ![job[w]] = "succeeded"]
    /\ UNCHANGED <<store, queue, submits, job, slot, reported, runs, scanner,
                   crashes>>

\* finalize_tokens() and the audit record of a completed execution.
Finalize(w) == /\ \/ /\ Go(w, "finalize", "succeed")
                     /\ audit' = [audit EXCEPT ![job[w]] = "completed"]
                  \/ "audit" \in Faults /\ Go(w, "finalize", "fail") /\ UNCHANGED audit
               /\ UNCHANGED <<store, queue, submits, job, slot, reported, runs, scanner,
                              crashes>>

\* Mutant: a job cancelled while it ran is overwritten with the result.
MutMark(j, s) == status' = [status EXCEPT ![j] = s]

\* mark_succeeded() and mark_failed() leave only a cancelled job alone.
Mark(j, s) == status' = [status EXCEPT ![j] = IF @ = "cancelled" THEN @ ELSE s]

\* _emit_usage_event(), which never raises.
Report(j) == reported' = reported \cup {j}

\* mark_succeeded() and the usage event, which is emitted also for a job that was
\* cancelled meanwhile.
Succeed(w) == /\ \/ Go(w, "succeed", "release") /\ Mark(job[w], "succeeded") /\ Report(job[w])
                 \/ "store" \in Faults /\ Go(w, "succeed", "fail") /\ UNCHANGED <<status, reported>>
              /\ UNCHANGED <<created, queue, submits, job, slot, audit, runs,
                             scanner, crashes>>

\* Mutant: the audit record is failed and the job forgotten.
MutFail(w) == /\ Go(w, "fail", "release")
              /\ audit' = [audit EXCEPT ![job[w]] = IF @ = "none" THEN @ ELSE "failed"]
              /\ UNCHANGED <<store, queue, submits, job, slot, reported, runs,
                             scanner, crashes>>

\* The `except`: tokens back, the audit record if there is one, mark_failed().
Fail(w) == /\ Go(w, "fail", "release")
           /\ audit' = [audit EXCEPT ![job[w]] = IF @ = "none" THEN @ ELSE "failed"]
           /\ Mark(job[w], "failed")
           /\ UNCHANGED <<created, queue, submits, job, slot, reported, runs,
                          scanner, crashes>>

Release(w) == /\ Go(w, "release", "idle")
              /\ slot' = slot \ {w}
              /\ UNCHANGED <<store, queue, submits, job, audit, reported, runs,
                             scanner, crashes>>

\* The process dies, by itself or because an error inside the `except` (Postgres
\* failing again) leaves process_one(); a new process starts over.  Only in the
\* second case does the `finally` give the slot back.
Die(w) == /\ crashes < MaxCrashes
          /\ \/ "crash" \in Faults /\ worker[w] # "idle" /\ UNCHANGED slot
             \/ "audit" \in Faults /\ worker[w] = "fail" /\ slot' = slot \ {w}
          /\ worker' = [worker EXCEPT ![w] = "idle"]
          /\ crashes' = crashes + 1
          /\ UNCHANGED <<store, queue, submits, job, audit, reported, runs,
                         scanner>>

-----------------------------------------------------------------------------
(* The recovery scanner.                                                   *)

\* Mutant: jobs are listed as recoverable only once they run.
MutRecoverable(j) == status[j] = "running"

Recoverable(j) == status[j] = "queued"

\* list_recoverable(), when the previous list is worked off: the oldest of the
\* recoverable jobs, at most ScanLimit of them.
List == /\ todo = {}
        /\ LET queued == {i \in DOMAIN created : Recoverable(created[i])} IN
           /\ queued # {}
           /\ todo' = {i \in queued : Cardinality({k \in queued : k < i}) < ScanLimit}
        /\ UNCHANGED <<store, queue, submits, worker, job, ledger, scanning, crashes>>

\* The scanner visits its list in order.
NextListed(i) == i \in todo /\ \A k \in todo : i <= k

\* contains(): a job in the queue is skipped.
Visit == /\ ~scanning
         /\ \E i \in todo :
              /\ NextListed(i)
              /\ IF Contains(queue, created[i])
                 THEN todo' = todo \ {i} /\ UNCHANGED scanning
                 ELSE scanning' = TRUE /\ UNCHANGED todo
         /\ UNCHANGED <<store, queue, submits, worker, job, ledger, crashes>>

\* enqueue() of a job that was missing when it was visited.
Reenqueue == /\ scanning
             /\ \E i \in todo : /\ NextListed(i)
                               /\ Enqueue(created[i])
                               /\ todo' = todo \ {i}
             /\ scanning' = FALSE
             /\ UNCHANGED <<store, submits, worker, job, ledger, crashes>>

-----------------------------------------------------------------------------
Submit(j) == SubmitCreate(j) \/ SubmitEnqueue(j)

Process(w) == \/ Dequeue(w) \/ Check(w) \/ Gate(w) \/ Requeue(w) \/ Claim(w)
              \/ Admit(w) \/ AuditStart(w) \/ Call(w) \/ Finalize(w) \/ Succeed(w)
              \/ Fail(w) \/ Release(w)

Scan == List \/ Visit \/ Reenqueue

Next == \/ \E j \in Jobs : Submit(j) \/ CancelJob(j)
             \/ \E w \in Workers : Process(w) \/ Die(w)
             \/ Scan

\* Workers and scanner loop for ever; clients need not submit or cancel.
Spec == /\ Init /\ [][Next]_vars
             /\ \A w \in Workers : WF_vars(Process(w))
             /\ WF_vars(Scan)

-----------------------------------------------------------------------------
TypeOK == /\ status \in [Jobs -> JL!JobStatuses]
          /\ created \in Seq(Jobs) /\ queue \in Seq(Jobs) /\ todo \subseteq DOMAIN created
          /\ scanning \in BOOLEAN
          /\ submits \in [Jobs -> {"new", "enqueue", "done"}]
          /\ worker \in [Workers -> Places]
          /\ job \in [Workers -> Jobs \cup {NoJob}]
          /\ slot \in SUBSET Workers /\ reported \in SUBSET Jobs
          /\ audit \in [Jobs -> {"none", "accepted", "completed", "failed"}]
          /\ runs \in [Jobs -> Nat] /\ crashes \in 0 .. MaxCrashes

\* Workers, cancellations and the scanner together move a job only along
\* ALLOWED_TRANSITIONS: no late result revives a cancelled or finished job,
\* although mark_succeeded() and mark_failed() test for "cancelled" only.
LifecycleImplemented == JL!Spec

\* A job reaches vLLM at most once, however often its id is queued by submit(),
\* by re-queueing and by the scanner, and whichever worker dies when; and it is
\* reported succeeded only when that one execution was audited as completed.
RunAtMostOnce ==
    \A j \in Jobs :
        /\ runs[j] <= 1
        /\ status[j] = "succeeded" => runs[j] = 1 /\ audit[j] = "completed"

\* A queued job does not stay queued, even when its enqueue failed or the worker
\* that dequeued it died: the scanner brings it back.  Only a hook that sends jobs
\* back for ever keeps it waiting, its own or the one the scanner lists first.
QueuedJobsAreTaken ==
    \/ \A j \in Jobs : status[j] = "queued" ~> status[j] # "queued"
    \/ []<>\E w \in Workers : worker[w] = "requeue"

\* The executions that are under way, or left undone by a worker.
Handled(j) == \E w \in Workers : job[w] = j /\ worker[w] \notin {"idle", "check", "gate"}
Stranded == {j \in Jobs : status[j] = "running" /\ ~Handled(j)}

\* A dying worker strands the one job it runs and no other: every running job is
\* in the hands of a worker, but for one per worker that died.
StrandedOnlyByCrash == Cardinality(Stranded) <= crashes

\* A job that was claimed gets a final status, whatever fails while it runs, unless
\* its worker died: nothing brings back a running job whose worker did.  As long as
\* no worker has died, no job is exempt.
ClaimedJobsEnd ==
    \A j \in Jobs :
        status[j] = "running" ~> \/ status[j] \in JL!TERMINAL_STATUSES
                                 \/ crashes > 0 /\ j \in Stranded
=============================================================================
