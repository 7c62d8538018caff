--------------------------- MODULE BatchJobs_proofs ---------------------------
(***************************************************************************)
(* Theorems about BatchJobs, for any jobs, workers, queue, hook, scan limit*)
(* and faults: a job runs at most once, it keeps to its lifecycle, and only*)
(* the death of a worker leaves it running for ever.                       *)
(***************************************************************************)
EXTENDS BatchJobs, FiniteSetTheorems, SequenceTheorems, TLAPS

-----------------------------------------------------------------------------
(* What the table of transitions allows.                                   *)

\* The statuses of a job, spelled out.
LEMMA Statuses ==
    JL!JobStatuses = {"absent", "queued", "running", "succeeded", "failed", "cancelled"}
BY DEF JL!JobStatuses, JL!ALLOWED_TRANSITIONS

\* The transitions that the code makes.
LEMMA Transitions ==
    /\ JL!can_transition("absent", "queued")
    /\ JL!can_transition("running", "succeeded")
    /\ JL!can_transition("running", "failed")
    /\ \A s \in JL!JobStatuses : JL!can_transition(s, "running") <=> s = "queued"
    /\ \A s \in JL!JobStatuses : JL!can_transition(s, "cancelled") <=> s \in {"queued", "running"}
BY Statuses DEF JL!can_transition, JL!ALLOWED_TRANSITIONS

-----------------------------------------------------------------------------
(* Types.                                                                  *)

\* A worker that left the idle state holds a job that was queued.
WorkersHoldJobs == \A w \in Workers : worker[w] # "idle" => job[w] \in Jobs

Typed == TypeOK /\ WorkersHoldJobs

\* Both queues take a job, and no more than a job, at their end.
LEMMA EnqueueTyped == ASSUME queue \in Seq(Jobs), NEW j \in Jobs, Enqueue(j)
                      PROVE  queue' \in Seq(Jobs)
BY AppendProperties DEF Enqueue

\* Appending leaves every place of a sequence where it is.
LEMMA PlacesKept == ASSUME NEW S, NEW s \in Seq(S), NEW e \in S
                    PROVE  DOMAIN s \subseteq DOMAIN Append(s, e)
BY AppendProperties

\* Initially nothing is queued and no worker holds a job.
LEMMA InitTyped == ASSUME Init PROVE Typed
<1>1. created \in Seq(Jobs) /\ queue \in Seq(Jobs) /\ todo \subseteq DOMAIN created
  BY EmptySeq DEF Init
<1>2. status \in [Jobs -> JL!JobStatuses]
  BY Statuses DEF Init, JL!Init
<1>3. crashes \in 0 .. MaxCrashes
  BY BatchAssumption DEF Init
<1> QED
  BY <1>1, <1>2, <1>3 DEF Init, Typed, TypeOK, WorkersHoldJobs, Places

\* The API keeps the types.
LEMMA SubmitTyped == ASSUME Typed, NEW j \in Jobs, Submit(j) \/ CancelJob(j)
                     PROVE  Typed'
<1>1. CASE SubmitCreate(j)
  <2>1. created' \in Seq(Jobs) /\ DOMAIN created \subseteq DOMAIN created'
    BY <1>1, PlacesKept, AppendProperties DEF Typed, TypeOK, SubmitCreate
  <2> QED
    BY <1>1, <2>1, Statuses
       DEF Typed, TypeOK, WorkersHoldJobs, SubmitCreate, ledger, scanner
<1>2. CASE SubmitEnqueue(j)
  <2>1. queue' \in Seq(Jobs)
    BY <1>2, EnqueueTyped DEF Typed, TypeOK, SubmitEnqueue
  <2> QED
    BY <1>2, <2>1 DEF Typed, TypeOK, WorkersHoldJobs, SubmitEnqueue, store, ledger, scanner
<1>3. CASE CancelJob(j)
  BY <1>3, Statuses DEF Typed, TypeOK, WorkersHoldJobs, CancelJob, ledger, scanner
<1> QED
  BY <1>1, <1>2, <1>3 DEF Submit

\* The worker keeps the types, the death of its process included.
LEMMA WorkerTyped == ASSUME Typed, NEW w \in Workers, Process(w) \/ Die(w)
                     PROVE  Typed'
<1> USE DEF Typed, TypeOK, WorkersHoldJobs, Places, Go
<1>1. CASE Dequeue(w)
  <2>1. Head(queue) \in Jobs /\ Tail(queue) \in Seq(Jobs)
    BY <1>1, HeadTailProperties DEF Dequeue
  <2> QED
    BY <1>1, <2>1 DEF Dequeue, store, ledger, scanner
<1>2. CASE Check(w) \/ Gate(w)
  BY <1>2 DEF Check, Gate, store, ledger, scanner
<1>3. CASE Requeue(w)
  <2>1. queue' \in Seq(Jobs)
    BY <1>3, EnqueueTyped DEF Requeue
  <2> QED
    BY <1>3, <2>1 DEF Requeue, store, ledger, scanner
<1>4. CASE Claim(w)
  <2>1. "running" \in JL!JobStatuses
    BY Statuses
  <2>2. job[w] \in Jobs
    BY <1>4 DEF Claim
  <2>3. status' \in [Jobs -> JL!JobStatuses]
    BY <1>4, <2>1, <2>2 DEF Claim
  <2>4. worker' \in [Workers -> Places] /\ WorkersHoldJobs'
    BY <1>4 DEF Claim
  <2> QED
    BY <1>4, <2>3, <2>4 DEF Claim, ledger, scanner
<1>5. CASE Admit(w)
  BY <1>5 DEF Admit, store, scanner
<1>12. CASE AuditStart(w)
  <2>0. job[w] \in Jobs
    BY <1>12 DEF AuditStart
  <2>1. /\ worker' \in [Workers -> Places] /\ WorkersHoldJobs'
        /\ audit' \in [Jobs -> {"none", "accepted", "completed", "failed"}]
    BY <1>12, <2>0 DEF AuditStart
  <2> QED
    BY <1>12, <2>1 DEF AuditStart, store, scanner
<1>10. CASE Finalize(w)
  <2>1. /\ worker' \in [Workers -> Places] /\ WorkersHoldJobs'
        /\ audit' \in [Jobs -> {"none", "accepted", "completed", "failed"}]
    BY <1>10 DEF Finalize
  <2> QED
    BY <1>10, <2>1 DEF Finalize, store, scanner
<1>11. CASE Call(w)
  <2>1. job[w] \in Jobs
    BY <1>11 DEF Call
  <2>2. runs' \in [Jobs -> Nat]
    BY <1>11, <2>1 DEF Call
  <2>3. worker' \in [Workers -> Places] /\ WorkersHoldJobs'
    BY <1>11 DEF Call
  <2> QED
    BY <1>11, <2>2, <2>3 DEF Call, store, scanner
<1>6. CASE Succeed(w)
  BY <1>6, Statuses DEF Succeed, Mark, Report, ledger, scanner
<1>7. CASE Fail(w)
  BY <1>7, Statuses DEF Fail, Mark, ledger, scanner
<1>8. CASE Release(w)
  BY <1>8 DEF Release, store, ledger, scanner
<1>9. CASE Die(w)
  BY <1>9, BatchAssumption DEF Die, store, scanner
<1> QED
  BY <1>1, <1>2, <1>3, <1>4, <1>5, <1>6, <1>7, <1>8, <1>9, <1>10, <1>11, <1>12
     DEF Process

\* The scanner keeps the types: it lists and re-queues created jobs only.
LEMMA ScanTyped == ASSUME Typed, Scan PROVE Typed'
<1> USE DEF Typed, TypeOK, WorkersHoldJobs
<1>1. CASE List
  BY <1>1 DEF List, store, ledger
<1>2. CASE Visit
  BY <1>2 DEF Visit, store, ledger
<1>3. CASE Reenqueue
  <2>1. PICK i \in todo : NextListed(i) /\ Enqueue(created[i]) /\ todo' = todo \ {i}
    BY <1>3 DEF Reenqueue
  <2>2. created[i] \in Jobs
    BY <2>1, ElementOfSeq
  <2>3. queue' \in Seq(Jobs)
    BY <2>1, <2>2, EnqueueTyped
  <2> QED
    BY <1>3, <2>1, <2>3 DEF Reenqueue, store, ledger
<1> QED
  BY <1>1, <1>2, <1>3 DEF Scan

\* Every step keeps the types.
LEMMA StepTyped == ASSUME Typed, [Next]_vars PROVE Typed'
<1>1. CASE UNCHANGED vars
  BY <1>1 DEF Typed, TypeOK, WorkersHoldJobs, vars, store, ledger, scanner
<1> QED
  BY <1>1, SubmitTyped, WorkerTyped, ScanTyped DEF Next

\* Every variable keeps to its type, and whatever a worker works on is a job.
THEOREM TypeCorrect == Spec => [](TypeOK /\ WorkersHoldJobs)
<1>1. Init => Typed
  BY InitTyped
<1>2. Typed /\ [Next]_vars => Typed'
  BY StepTyped
<1> QED
  BY <1>1, <1>2, PTL DEF Spec, Typed

-----------------------------------------------------------------------------
(* A job runs at most once.                                                *)

\* Where a worker is between its claim of a job and the job's final status.
Executing == {"admit", "auditStart", "call", "finalize", "succeed", "fail"}

Executes(w, j) == worker[w] \in Executing /\ job[w] = j

\* No two workers execute one job.
Alone == \A v, w \in Workers : worker[v] \in Executing /\ Executes(w, job[v]) => v = w

\* A job is executed only once it was claimed, and until it is final, unless it
\* was cancelled meanwhile.
Started == \A w \in Workers : worker[w] \in Executing => status[job[w]] \in {"running", "cancelled"}

\* A job that was not claimed yet has not run, one not submitted yet does not exist.
NotRunYet ==
    \A j \in Jobs :
        /\ status[j] \in {"absent", "queued"} => runs[j] = 0
        /\ submits[j] = "new" => status[j] = "absent"

\* How far the execution of its job has come in each worker.
Progress ==
    \A w \in Workers :
        /\ worker[w] \in {"admit", "auditStart", "call"} => runs[job[w]] = 0
        /\ worker[w] \in {"finalize", "succeed"} => runs[job[w]] = 1
        /\ worker[w] = "succeed" => audit[job[w]] = "completed"

ExecutionInv == Alone /\ Started /\ NotRunYet /\ Progress /\ RunAtMostOnce

Inv == Typed /\ ExecutionInv

\* Submitting and cancelling a job disturbs no execution.
LEMMA SubmitKeepsInv == ASSUME Inv, NEW j \in Jobs, Submit(j) \/ CancelJob(j)
                        PROVE  ExecutionInv'
<1> USE DEF Inv, ExecutionInv, Alone, Started, NotRunYet, Progress, RunAtMostOnce,
            Executes, Executing, Typed, TypeOK, WorkersHoldJobs
<1>1. CASE SubmitCreate(j)
  BY <1>1 DEF SubmitCreate, ledger
<1>2. CASE SubmitEnqueue(j)
  BY <1>2 DEF SubmitEnqueue, store, ledger
<1>3. CASE CancelJob(j)
  <2>1. /\ status[j] \in {"queued", "running"}
        /\ status' = [status EXCEPT ![j] = "cancelled"]
        /\ UNCHANGED <<submits, worker, job, audit, runs>>
    BY <1>3, Transitions DEF CancelJob, ledger
  <2> QED
    BY <2>1
<1> QED
  BY <1>1, <1>2, <1>3 DEF Submit

\* Neither does a worker that has not claimed its job, or has released it.
LEMMA IdleKeepsInv ==
    ASSUME Inv, NEW w \in Workers,
           Dequeue(w) \/ Check(w) \/ Gate(w) \/ Requeue(w) \/ Release(w) \/ Die(w)
    PROVE  ExecutionInv'
<1>1. /\ UNCHANGED <<status, submits, audit, runs>>
      /\ \A v \in Workers : worker'[v] \in Executing => worker'[v] = worker[v] /\ job'[v] = job[v]
  <2> USE DEF Inv, Typed, TypeOK, Go, store, ledger, Executing
  <2>1. CASE Dequeue(w)
    BY <2>1 DEF Dequeue
  <2>2. CASE Check(w) \/ Gate(w) \/ Requeue(w) \/ Release(w)
    BY <2>2 DEF Check, Gate, Requeue, Release
  <2>3. CASE Die(w)
    BY <2>3 DEF Die
  <2> QED
    BY <2>1, <2>2, <2>3
<1> QED
  BY <1>1 DEF Inv, ExecutionInv, Alone, Started, NotRunYet, Progress, RunAtMostOnce,
              Executes, Executing

\* What the invariant says of one executing worker and its job.
Own(w) ==
    /\ status[job[w]] \notin {"absent", "queued"}
    /\ worker[w] \in Executing => status[job[w]] \in {"running", "cancelled"}
    /\ worker[w] \in {"admit", "auditStart", "call"} => runs[job[w]] = 0
    /\ worker[w] \in {"finalize", "succeed"} => runs[job[w]] = 1
    /\ worker[w] = "succeed" => audit[job[w]] = "completed"
    /\ runs[job[w]] <= 1
    /\ status[job[w]] = "succeeded" => runs[job[w]] = 1 /\ audit[job[w]] = "completed"

\* A step in which a worker changes what is recorded of its own job only.
OwnStep(w) ==
    /\ UNCHANGED <<submits, job>>
    /\ \A v \in Workers : v # w => worker'[v] = worker[v]
    /\ \A j \in Jobs : j # job[w] => /\ status'[j] = status[j]
                                   /\ audit'[j] = audit[j]
                                   /\ runs'[j] = runs[j]

\* It is enough to look at that worker.
LEMMA OwnStepKeepsInv ==
    ASSUME Inv, NEW w \in Workers, job[w] \in Jobs, submits[job[w]] # "new", OwnStep(w), Own(w)',
           \A v \in Workers : v # w => ~Executes(v, job[w])
    PROVE  ExecutionInv'
<1>0. /\ job' = job /\ submits' = submits
      /\ Alone /\ Started /\ NotRunYet /\ Progress /\ RunAtMostOnce
  BY DEF Inv, ExecutionInv, OwnStep
\* Another worker executes another job, of which nothing changes.
<1>6. ASSUME NEW v \in Workers, v # w, worker'[v] \in Executing
      PROVE  /\ worker'[v] = worker[v] /\ job[v] # job[w]
             /\ status'[job[v]] = status[job[v]] /\ audit'[job[v]] = audit[job[v]]
             /\ runs'[job[v]] = runs[job[v]]
  <2>1. worker'[v] = worker[v] /\ job[v] # job[w]
    BY <1>6 DEF OwnStep, Executes
  <2>2. job[v] \in Jobs
    BY <1>6, <2>1 DEF Inv, Typed, WorkersHoldJobs, Executing
  <2> QED
    BY <2>1, <2>2 DEF OwnStep
<1>7. Own(w)' /\ (Executing)' = Executing
  BY DEF Executing
<1>1. Alone'
  BY <1>0, <1>6 DEF Alone, Executes
<1>2. Started'
  BY <1>0, <1>6, <1>7 DEF Started, Own
<1>3. NotRunYet'
  BY <1>0, <1>7 DEF NotRunYet, OwnStep, Own
<1>4. Progress'
  <2>1. {"admit", "auditStart", "call", "finalize", "succeed"} \subseteq Executing
    BY DEF Executing
  <2>2. ASSUME NEW v \in Workers
        PROVE  /\ worker'[v] \in {"admit", "auditStart", "call"} => runs'[job[v]] = 0
               /\ worker'[v] \in {"finalize", "succeed"} => runs'[job[v]] = 1
               /\ worker'[v] = "succeed" => audit'[job[v]] = "completed"
    <3>1. CASE v = w
      BY <1>0, <1>7, <3>1 DEF Own
    <3>2. CASE v # w
      BY <1>0, <1>6, <2>1, <3>2 DEF Progress
    <3> QED
      BY <3>1, <3>2
  <2> QED
    BY <1>0, <2>2 DEF Progress
<1>5. RunAtMostOnce'
  BY <1>0, <1>7 DEF RunAtMostOnce, OwnStep, Own
<1> QED
  BY <1>1, <1>2, <1>3, <1>4, <1>5 DEF ExecutionInv

\* A claim takes a job that no worker executes: it was still queued.
LEMMA ClaimKeepsInv == ASSUME Inv, NEW w \in Workers, Claim(w)
                       PROVE  ExecutionInv'
<1> USE DEF Inv, Typed, TypeOK, WorkersHoldJobs, Go
<1>1. CASE worker'[w] = "admit"
  <2>1. /\ job[w] \in Jobs
        /\ status[job[w]] = "queued"
        /\ status' = [status EXCEPT ![job[w]] = "running"]
        /\ worker' = [worker EXCEPT ![w] = "admit"]
        /\ UNCHANGED <<submits, job, audit, runs>>
    BY <1>1, Transitions DEF Claim, CanClaim, ledger
  <2>2. submits[job[w]] # "new" /\ runs[job[w]] = 0
    BY <2>1 DEF ExecutionInv, NotRunYet
  <2>3. \A v \in Workers : ~Executes(v, job[w])
    BY <2>1 DEF ExecutionInv, Started, Executes
  <2>4. OwnStep(w) /\ Own(w)'
    BY <2>1, <2>2 DEF OwnStep, Own, Executing
  <2> QED
    BY <2>1, <2>2, <2>3, <2>4, OwnStepKeepsInv
<1>2. CASE worker'[w] # "admit"
  <2>1. /\ worker' = [worker EXCEPT ![w] = "idle"]
        /\ UNCHANGED <<status, submits, job, audit, runs>>
    BY <1>2 DEF Claim, ledger
  <2> QED
    BY <2>1 DEF ExecutionInv, Alone, Started, NotRunYet, Progress, RunAtMostOnce,
                Executes, Executing
<1> QED
  BY <1>1, <1>2

\* A worker that executes a job changes what is recorded of that job alone.
LEMMA ExecutionKeepsInv ==
    ASSUME Inv, NEW w \in Workers,
           Admit(w) \/ AuditStart(w) \/ Call(w) \/ Finalize(w) \/ Succeed(w) \/ Fail(w)
    PROVE  ExecutionInv'
<1>1. worker[w] \in Executing
  BY DEF Admit, AuditStart, Call, Finalize, Succeed, Fail, Go, Executing
<1>2. job[w] \in Jobs
  BY <1>1 DEF Inv, Typed, WorkersHoldJobs, Executing
<1>3. \A v \in Workers : v # w => ~Executes(v, job[w])
  BY <1>1 DEF Inv, ExecutionInv, Alone, Executes
<1>4. status[job[w]] \in {"running", "cancelled"} /\ runs[job[w]] <= 1
  BY <1>1, <1>2 DEF Inv, ExecutionInv, Started, RunAtMostOnce
<1>5. submits[job[w]] # "new"
  BY <1>2, <1>4 DEF Inv, ExecutionInv, NotRunYet
<1>6. /\ worker[w] \in {"admit", "auditStart", "call"} => runs[job[w]] = 0
      /\ worker[w] \in {"finalize", "succeed"} => runs[job[w]] = 1
      /\ worker[w] = "succeed" => audit[job[w]] = "completed"
  BY DEF Inv, ExecutionInv, Progress
<1>7. OwnStep(w) /\ Own(w)'
  <2> USE <1>2, <1>4, <1>6 DEF Inv, Typed, TypeOK, Go, OwnStep, Own, Executing
  <2>1. CASE Admit(w)
    BY <2>1 DEF Admit, store
  <2>2. CASE AuditStart(w)
    BY <2>2 DEF AuditStart, store
  <2>3. CASE Call(w)
    BY <2>3 DEF Call, store
  <2>4. CASE Finalize(w)
    BY <2>4 DEF Finalize, store
  <2>5. CASE Succeed(w)
    BY <2>5 DEF Succeed, Mark
  <2>6. CASE Fail(w)
    BY <2>6 DEF Fail, Mark
  <2> QED
    BY <2>1, <2>2, <2>3, <2>4, <2>5, <2>6
<1> QED
  BY <1>2, <1>3, <1>5, <1>7, OwnStepKeepsInv

\* The scanner touches the queue only.
LEMMA ScanKeepsInv == ASSUME Inv, Scan \/ UNCHANGED vars
                      PROVE  ExecutionInv'
<1>1. UNCHANGED <<status, submits, worker, job, audit, runs>>
  BY DEF Scan, List, Visit, Reenqueue, vars, store, ledger
<1> QED
  BY <1>1 DEF Inv, ExecutionInv, Alone, Started, NotRunYet, Progress, RunAtMostOnce,
              Executes, Executing

\* Initially nothing is executed.
LEMMA InitInv == ASSUME Init PROVE Inv
<1>1. Typed
  BY InitTyped
<1>2. Alone /\ Started /\ Progress
  BY DEF Init, Alone, Started, Progress, Executing
<1>3. NotRunYet /\ RunAtMostOnce
  BY DEF Init, JL!Init, NotRunYet, RunAtMostOnce
<1> QED
  BY <1>1, <1>2, <1>3 DEF Inv, ExecutionInv

\* Every step keeps the invariant.
LEMMA StepKeepsInv == ASSUME Inv, [Next]_vars PROVE Inv'
<1>1. Typed'
  BY StepTyped DEF Inv
<1>2. ExecutionInv'
  BY SubmitKeepsInv, IdleKeepsInv, ClaimKeepsInv, ExecutionKeepsInv, ScanKeepsInv
     DEF Next, Process
<1> QED
  BY <1>1, <1>2 DEF Inv

\* A job reaches vLLM at most once, however often its id is queued and whoever dies
\* when, and it is reported succeeded only when its one execution was audited so.
THEOREM RunsOnce == Spec => []RunAtMostOnce
<1>1. Inv => RunAtMostOnce
  BY DEF Inv, ExecutionInv
<1> QED
  BY <1>1, InitInv, StepKeepsInv, PTL DEF Spec

-----------------------------------------------------------------------------
(* A job keeps to its lifecycle.                                           *)

\* A step that writes the status of one job along an allowed transition.
LEMMA AdvanceIsNext ==
    ASSUME NEW j \in Jobs, NEW s \in JL!JobStatuses, JL!can_transition(status[j], s),
           status' = [status EXCEPT ![j] = s]
    PROVE  JL!Next
BY DEF JL!Next, JL!Advance

\* A result is written over a running job only, or leaves a cancelled one alone.
LEMMA MarkAdvances ==
    ASSUME Inv, NEW w \in Workers, worker[w] \in Executing,
           NEW s \in {"succeeded", "failed"}, Mark(job[w], s)
    PROVE  [JL!Next]_status
<1>1. job[w] \in Jobs /\ status[job[w]] \in {"running", "cancelled"}
  BY DEF Inv, Typed, WorkersHoldJobs, ExecutionInv, Started, Executing
<1>2. status \in [Jobs -> JL!JobStatuses]
  BY DEF Inv, Typed, TypeOK
<1>3. CASE status[job[w]] = "running"
  <2>1. status' = [status EXCEPT ![job[w]] = s]
    BY <1>3 DEF Mark
  <2>2. s \in JL!JobStatuses /\ JL!can_transition(status[job[w]], s)
    BY <1>3, Statuses, Transitions
  <2> QED
    BY <1>1, <2>1, <2>2, AdvanceIsNext
<1>4. CASE status[job[w]] = "cancelled"
  BY <1>1, <1>2, <1>4 DEF Mark
<1> QED
  BY <1>1, <1>3, <1>4

\* Every step of the service, a worker or the scanner is one of the lifecycle.
LEMMA StepFollowsLifecycle == ASSUME Inv, [Next]_vars PROVE [JL!Next]_status
<1>1. ASSUME NEW j \in Jobs, SubmitCreate(j) PROVE JL!Next
  <2>1. status[j] = "absent" /\ status' = [status EXCEPT ![j] = "queued"]
    BY <1>1 DEF Inv, ExecutionInv, NotRunYet, SubmitCreate
  <2> QED
    BY <2>1, Statuses, Transitions, AdvanceIsNext
<1>2. ASSUME NEW j \in Jobs, CancelJob(j) PROVE JL!Next
  BY <1>2, Statuses, AdvanceIsNext DEF CancelJob
<1>3. ASSUME NEW w \in Workers, Claim(w) PROVE [JL!Next]_status
  <2>1. job[w] \in Jobs
    BY <1>3 DEF Claim, Go, Inv, Typed, WorkersHoldJobs
  <2> QED
    BY <1>3, <2>1, Statuses, AdvanceIsNext DEF Claim, CanClaim
<1>4. ASSUME NEW w \in Workers, Succeed(w) \/ Fail(w) PROVE [JL!Next]_status
  <2>1. worker[w] \in Executing
    BY <1>4 DEF Succeed, Fail, Go, Executing
  <2> QED
    BY <1>4, <2>1, MarkAdvances DEF Succeed, Fail
<1>5. ASSUME NEW w \in Workers,
             \/ Dequeue(w) \/ Check(w) \/ Gate(w) \/ Requeue(w) \/ Admit(w)
             \/ AuditStart(w) \/ Call(w) \/ Finalize(w) \/ Release(w) \/ Die(w)
      PROVE  UNCHANGED status
  BY <1>5 DEF Dequeue, Check, Gate, Requeue, Admit, AuditStart, Call, Finalize, Release, Die,
              store
<1>6. ASSUME \/ \E j \in Jobs : SubmitEnqueue(j)
             \/ Scan \/ UNCHANGED vars
      PROVE  UNCHANGED status
  BY <1>6 DEF SubmitEnqueue, Scan, List, Visit, Reenqueue, store, vars
<1> QED
  BY <1>1, <1>2, <1>3, <1>4, <1>5, <1>6 DEF Next, Submit, Process

\* BatchJobs implements JobLifecycle: no late result revives a cancelled or finished
\* job, although mark_succeeded() and mark_failed() test for "cancelled" only.
THEOREM KeepsLifecycle == Spec => LifecycleImplemented
<1>1. Init => JL!Init
  BY DEF Init
<1> QED
  BY <1>1, InitInv, StepKeepsInv, StepFollowsLifecycle, PTL
     DEF Spec, LifecycleImplemented, JL!Spec

-----------------------------------------------------------------------------
(* Only a dying worker strands a job.                                      *)

\* The running jobs that no worker executes.
Orphans == {j \in Jobs : status[j] = "running" /\ ~\E w \in Workers : Executes(w, j)}

OrphanInv == IsFiniteSet(Orphans) /\ Cardinality(Orphans) <= crashes

\* A job starts running in the hands of a worker, which keeps it while it runs.
LEMMA NoNewOrphans ==
    ASSUME Inv, [Next]_vars, \A w \in Workers : ~Die(w)
    PROVE  Orphans' \subseteq Orphans /\ crashes' = crashes
<1> USE DEF Inv, Typed, TypeOK, Executes, Executing, Orphans, Go
<1>1. ASSUME NEW w \in Workers, Claim(w)
      PROVE  Orphans' \subseteq Orphans /\ crashes' = crashes
  BY <1>1 DEF Claim, WorkersHoldJobs
<1>2. ASSUME NEW w \in Workers, Succeed(w) \/ Fail(w)
      PROVE  Orphans' \subseteq Orphans /\ crashes' = crashes
  BY <1>2 DEF Succeed, Fail, Mark, WorkersHoldJobs
<1>3. ASSUME NEW w \in Workers, Dequeue(w)
      PROVE  Orphans' \subseteq Orphans /\ crashes' = crashes
  BY <1>3 DEF Dequeue, store
<1>4. ASSUME NEW w \in Workers, Check(w) \/ Gate(w) \/ Requeue(w) \/ Release(w)
      PROVE  Orphans' \subseteq Orphans /\ crashes' = crashes
  BY <1>4 DEF Check, Gate, Requeue, Release, store
<1>5. ASSUME NEW w \in Workers, Admit(w) \/ AuditStart(w) \/ Call(w) \/ Finalize(w)
      PROVE  Orphans' \subseteq Orphans /\ crashes' = crashes
  BY <1>5 DEF Admit, AuditStart, Call, Finalize, store
<1>6. ASSUME NEW j \in Jobs, Submit(j) \/ CancelJob(j)
      PROVE  Orphans' \subseteq Orphans /\ crashes' = crashes
  BY <1>6 DEF Submit, SubmitCreate, SubmitEnqueue, CancelJob, store
<1>7. ASSUME Scan \/ UNCHANGED vars
      PROVE  Orphans' \subseteq Orphans /\ crashes' = crashes
  BY <1>7 DEF Scan, List, Visit, Reenqueue, vars, store
<1> QED
  BY <1>1, <1>2, <1>3, <1>4, <1>5, <1>6, <1>7 DEF Next, Process

\* A dying worker leaves the job it executed, and no other, behind.
LEMMA DeathOrphansOne ==
    ASSUME Inv, NEW w \in Workers, Die(w)
    PROVE  Orphans' \subseteq Orphans \cup {job[w]} /\ crashes' = crashes + 1
BY DEF Die, Orphans, Executes, Executing, store, Inv, Typed, TypeOK

\* So there are never more of them than workers that died.
LEMMA StepKeepsOrphans == ASSUME Inv, OrphanInv, [Next]_vars PROVE OrphanInv'
<1>1. CASE \A w \in Workers : ~Die(w)
  BY <1>1, NoNewOrphans, FS_Subset, FS_CardinalityType DEF OrphanInv, Inv, Typed, TypeOK
<1>2. ASSUME NEW w \in Workers, Die(w) PROVE OrphanInv'
  <2> DEFINE Left == Orphans \cup {job[w]}
  <2>1. IsFiniteSet(Left) /\ Cardinality(Left) <= Cardinality(Orphans) + 1
    BY FS_AddElement, FS_CardinalityType DEF OrphanInv
  <2>2. IsFiniteSet(Orphans') /\ Cardinality(Orphans') <= Cardinality(Left)
    BY <1>2, <2>1, DeathOrphansOne, FS_Subset
  <2>3. Cardinality(Orphans) \in Nat /\ Cardinality(Left) \in Nat /\ Cardinality(Orphans') \in Nat
    BY <2>1, <2>2, FS_CardinalityType DEF OrphanInv
  <2> HIDE DEF Left
  <2> QED
    BY <1>2, <2>1, <2>2, <2>3, DeathOrphansOne DEF OrphanInv, Inv, Typed, TypeOK
<1> QED
  BY <1>1, <1>2

\* A dying worker strands the one job it runs and no other.
THEOREM StrandsOnlyByCrash == Spec => []StrandedOnlyByCrash
<1>1. Init => OrphanInv
  <2> SUFFICES ASSUME Init PROVE OrphanInv
    OBVIOUS
  <2>1. Orphans = {}
    BY DEF Init, JL!Init, Orphans
  <2> QED
    BY <2>1, FS_EmptySet DEF Init, OrphanInv
<1>2. OrphanInv /\ Inv => StrandedOnlyByCrash
  <2> SUFFICES ASSUME OrphanInv, Inv PROVE StrandedOnlyByCrash
    OBVIOUS
  <2>1. Stranded \subseteq Orphans
    BY DEF Stranded, Handled, Orphans, Executes, Executing
  <2>2. Cardinality(Stranded) <= Cardinality(Orphans) /\ IsFiniteSet(Stranded)
    BY <2>1, FS_Subset DEF OrphanInv
  <2>3. Cardinality(Stranded) \in Nat /\ Cardinality(Orphans) \in Nat
    BY <2>2, FS_CardinalityType DEF OrphanInv
  <2> QED
    BY <2>2, <2>3 DEF OrphanInv, StrandedOnlyByCrash, Inv, Typed, TypeOK
<1> QED
  BY <1>1, <1>2, InitInv, StepKeepsInv, StepKeepsOrphans, PTL DEF Spec
=============================================================================
