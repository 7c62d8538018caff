---------------------------- MODULE JobLifecycle ----------------------------
(***************************************************************************)
(* What a batch job promises its owner, backend/services/batch/            *)
(* batch_service.py: a job is created queued and from there only moves     *)
(* along ALLOWED_TRANSITIONS, one job per step.                            *)
(***************************************************************************)
CONSTANT Jobs

VARIABLE status  \* "absent" before the job is created

ALLOWED_TRANSITIONS ==
    [absent    |-> {"queued"},
     queued    |-> {"running", "cancelled", "failed"},
     running   |-> {"succeeded", "failed", "cancelled"},
     succeeded |-> {},
     failed    |-> {},
     cancelled |-> {}]

JobStatuses == DOMAIN ALLOWED_TRANSITIONS
TERMINAL_STATUSES == {"succeeded", "failed", "cancelled"}

can_transition(current, target) == target \in ALLOWED_TRANSITIONS[current]

Init == status = [j \in Jobs |-> "absent"]

Advance(j) == \E s \in JobStatuses : /\ can_transition(status[j], s)
                                     /\ status' = [status EXCEPT ![j] = s]

Next == \E j \in Jobs : Advance(j)

Spec == Init /\ [][Next]_status
=============================================================================
