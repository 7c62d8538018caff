----------------------------- MODULE MCBatchJobs -----------------------------
(***************************************************************************)
(* An instance of BatchJobs for TLC: two jobs for one worker, or one job   *)
(* on which two workers can meet, queued twice, one of them with a hook.   *)
(***************************************************************************)
EXTENDS BatchJobs, TLC

CONSTANTS j1, j2, w1, w2

TwoJobs == {j1, j2}
TwoWorkers == {w1, w2}
OneGated == {w2}
TwoCrowds == {{j1, j2, w1}, {j1, w1, w2}}
==============================================================================
