------------------------------ MODULE MCGateway ------------------------------
(***************************************************************************)
(* An instance of Gateway for TLC, under all faults: a request of any kind,*)
(* for prompts of 8, of 10 (the limit) and of 11 tokens, and one that can  *)
(* only be refused, by the auth middleware or by the route.  Requests share*)
(* nothing but the process, where the second can race the first for the    *)
(* engine, fail while the other runs, and hold up its shutdown.            *)
(***************************************************************************)
EXTENDS Gateway, TLC

CONSTANTS r1, r2, m1, m2

MCRequests == {r1, r2}

Body(streamed, model, content, max_tokens) ==
    [stream |-> streamed, model |-> model, max_tokens |-> max_tokens,
     messages |-> <<[role |-> 4, content |-> content]>>]

\* A client may ask: a JSON request that just fits, a stream that may outgrow its plan, and one
\* request for each reason of refusal.
AnyBody == {Body(FALSE, m1, 9, 3), Body(TRUE, m1, 4, 1),
             Body(FALSE, m1, 13, 1), Body(FALSE, m1, 4, 5), Body(FALSE, m1, 9, Null),
             Body(FALSE, m2, 4, 1)}
MCBodies == [r \in MCRequests |-> IF r = r1 THEN AnyBody ELSE {Body(FALSE, m2, 4, 1)}]
MCModels == {m1}

\* Without usage; with all of it, beyond the plan; with a null and without total.
MCResponses == {[text |-> 5],
                [text |-> 5, usage |-> [prompt_tokens |-> 9, completion_tokens |-> 6,
                                        total_tokens |-> 15]],
                [text |-> 5, usage |-> [completion_tokens |-> Null]]}
===============================================================================
