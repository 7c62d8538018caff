--------------------------- MODULE TokenAccounting ---------------------------
(***************************************************************************)
(* backend/services/inference/token_accounting.py: the token plan a request*)
(* is admitted with, and the usage it is recorded with.  A text is the     *)
(* number of its characters, stripped.                                     *)
(***************************************************************************)
EXTENDS Integers, Sequences, SequencesExt

CONSTANTS MaxInputTokens, MaxOutputTokens, MaxTotalTokens,
          Null   \* JSON's null, and Python's None

ASSUME TokenAssumption == /\ {MaxInputTokens, MaxOutputTokens, MaxTotalTokens} \subseteq Nat
                          /\ Null \notin Int

\* HeuristicTokenEstimator: a quarter of the characters, rounded up.
count_text(text) == (text + 3) \div 4

Overhead(message) == 4 + count_text(message.role) + count_text(message.content)

estimate_prompt_tokens(messages) ==
    FoldLeft(LAMBDA total, message : total + Overhead(message), 2, messages)

RequestedOutput(request) ==
    IF request.max_tokens = Null THEN MaxOutputTokens ELSE request.max_tokens

token_plan(request) ==
    LET prompt == estimate_prompt_tokens(request.messages)
    IN [prompt_tokens |-> prompt,
        estimated_total_tokens |-> prompt + RequestedOutput(request)]

\* Mutant: the total is not tested, as each part is.
MutPlanAccepted(request) ==
    /\ RequestedOutput(request) <= MaxOutputTokens
    /\ token_plan(request).prompt_tokens <= MaxInputTokens

\* build_token_plan() raises otherwise.
PlanAccepted(request) ==
    /\ RequestedOutput(request) <= MaxOutputTokens
    /\ token_plan(request).prompt_tokens <= MaxInputTokens
    /\ token_plan(request).estimated_total_tokens <= MaxTotalTokens

\* A UsageRecord.
Used(prompt, completion, total, status) ==
    [prompt_tokens |-> prompt, completion_tokens |-> completion,
     total_tokens |-> total, status |-> status]

\* int(usage.get(field, default) or 0): a null is no default.
Count(usage, field, default) ==
    IF field \notin DOMAIN usage THEN default
    ELSE IF usage[field] = Null THEN 0 ELSE usage[field]

usage_from_stream_text(text, plan, status) ==
    Used(plan.prompt_tokens, count_text(text),
         plan.prompt_tokens + count_text(text), status)

\* vLLM's own counts when it gave any, else those of the assistant's text.
usage_from_response(response, plan) ==
    IF "usage" \notin DOMAIN response
    THEN usage_from_stream_text(response.text, plan, "completed")
    ELSE LET prompt == Count(response.usage, "prompt_tokens", plan.prompt_tokens)
             completion == Count(response.usage, "completion_tokens", 0)
         IN Used(prompt, completion,
                 Count(response.usage, "total_tokens", prompt + completion), "completed")
=============================================================================
