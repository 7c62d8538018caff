--------------------------- MODULE ChatCompletion ---------------------------
(***************************************************************************)
(* backend/api/routes/chat_completions.py: one POST /v1/chat/completions   *)
(* from the auth middleware to its last await, as a JSON reply or as a     *)
(* stream.  Each action is the code between two awaits.  The admission     *)
(* lease, the token reservation and the audit record are seen through their*)
(* interfaces; what admission does in Redis is in module Admission.        *)
(*                                                                         *)
(* Faults names what may go wrong around the handler:                      *)
(*   "upstream"    vLLM fails, times out or answers with an error          *)
(*   "disconnect"  request.is_disconnected() sees that the client is gone  *)
(*   "cancel"      the server cancels the handler's task at an await, and  *)
(*                 may do so again at every later await of its clean-up;   *)
(*                 for a suspended stream this is the aclose() of its      *)
(*                 generator                                               *)
(*   "auditStart", "auditFinal"   Postgres fails under the audit service   *)
(*   "close"       closing the upstream stream raises                      *)
(***************************************************************************)
EXTENDS TokenAccounting, FiniteSets

CONSTANTS Requests,
          Bodies,     \* what each client may ask: stream, model, messages, max_tokens
          AllowedModels,  \* the models of the client's key, or Null for any
          Responses,  \* what vLLM may answer: text, and usage if it counts
          Faults,     \* the faults that may occur
          ChunkText,  \* length of the text of a content chunk
          MaxChunks   \* bound: content chunks of a stream

FaultKinds == {"upstream", "disconnect", "cancel", "auditStart", "auditFinal", "close"}

ASSUME ChatAssumption == Faults \subseteq FaultKinds /\ {ChunkText, MaxChunks} \subseteq Nat

\* What the schema lets through, and that a sum over the messages is a number.
ASSUME BodyAssumption ==
    \A r \in Requests : \A b \in Bodies[r] :
        b.max_tokens \in Nat \cup {Null} /\ estimate_prompt_tokens(b.messages) \in Nat

\* Where vLLM counts, it gives numbers or nulls.
ASSUME ResponseAssumption ==
    \A answer \in Responses :
        /\ answer.text \in Nat
        /\ "usage" \in DOMAIN answer =>
             \A f \in {"prompt_tokens", "completion_tokens", "total_tokens"} :
                 f \in DOMAIN answer.usage => answer.usage[f] \in Nat \cup {Null}

VARIABLES pc,       \* the await each request is at
          body,     \* request_body
          response, \* vLLM's answer to a JSON request
          status,   \* `status` of _stream_response
          chunks,   \* content chunks the client was sent
          slot,     \* the concurrency lease: "none", "held", "released"
          tokens,   \* the reservation, and what the quota counts for it
          audit,    \* the audit row, of status "none" before there is one
          usage,    \* usage_records appended for the request
          events,   \* usage events handed to the analytics collector
          reply,    \* what the client is answered: "none", "ok" or "error"
          gauge,    \* the active-streams gauge
          outcome,  \* history: how the generation really ended
          hit       \* history: the awaits of each request at which its task was
                    \* cancelled, or an audit write or the closing failed

vars == <<pc, body, response, status, chunks, slot, tokens, audit, usage, events, reply,
          gauge, outcome, hit>>

Statuses == {"completed", "failed", "client_disconnected"}
Places == {"auth", "admit", "auditStart", "call", "handed", "stream", "close", "settle",
           "auditFinal", "fail", "auditFailed", "release", "done"}

NoUsage(s) == Used(0, 0, 0, s)
Reservation(state, amount) == [state |-> state, amount |-> amount]

Init == /\ pc = [r \in Requests |-> "auth"]
        /\ body \in {b \in [Requests -> UNION {Bodies[r] : r \in Requests}] :
                      \A r \in Requests : b[r] \in Bodies[r]}
        /\ response = [r \in Requests |-> [text |-> 0]]
        /\ status = [r \in Requests |-> "completed"]
        /\ chunks = [r \in Requests |-> 0]
        /\ slot = [r \in Requests |-> "none"]
        /\ tokens = [r \in Requests |-> Reservation("none", 0)]
        /\ audit = [r \in Requests |-> NoUsage("none")]
        /\ usage = [r \in Requests |-> <<>>]
        /\ events = [r \in Requests |-> <<>>]
        /\ reply = [r \in Requests |-> "none"]
        /\ gauge = 0
        /\ outcome = [r \in Requests |-> "open"]
        /\ hit = [r \in Requests |-> {}]

-----------------------------------------------------------------------------
Go(r, from, to) == pc[r] = from /\ pc' = [pc EXCEPT ![r] = to]
Put(f, r, v) == [f EXCEPT ![r] = v]
Ends(r, how) == outcome' = Put(outcome, r, how)
Hits(r) == hit' = Put(hit, r, hit[r] \cup {pc[r]})

Streams(r) == body[r].stream
Plan(r) == token_plan(body[r])

ledger == <<tokens, usage, events>>
traffic == <<body, status, chunks>>

\* _record_usage().
Record(r, used) == usage' = Put(usage, r, Append(usage[r], used))

\* _emit_usage_analytics(), which never raises: the usage recorded last.
Emit(r) == events' = Put(events, r, Append(events[r], Last(usage[r])))

\* build_audit_final() copies the usage recorded last.
WriteAudit(r) == audit' = Put(audit, r, Last(usage[r]))

\* An error raised before there is anything to undo; the client gets its code.
Refuse(r, from) == /\ Go(r, from, "done")
                   /\ reply' = Put(reply, r, "error")
                   /\ Ends(r, "error")

\* ApiKeyAuthMiddleware: the key is missing, unknown, revoked or expired, or it
\* is not.
Authenticate(r) == /\ \/ Go(r, "auth", "admit") /\ UNCHANGED <<reply, outcome>>
                      \/ Refuse(r, "auth")
                   /\ UNCHANGED <<traffic, response, slot, ledger, audit, gauge, hit>>

ensure_model_allowed(r) == AllowedModels = Null \/ body[r].model \in AllowedModels

\* The handler up to admit(), which raises when it refuses.
Admit(r) ==
    /\ \/ /\ ensure_model_allowed(r) /\ PlanAccepted(body[r])
          /\ Go(r, "admit", "auditStart")
          /\ slot' = Put(slot, r, "held")
          /\ tokens' = Put(tokens, r,
                            Reservation("reserved", Plan(r).estimated_total_tokens))
          /\ UNCHANGED <<reply, outcome>>
       \/ Refuse(r, "admit") /\ UNCHANGED <<slot, tokens>>
    /\ UNCHANGED <<traffic, response, audit, usage, events, gauge, hit>>

\* audit_service.start(), outside any try: its failure only raises.
StartAudit(r) ==
    /\ \/ /\ Go(r, "auditStart", IF Streams(r) THEN "handed" ELSE "call")
          /\ audit' = Put(audit, r, NoUsage("accepted"))
          /\ UNCHANGED <<reply, outcome, hit>>
       \/ "auditStart" \in Faults /\ Refuse(r, "auditStart") /\ Hits(r) /\ UNCHANGED audit
    /\ UNCHANGED <<traffic, response, slot, ledger, gauge>>

\* The JSON call to vLLM.
Call(r) == /\ Go(r, "call", "settle")
           /\ \E answer \in Responses : response' = Put(response, r, answer)
           /\ Ends(r, "complete")
           /\ UNCHANGED <<traffic, slot, ledger, audit, reply, gauge, hit>>

\* A time-out, a broken connection, a status of 400 or more, or no JSON object.
CallFails(r) == /\ "upstream" \in Faults
                /\ Go(r, "call", "fail")
                /\ Ends(r, "error")
                /\ UNCHANGED <<traffic, response, slot, ledger, audit, reply, gauge, hit>>

\* The server iterates the streaming response for the first time.
BeginStream(r) == /\ Go(r, "handed", "stream")
                  /\ gauge' = gauge + 1
                  /\ UNCHANGED <<traffic, response, slot, ledger, audit, reply, outcome, hit>>

\* An event that goes on to the client.
SendChunk(r) == /\ pc[r] = "stream" /\ chunks[r] < MaxChunks
                /\ chunks' = Put(chunks, r, chunks[r] + 1)
                /\ UNCHANGED <<pc, body, response, status, slot, ledger, audit, reply, gauge,
                               outcome, hit>>

LeaveStream(r, s) == /\ Go(r, "stream", "close")
                     /\ status' = Put(status, r, s)
                     /\ UNCHANGED <<body, response, chunks, slot, ledger, audit, gauge, hit>>

\* The upstream stream is exhausted, [DONE] included.
StreamEnds(r) == /\ LeaveStream(r, "completed")
                 /\ reply' = Put(reply, r, "ok")
                 /\ Ends(r, "complete")

\* Mutant: the loop is left without noting why.
MutStreamSeesDisconnect(r) == /\ "disconnect" \in Faults
                              /\ LeaveStream(r, "completed")
                              /\ Ends(r, "disconnected")
                              /\ UNCHANGED reply

\* is_disconnected() on an event: the event is dropped and the loop left.
StreamSeesDisconnect(r) == /\ "disconnect" \in Faults
                           /\ LeaveStream(r, "client_disconnected")
                           /\ Ends(r, "disconnected")
                           /\ UNCHANGED reply

StreamFails(r) == /\ "upstream" \in Faults
                  /\ LeaveStream(r, "failed")
                  /\ reply' = Put(reply, r, "error")
                  /\ Ends(r, "error")

\* Closing the three iterators, first in the `finally` of _stream_response.
CloseStream(r) == /\ \/ Go(r, "close", "settle") /\ UNCHANGED hit
                     \/ "close" \in Faults /\ Go(r, "close", "done") /\ Hits(r)
                  /\ UNCHANGED <<traffic, response, slot, ledger, audit, reply, gauge, outcome>>

\* A failed stream gets its whole reservation back.
ReleaseAll(r) == Streams(r) /\ status[r] = "failed"

\* The usage of the request: of the text it was sent, or of vLLM's answer.
UsageOf(r) == IF Streams(r)
              THEN usage_from_stream_text(chunks[r] * ChunkText, Plan(r), status[r])
              ELSE usage_from_response(response[r], Plan(r))

\* finalize_tokens(), once: what was reserved and not used goes back, and what was
\* used beyond the reservation is not charged.  Redis failures are swallowed.
FinalizeTokens(r, actual, all) ==
    tokens' = IF tokens[r].state = "settled" THEN tokens
              ELSE Put(tokens, r, Reservation("settled",
                       IF all THEN 0 ELSE Min({tokens[r].amount, actual})))

\* Mutant: the slot is released before the reservation is settled.
MutSettle(r) ==
    /\ Go(r, "settle", "auditFinal")
    /\ slot' = Put(slot, r, "released")
    /\ FinalizeTokens(r, UsageOf(r).total_tokens, ReleaseAll(r))
    /\ Record(r, UsageOf(r))
    /\ UNCHANGED <<traffic, response, events, audit, reply, gauge, outcome, hit>>

\* finalize_tokens() and _record_usage().
Settle(r) ==
    /\ Go(r, "settle", "auditFinal")
    /\ FinalizeTokens(r, UsageOf(r).total_tokens, ReleaseAll(r))
    /\ Record(r, UsageOf(r))
    /\ UNCHANGED <<traffic, response, slot, events, audit, reply, gauge, outcome, hit>>

\* Mutant: a failing audit write is swallowed and the client answered anyway.
MutFinalizeAudit(r) ==
    /\ Go(r, "auditFinal", "release")
    /\ \/ WriteAudit(r) /\ Emit(r) /\ UNCHANGED hit
       \/ "auditFinal" \in Faults /\ Hits(r) /\ UNCHANGED <<audit, events>>
    /\ reply' = IF Streams(r) THEN reply ELSE Put(reply, r, "ok")
    /\ UNCHANGED <<traffic, response, slot, tokens, usage, gauge, outcome>>

\* Mutant: the event is handed over while the audit row is being written.
MutEmitFirst(r) ==
    /\ \/ /\ Go(r, "auditFinal", "release")
          /\ WriteAudit(r)
          /\ reply' = IF Streams(r) THEN reply ELSE Put(reply, r, "ok")
          /\ UNCHANGED hit
       \/ /\ "auditFinal" \in Faults
          /\ Go(r, "auditFinal", IF Streams(r) THEN "done" ELSE "fail")
          /\ Hits(r)
          /\ UNCHANGED <<audit, reply>>
    /\ Emit(r)
    /\ UNCHANGED <<traffic, response, slot, tokens, usage, gauge, outcome>>

\* audit_service.finalize() and the analytics event.  A failure takes a JSON
\* request to its `except`; in a stream it ends the `finally`.
FinalizeAudit(r) ==
    \/ /\ Go(r, "auditFinal", "release")
       /\ WriteAudit(r)
       /\ Emit(r)
       /\ reply' = IF Streams(r) THEN reply ELSE Put(reply, r, "ok")
       /\ UNCHANGED <<traffic, response, slot, tokens, usage, gauge, outcome, hit>>
    \/ /\ "auditFinal" \in Faults
       /\ Go(r, "auditFinal", IF Streams(r) THEN "done" ELSE "fail")
       /\ Hits(r)
       /\ UNCHANGED <<traffic, response, slot, ledger, audit, reply, gauge, outcome>>

\* The `except` of a JSON request: the failed usage is recorded even when the
\* reservation was settled, and the usage recorded, before.
Fail(r) == /\ Go(r, "fail", "auditFailed")
           /\ FinalizeTokens(r, 0, TRUE)
           /\ Record(r, Used(Plan(r).prompt_tokens, 0, 0, "failed"))
           /\ UNCHANGED <<traffic, response, slot, events, audit, reply, gauge, outcome,
                          hit>>

\* Its audit record and event; the error is raised with or without them.
FinalizeFailedAudit(r) ==
    /\ Go(r, "auditFailed", "release")
    /\ \/ WriteAudit(r) /\ Emit(r) /\ UNCHANGED hit
       \/ "auditFinal" \in Faults /\ Hits(r) /\ UNCHANGED <<audit, events>>
    /\ reply' = Put(reply, r, "error")
    /\ UNCHANGED <<traffic, response, slot, tokens, usage, gauge, outcome>>

\* Mutant: a stream keeps its slot until its object is collected.
MutRelease(r) == /\ Go(r, "release", "done")
                 /\ slot' = Put(slot, r, IF Streams(r) THEN slot[r] ELSE "released")
                 /\ gauge' = IF Streams(r) THEN gauge - 1 ELSE gauge
                 /\ UNCHANGED <<traffic, response, ledger, audit, reply, outcome, hit>>

\* release(), which swallows Redis failures; then a stream leaves the gauge.
Release(r) == /\ Go(r, "release", "done")
              /\ slot' = Put(slot, r, "released")
              /\ gauge' = IF Streams(r) THEN gauge - 1 ELSE gauge
              /\ UNCHANGED <<traffic, response, ledger, audit, reply, outcome, hit>>

\* Redis may have done what an interrupted await of the lease asked for; the session
\* of an interrupted audit write is never committed.
Interrupted(r) ==
    /\ \/ pc[r] = "settle" /\ FinalizeTokens(r, UsageOf(r).total_tokens, ReleaseAll(r))
       \/ pc[r] = "fail" /\ FinalizeTokens(r, 0, TRUE)
       \/ UNCHANGED tokens
    /\ \/ pc[r] = "release" /\ slot' = Put(slot, r, "released")
       \/ UNCHANGED slot

\* A CancelledError passes every `except Exception`.  What follows is the
\* enclosing `finally`: release() for a JSON request, the closing of the stream
\* for a stream, and nothing when the await is itself in a `finally` or before
\* the try.  A stream never begun has no `finally` at all, and a JSON reply is
\* not sent when release() is interrupted.
Cancel(r) ==
    /\ "cancel" \in Faults
    /\ \/ \E p \in {"call", "settle", "auditFinal", "fail", "auditFailed"} :
            ~Streams(r) /\ Go(r, p, "release")
       \/ Go(r, "stream", "close")
       \/ \E p \in {"auth", "admit", "auditStart", "handed", "release"} : Go(r, p, "done")
       \/ \E p \in {"close", "settle", "auditFinal"} : Streams(r) /\ Go(r, p, "done")
    /\ outcome' = IF outcome[r] = "open" THEN Put(outcome, r, "disconnected")
                  ELSE outcome
    /\ reply' = IF Streams(r) THEN reply ELSE Put(reply, r, "none")
    /\ Interrupted(r)
    /\ Hits(r)
    /\ UNCHANGED <<traffic, response, audit, usage, events, gauge>>

Work(r) == \/ Authenticate(r) \/ Admit(r) \/ StartAudit(r) \/ Call(r) \/ CallFails(r)
           \/ BeginStream(r) \/ SendChunk(r) \/ StreamEnds(r)
           \/ StreamSeesDisconnect(r) \/ StreamFails(r) \/ CloseStream(r) \/ Settle(r) \/ FinalizeAudit(r)
           \/ Fail(r) \/ FinalizeFailedAudit(r) \/ Release(r)

Step(r) == Work(r) \/ Cancel(r)

Next == \E r \in Requests : Step(r)

\* The event loop runs every handler to its end.
Spec == Init /\ [][Next]_vars /\ \A r \in Requests : WF_vars(Step(r))

-----------------------------------------------------------------------------
UsageRecords(statuses) == [prompt_tokens : Nat, completion_tokens : Nat,
                           total_tokens : Nat, status : statuses]

\* No reservation, and so no charge, is above the limit of a single request.
TypeOK == /\ pc \in [Requests -> Places]
          /\ \A r \in Requests : body[r] \in Bodies[r]
          /\ response \in [Requests -> Responses \cup {[text |-> 0]}]
          /\ status \in [Requests -> Statuses]
          /\ chunks \in [Requests -> 0 .. MaxChunks]
          /\ slot \in [Requests -> {"none", "held", "released"}]
          /\ tokens \in [Requests -> [state : {"none", "reserved", "settled"},
                                      amount : 0 .. MaxTotalTokens]]
          /\ audit \in [Requests -> UsageRecords(Statuses \cup {"none", "accepted"})]
          /\ usage \in [Requests -> Seq(UsageRecords(Statuses))]
          /\ events \in [Requests -> Seq(UsageRecords(Statuses))]
          /\ reply \in [Requests -> {"none", "ok", "error"}]
          /\ gauge \in Nat
          /\ outcome \in [Requests -> {"open", "complete", "disconnected", "error"}]
          /\ hit \in [Requests -> SUBSET Places]

\* What RequestContract calls the row of a request.
RowOf(r) == IF audit[r].status \in Statuses THEN "final" ELSE audit[r].status

Contract == INSTANCE RequestContract WITH
                charge <- [r \in Requests |-> tokens[r].state],
                row <- [r \in Requests |-> RowOf(r)],
                events <- [r \in Requests |-> Len(events[r])]

\* Whatever fails, and wherever the task is cancelled, slot, charge, audit row and
\* event of each request move as RequestContract has it: in this order, each once,
\* the event together with the final row, and nothing after the slot is free for
\* another request.
ContractKept == Contract!Spec

\* What was used, but never more than what was set aside for it.
ChargeFor(r, used) ==
    Reservation("settled", Min({Plan(r).estimated_total_tokens, used.total_tokens}))

\* A JSON client that got its answer was charged for it, audited as completed,
\* and recorded and reported once, all with the same counts, whatever failed on
\* the way.
AnsweredIsAccounted ==
    \A r \in Requests : ~Streams(r) /\ reply[r] = "ok"
        => LET used == usage_from_response(response[r], Plan(r))
           IN /\ usage[r] = <<used>> /\ events[r] = <<used>> /\ audit[r] = used
              /\ tokens[r] = ChargeFor(r, used)

\* The status and the counts of an audit row are final only together with the
\* one analytics event of the request, which says the same.
EventMatchesAudit ==
    \A r \in Requests : pc[r] = "done" /\ audit[r].status \in Statuses
        => events[r] = <<audit[r]>>

\* Where an error or a cancellation costs a request its slot: outside any try, and in
\* a `finally` before its release(), which a stream comes to last.
Unprotected(r) == {"auditStart", "handed", "release"}
                  \cup (IF Streams(r) THEN {"close", "settle", "auditFinal"} ELSE {})

\* Whatever fails, every admitted request frees its slot unless it was hit where the
\* route does not protect it, and ends with a final row of the one usage recorded
\* unless it was hit on the way there.  The documents exempt nothing: see AlwaysClosed.
AdmittedIsClosed ==
    \A r \in Requests : slot[r] = "held"
        ~> /\ slot[r] = "released" \/ hit[r] \cap Unprotected(r) # {}
           /\ \/ audit[r].status \in Statuses /\ usage[r] = <<audit[r]>>
              \/ hit[r] \ {"stream", "release"} # {}

\* The documents' word: every request that was admitted, whatever its end, has its
\* slot freed and its row finished.
AlwaysClosed ==
    \A r \in Requests :
        slot[r] = "held" ~> slot[r] = "released" /\ audit[r].status \in Statuses

\* Once its row is final a request is charged for the usage recorded first, or for
\* nothing when that failed, whichever of its later steps failed; and the row says
\* "completed" only when the client got everything, but for a stream that was
\* cancelled, see DisconnectsAreNoted.
ClosedAsHappened ==
    \A r \in Requests : audit[r].status \in Statuses
        => /\ tokens[r] = IF usage[r][1].status = "failed" THEN Reservation("settled", 0)
                          ELSE ChargeFor(r, usage[r][1])
           /\ audit[r].status = "completed" /\ "stream" \notin hit[r]
                  => outcome[r] = "complete"

\* The documents' word on a client that leaves its stream: the row does not say
\* "completed".
DisconnectsAreNoted ==
    \A r \in Requests : Streams(r) /\ audit[r].status = "completed"
        => outcome[r] = "complete"
=============================================================================
