------------------------------- MODULE Gateway -------------------------------
(***************************************************************************)
(* The FastAPI process around POST /v1/chat/completions: the lifespan of   *)
(* main.py and core/lifecycle.py, the clients that the routes create on    *)
(* first use and keep in app.state, the error handlers, and the layers     *)
(* that every request passes, from the outside in: Starlette's             *)
(* ServerErrorMiddleware (unhandled_error_handler), MetricsMiddleware,     *)
(* RequestIdMiddleware, ApiKeyAuthMiddleware, Starlette's                  *)
(* ExceptionMiddleware (app_error_handler), the route.  What the route does*)
(* is module ChatCompletion.                                               *)
(*                                                                         *)
(* An exception is "client" or "server", an AppError of a status below 500 *)
(* or of at least 500, or "other".  GatewayFaults names what may go wrong  *)
(* here:                                                                   *)
(*   "sentry"      the SDK raises, or takes no event                       *)
(*   "shutdown"    closing the vLLM client or the engine raises            *)
(***************************************************************************)
EXTENDS ChatCompletion

CONSTANT GatewayFaults

ASSUME GatewayAssumption == GatewayFaults \subseteq {"sentry", "shutdown"}

VARIABLES phase,          \* of the process: "starting", "serving", ..., "stopped"
          sentry_enabled, \* app.state.sentry_enabled
          redis_client,   \* app.state.redis_client: "none", or one of Clients
          open,           \* the clients that are open
          broken,         \* history: closing a client raised
          exc,            \* the exception on its way from the route outwards
          captured,       \* requests with request.state.sentry_exception_captured
          reports,        \* events Sentry was sent for each request
          code,           \* the status of the response made for it
          counted,        \* the statuses MetricsMiddleware recorded for it
          answered,       \* requests whose response went to the client
          failed,         \* history: requests that met an error of the server
          refused         \* history: requests an event of which Sentry refused

process == <<phase, sentry_enabled, redis_client, open, broken>>
reporting == <<captured, reports, refused>>
answering == <<code, counted, answered>>
gateway == <<process, exc, failed, reporting, answering>>
allVars == <<vars, gateway>>

Clients == {"vllm", "postgres", "chatRedis", "batchRedis"}

GatewayInit == /\ Init
               /\ phase = "starting" /\ sentry_enabled = FALSE
               /\ redis_client = "none" /\ open = {} /\ broken = FALSE
               /\ exc = [r \in Requests |-> "none"]
               /\ captured = {} /\ failed = {} /\ refused = {}
               /\ reports = [r \in Requests |-> 0]
               /\ code = [r \in Requests |-> "none"]
               /\ counted = [r \in Requests |-> <<>>]
               /\ answered = {}

-----------------------------------------------------------------------------
\* Sentry.

\* Mutant: the request is not marked.
MutCapture(r, e) ==
    IF r \in captured \/ e = "client" \/ ~sentry_enabled THEN UNCHANGED reporting
    ELSE /\ reports' = Put(reports, r, reports[r] + 1)
         /\ UNCHANGED <<captured, refused>>

\* capture_request_exception(): once for a request, and never for a client's error.
\* An event that Sentry does not take leaves the request unmarked.
Capture(r, e) ==
    IF r \in captured \/ e = "client" \/ ~sentry_enabled THEN UNCHANGED reporting
    ELSE \/ /\ reports' = Put(reports, r, reports[r] + 1)
            /\ captured' = captured \cup {r}
            /\ UNCHANGED refused
         \/ /\ "sentry" \in GatewayFaults
            /\ refused' = refused \cup {r}
            /\ UNCHANGED <<reports, captured>>

-----------------------------------------------------------------------------
\* The route, as the process runs it.

\* The key is missing, unknown, revoked or expired; or Postgres fails.
AuthErrors == {"client", "other"}

\* The route refuses the model or the token plan; then the admission service a limit,
\* or raises because of overload or of Redis.
AdmissionErrors(r) == IF ensure_model_allowed(r) /\ PlanAccepted(body[r])
                      THEN {"client", "server"} ELSE {"client"}

\* Whatever vLLM answers, timeouts and bad statuses are errors of the server.
UpstreamErrors == {"server", "other"}

\* Postgres under the audit service.
AuditErrors == {"other"}

\* What may be raised at each await of the route.
Errors(r) == CASE pc[r] = "auth" -> AuthErrors
               [] pc[r] = "admit" -> AdmissionErrors(r)
               [] pc[r] \in {"auditStart", "auditFinal", "auditFailed"} -> AuditErrors
               [] pc[r] \in {"call", "stream", "close"} -> UpstreamErrors

\* This step ends in the `except` of the route, which reports the error first.
Excepted(r) == \/ pc'[r] = "fail"
               \/ pc[r] = "stream" /\ status'[r] = "failed"

\* It raises; an error inside the `except` takes the place of the one caught.
Raises(r) == \/ Excepted(r)
             \/ pc'[r] = "done" /\ pc[r] # "release"
             \/ pc[r] = "auditFailed" /\ audit' = audit

Raise(r, e) == /\ exc' = Put(exc, r, e)
               /\ failed' = IF e = "client" THEN failed ELSE failed \cup {r}
               /\ IF Excepted(r) THEN Capture(r, e) ELSE UNCHANGED reporting

\* The clients that a request creates if nobody did so before: the engine in the
\* auth middleware and a Redis client for the admission service, whatever
\* app.state.redis_client holds.
Create(r) ==
    \/ /\ pc[r] = "auth"
       /\ open' = open \cup {"postgres"}
       /\ UNCHANGED redis_client
    \/ /\ pc[r] = "admit" /\ ensure_model_allowed(r) /\ PlanAccepted(body[r])
       /\ open' = open \cup {"chatRedis"}
       /\ redis_client' = "chatRedis"

\* There is no engine without a key to look up, and no admission of what the route
\* refuses.
Connect(r) ==
    \/ Create(r)
    \/ /\ pc[r] = "auth" => pc'[r] = "done" /\ exc'[r] = "client"
       /\ pc[r] = "admit" => ~ensure_model_allowed(r) \/ ~PlanAccepted(body[r])
       /\ UNCHANGED <<open, redis_client>>

\* A stream is begun by its response, see StartResponse.
RouteStep(r) == /\ phase = "serving"
                /\ pc[r] = "handed" => code[r] # "none"
                /\ Work(r)
                /\ \/ Raises(r) /\ \E e \in Errors(r) : Raise(r, e)
                   \/ ~Raises(r) /\ UNCHANGED <<exc, failed, reporting>>
                /\ Connect(r)
                /\ UNCHANGED <<phase, sentry_enabled, broken, answering>>

\* CancelledError takes the place of an error that is on its way; the clients are
\* created before the await it interrupts.
RouteCancelled(r) == /\ phase = "serving"
                     /\ Cancel(r)
                     /\ exc' = Put(exc, r, "none")
                     /\ Create(r) \/ UNCHANGED <<open, redis_client>>
                     /\ UNCHANGED <<phase, sentry_enabled, broken, failed, reporting, answering>>

-----------------------------------------------------------------------------
\* The layers around the route.

Returned(r) == phase = "serving" /\ pc[r] = "done"
Respond(r, c) == code[r] = "none" /\ code' = Put(code, r, c)

\* The StreamingResponse is sent its headers before its generator is begun.
StartResponse(r) == /\ phase = "serving" /\ pc[r] = "handed"
                    /\ Respond(r, "200")
                    /\ UNCHANGED <<vars, process, exc, failed, reporting, counted, answered>>

ReturnJson(r) == /\ Returned(r) /\ ~Streams(r) /\ reply[r] = "ok"
                 /\ Respond(r, "200")
                 /\ UNCHANGED <<vars, process, exc, failed, reporting, counted, answered>>

\* app_error_handler(), or the auth middleware, which answers an AppError itself.
HandleAppError(r) == /\ Returned(r) /\ exc[r] \in {"client", "server"}
                     /\ Respond(r, IF exc[r] = "client" THEN "4xx" ELSE "5xx")
                     /\ Capture(r, exc[r])
                     /\ exc' = Put(exc, r, "none")
                     /\ UNCHANGED <<vars, process, failed, counted, answered>>

\* Mutant: what is raised passes the metrics uncounted.
MutPassMetrics(r) == UNCHANGED counted

\* The `except` and `finally` of MetricsMiddleware.
PassMetrics(r) == counted' = Put(counted, r, Append(counted[r], "500"))

\* Another exception passes MetricsMiddleware and ends in
\* unhandled_error_handler(), which answers it.
HandleUnhandled(r) == /\ Returned(r) /\ exc[r] = "other"
                      /\ Respond(r, "500")
                      /\ PassMetrics(r)
                      /\ Capture(r, "other")
                      /\ answered' = answered \cup {r}
                      /\ exc' = Put(exc, r, "none")
                      /\ UNCHANGED <<vars, process, failed>>

\* So does every exception of a stream that has begun its response, an AppError
\* wrapped in Starlette's RuntimeError: nothing more is counted or answered.
HandleLate(r) == /\ Returned(r) /\ exc[r] # "none" /\ r \in answered
                 /\ Capture(r, "other")
                 /\ exc' = Put(exc, r, "none")
                 /\ UNCHANGED <<vars, process, failed, answering>>

\* MetricsMiddleware.dispatch() counts a response before it passes it on.
CountResponse(r) == /\ phase = "serving" /\ code[r] # "none" /\ counted[r] = <<>>
            /\ counted' = Put(counted, r, <<code[r]>>)
            /\ UNCHANGED <<vars, process, exc, failed, reporting, code, answered>>

Deliver(r) == /\ phase = "serving" /\ code[r] # "none" /\ counted[r] # <<>>
              /\ r \notin answered
              /\ answered' = answered \cup {r}
              /\ UNCHANGED <<vars, process, exc, failed, reporting, code, counted>>

\* A request cancelled before it had a response is counted with the default.
PassCancelled(r) == /\ Returned(r) /\ exc[r] = "none" /\ code[r] = "none"
                    /\ counted[r] = <<>> /\ (Streams(r) \/ reply[r] = "none")
                    /\ PassMetrics(r)
                    /\ UNCHANGED <<vars, process, exc, failed, reporting, code, answered>>

-----------------------------------------------------------------------------
\* The process.

\* lifespan() up to its yield: the vLLM client, then startup().
Startup == /\ phase = "starting" /\ phase' = "serving"
           /\ open' = {"vllm"}
           /\ sentry_enabled' \in BOOLEAN
           /\ UNCHANGED <<vars, redis_client, broken, exc, failed, reporting, answering>>

\* Mutant: the client is not kept in app.state.
MutUseBatch == /\ phase = "serving" /\ redis_client = "none"
               /\ open' = open \cup {"postgres", "batchRedis"}
               /\ UNCHANGED <<vars, phase, sentry_enabled, redis_client, broken, exc, failed,
                              reporting, answering>>

\* The first batch request: it takes the engine and the Redis client that are there.
UseBatch == /\ phase = "serving" /\ redis_client = "none"
            /\ redis_client' = "batchRedis"
            /\ open' = open \cup {"postgres", "batchRedis"}
            /\ UNCHANGED <<vars, phase, sentry_enabled, broken, exc, failed, reporting,
                           answering>>

Finished(r) == pc[r] = "done" /\ exc[r] = "none" /\ counted[r] # <<>>
               /\ (code[r] # "none" => r \in answered)

\* The server lets its requests end before it leaves the lifespan's yield.
StopServing == /\ phase = "serving" /\ phase' = "closing"
               /\ \A r \in Requests : pc[r] = "auth" \/ Finished(r)
               /\ UNCHANGED <<vars, sentry_enabled, redis_client, open, broken, exc, failed,
                              reporting, answering>>

\* Awaiting the close of a client ends the lifespan when it raises.
CloseClient(from, client, to) ==
    /\ phase = from
    /\ \/ phase' = to /\ open' = open \ {client} /\ UNCHANGED broken
       \/ /\ "shutdown" \in GatewayFaults /\ client \in open
          /\ phase' = "stopped" /\ broken' = TRUE /\ UNCHANGED open
    /\ UNCHANGED <<vars, sentry_enabled, redis_client, exc, failed, reporting, answering>>

\* shutdown() closes the client that app.state.redis_client holds.
Shutdown == \/ CloseClient("closing", "vllm", "disposing")
            \/ CloseClient("disposing", "postgres", "closingRedis")
            \/ CloseClient("closingRedis", redis_client, "stopped")

RequestStep(r) == \/ RouteStep(r) \/ RouteCancelled(r) \/ StartResponse(r) \/ ReturnJson(r)
                  \/ HandleAppError(r) \/ HandleUnhandled(r) \/ HandleLate(r)
                  \/ CountResponse(r) \/ Deliver(r) \/ PassCancelled(r)

GatewayNext == \/ \E r \in Requests : RequestStep(r)
               \/ Startup \/ UseBatch \/ StopServing \/ Shutdown

\* The event loop runs every request to its end.
GatewaySpec == /\ GatewayInit /\ [][GatewayNext]_allVars
               /\ \A r \in Requests : WF_allVars(RequestStep(r))

-----------------------------------------------------------------------------
\* An error of the server is reported once for its request, however many layers
\* see it and even when its response had begun, unless Sentry refused an event of
\* it; an error of the client is not reported.
ReportedOnce ==
    \A r \in Requests :
        /\ reports[r] <= IF r \in failed THEN 1 ELSE 0
        /\ Finished(r) /\ r \in failed \ refused /\ sentry_enabled => reports[r] = 1

\* Metrics, client and audit agree: every request is counted once, with the status
\* its client is answered, or with 500 when its task was cancelled before; and a
\* JSON request is answered 200 if and only if its row says "completed", whatever
\* failed in its clean-up.
CountedAsAnswered ==
    \A r \in Requests :
        /\ r \in answered => counted[r] = <<code[r]>>
        /\ Finished(r) /\ code[r] = "none" => counted[r] = <<"500">>
        /\ Finished(r) /\ ~Streams(r) /\ r \in answered
              => (code[r] = "200" <=> audit[r].status = "completed")

\* A shutdown in which nothing raises leaves no client open, but for the one of
\* the batch queue when the admission service has put its own in its place.
ShutdownCloses ==
    phase = "stopped" /\ ~broken
        => open \subseteq (IF redis_client = "chatRedis" THEN {"batchRedis"} ELSE {})

GatewayTypeOK ==
    /\ TypeOK
    /\ phase \in {"starting", "serving", "closing", "disposing", "closingRedis", "stopped"}
    /\ sentry_enabled \in BOOLEAN /\ broken \in BOOLEAN
    /\ redis_client \in {"none", "chatRedis", "batchRedis"}
    /\ open \subseteq Clients
    /\ exc \in [Requests -> {"none", "client", "server", "other"}]
    /\ {captured, answered, failed, refused} \subseteq SUBSET Requests
    /\ reports \in [Requests -> Nat]
    /\ code \in [Requests -> {"none", "200", "4xx", "5xx", "500"}]
    /\ counted \in [Requests -> Seq({"200", "4xx", "5xx", "500"})]
=============================================================================
