---------------------------- MODULE Gateway_proofs ----------------------------
(***************************************************************************)
(* Theorems about Gateway and the route it runs, ChatCompletion, for any   *)
(* requests, bodies, answers of vLLM and faults: every request keeps its   *)
(* contract and is accounted for once, each error of the server is reported*)
(* once, metrics agree with what the client is answered, and a shutdown    *)
(* leaves no client open.                                                  *)
(***************************************************************************)
EXTENDS Gateway, FiniteSetTheorems, SequenceTheorems, TLAPS

-----------------------------------------------------------------------------
(* A request on its way through the route.                                 *)

\* Every table of the route has an entry for each request.
Tables == /\ DOMAIN pc = Requests /\ DOMAIN response = Requests /\ DOMAIN status = Requests
          /\ DOMAIN chunks = Requests /\ DOMAIN slot = Requests /\ DOMAIN tokens = Requests
          /\ DOMAIN audit = Requests /\ DOMAIN usage = Requests /\ DOMAIN events = Requests
          /\ DOMAIN reply = Requests /\ DOMAIN outcome = Requests /\ DOMAIN hit = Requests

Reserved(r) == Reservation("reserved", Plan(r).estimated_total_tokens)
Refunded == Reservation("settled", 0)
FailedUse(r) == Used(Plan(r).prompt_tokens, 0, 0, "failed")
Final(r) == audit[r].status \in Statuses

\* The kinds of request have their own part of the route.
OwnRoute(r) ==
    /\ pc[r] \in Places /\ status[r] \in Statuses
    /\ pc[r] \in {"call", "fail", "auditFailed"} => ~Streams(r)
    /\ pc[r] \in {"handed", "stream", "close"} => Streams(r)

\* Nothing is held or recorded of a request that is not admitted.
Unadmitted(r) ==
    pc[r] \in {"auth", "admit"}
        => slot[r] = "none" /\ tokens[r].state = "none"

Unanswered(r) ==
    /\ pc[r] \in {"auth", "admit", "auditStart", "call", "handed", "stream"} => outcome[r] = "open"
    /\ pc[r] \notin {"release", "done"} /\ ~Streams(r) => reply[r] = "none"

\* From its admission to its release a request holds its slot; until it is settled
\* its reservation stands.
Admitted(r) ==
    /\ pc[r] \in {"auditStart", "call", "handed", "stream", "close", "settle", "auditFinal",
                  "fail", "auditFailed", "release"} => slot[r] = "held"
    /\ pc[r] \in {"auditStart", "call", "handed", "stream", "close", "settle"}
           => tokens[r] = Reserved(r) /\ usage[r] = <<>>
    /\ pc[r] \in {"auth", "admit", "auditStart"} => audit[r] = NoUsage("none") /\ usage[r] = <<>>
    /\ pc[r] \in {"call", "handed", "stream", "close", "settle", "auditFinal", "fail",
                  "auditFailed"} => audit[r].status = "accepted"
    /\ pc[r] = "release" => audit[r].status # "none"
    /\ pc[r] \notin {"release", "done"} => events[r] = <<>>

\* What was settled, and what is recorded next.
Settled(r) ==
    /\ pc[r] = "auditFinal"
           => /\ usage[r] = <<UsageOf(r)>>
              /\ tokens[r] = IF ReleaseAll(r) THEN Refunded ELSE ChargeFor(r, UsageOf(r))
    /\ pc[r] = "fail"
           => \/ usage[r] = <<>> /\ tokens[r] = Reserved(r)
              \/ usage[r] = <<UsageOf(r)>> /\ tokens[r] = ChargeFor(r, UsageOf(r))
    /\ pc[r] = "auditFailed"
           => \/ usage[r] = <<FailedUse(r)>> /\ tokens[r] = Refunded
              \/ usage[r] = <<UsageOf(r), FailedUse(r)>> /\ tokens[r] = ChargeFor(r, UsageOf(r))

\* How the generation ended, as the status of the route has it.
Ended(r) ==
    /\ pc[r] \in {"close", "settle", "auditFinal"} /\ "stream" \notin hit[r]
       /\ (Streams(r) => status[r] = "completed") => outcome[r] = "complete"

\* What a request is charged, from the usage recorded first.
FirstCharge(r) == IF usage[r][1].status = "failed" THEN Refunded
                  ELSE ChargeFor(r, usage[r][1])

\* A row that is final.
Closed(r) ==
    pc[r] \in {"release", "done"}
        => /\ Final(r) => events[r] = <<audit[r]>> /\ tokens[r].state = "settled"
           /\ ~Streams(r) /\ reply[r] = "ok"
                  => /\ usage[r] = <<UsageOf(r)>> /\ audit[r] = UsageOf(r)
                     /\ tokens[r] = ChargeFor(r, UsageOf(r)) /\ events[r] = <<audit[r]>>
           /\ Final(r) => tokens[r] = FirstCharge(r)
           /\ audit[r].status = "completed" /\ "stream" \notin hit[r]
                  => outcome[r] = "complete"

Course(r) == /\ OwnRoute(r) /\ Unadmitted(r) /\ Unanswered(r) /\ Admitted(r)
             /\ Settled(r) /\ Ended(r) /\ Closed(r)

ChatInv == Tables /\ \A r \in Requests : Course(r)

\* The usage of a stream has its status, that of an answer is "completed".
LEMMA UsageStatus == ASSUME NEW r
                     PROVE  UsageOf(r).status = IF Streams(r) THEN status[r] ELSE "completed"
BY DEF UsageOf, usage_from_stream_text, usage_from_response, Used

\* The first two entries of a list.
LEMMA AppendOne == ASSUME NEW u, NEW v
                   PROVE  Append(<<>>, u) = <<u>> /\ Append(<<u>>, v) = <<u, v>>
<1> DEFINE S == {u, v}
<1>1. Append(<<>>, u) = <<u>>
  OBVIOUS
<1>2. <<u>> \in Seq(S) /\ <<u, v>> \in Seq(S)
  OBVIOUS
<1>3. Append(<<u>>, v) = <<u, v>>
  <2> DEFINE t == Append(<<u>>, v)
  <2>1. /\ t \in Seq(S) /\ Len(t) = Len(<<u>>) + 1
        /\ \A i \in 1 .. Len(<<u>>) : t[i] = <<u>>[i]
        /\ t[Len(<<u>>) + 1] = v
    BY <1>2, AppendProperties
  <2>2. Len(<<u>>) = 1 /\ <<u>>[1] = u /\ Len(<<u, v>>) = 2 /\ <<u, v>>[1] = u /\ <<u, v>>[2] = v
    OBVIOUS
  <2>3. Len(t) = 2 /\ t[1] = u /\ t[2] = v
    BY <2>1, <2>2
  <2> HIDE DEF t
  <2>4. \A i \in 1 .. 2 : t[i] = <<u, v>>[i]
    BY <2>2, <2>3
  <2>5. t = <<u, v>>
    BY <1>2, <2>1, <2>2, <2>3, <2>4, SeqEqual
  <2> QED
    BY <2>5 DEF t
<1> QED
  BY <1>1, <1>3

\* The last entry of such a list.
LEMMA LastEntry == ASSUME NEW u, NEW v PROVE Last(<<v>>) = v /\ Last(<<u, v>>) = v
BY DEF Last

\* The last entry of a list of no more than two.
LEMMA LastOf == ASSUME NEW u, NEW v, NEW s \in {<<u>>, <<v>>, <<u, v>>} PROVE Last(s) \in {u, v}
<1>1. CASE s = <<u>>
  BY <1>1, LastEntry
<1>2. CASE s = <<v>>
  BY <1>2, LastEntry
<1>3. CASE s = <<u, v>>
  BY <1>3, LastEntry
<1> QED
  BY <1>1, <1>2, <1>3

\* A charge is settled.
LEMMA Charged == ASSUME NEW r, NEW used
                 PROVE  ChargeFor(r, used).state = "settled" /\ Refunded.state = "settled"
                        /\ Reserved(r).state = "reserved"
                        /\ Reserved(r).amount = Plan(r).estimated_total_tokens
BY DEF ChargeFor, Refunded, Reserved, Reservation

\* A reservation that stands is not settled.
LEMMA Reserving == ASSUME NEW r PROVE Reserved(r).state = "reserved"
BY DEF Reserved, Reservation

\* Initially no request has come any way.
LEMMA InitChat == ASSUME Init PROVE ChatInv
<1>1. Tables
  BY DEF Init, Tables
<1>2. ASSUME NEW r \in Requests PROVE Course(r)
  BY <1>1 DEF Init, Course, OwnRoute, Unadmitted, Unanswered, Admitted, Settled, Ended, Closed,
              Places, Statuses, NoUsage, Reservation
<1> QED
  BY <1>1, <1>2 DEF ChatInv

\* Only its own steps move a request.
LEMMA OthersStay ==
    ASSUME Tables, NEW r \in Requests, Step(r)
    PROVE  /\ Tables' /\ UNCHANGED body
           /\ \A q \in Requests : q # r =>
                /\ pc'[q] = pc[q] /\ response'[q] = response[q] /\ status'[q] = status[q]
                /\ chunks'[q] = chunks[q] /\ slot'[q] = slot[q] /\ tokens'[q] = tokens[q]
                /\ audit'[q] = audit[q] /\ usage'[q] = usage[q] /\ events'[q] = events[q]
                /\ reply'[q] = reply[q] /\ outcome'[q] = outcome[q]
                /\ hit'[q] = hit[q]
<1> USE DEF Tables, Go, Put, Ends, Hits, ledger, traffic, Record, Emit, WriteAudit, Refuse,
            FinalizeTokens, LeaveStream
<1>1. CASE Authenticate(r) \/ Admit(r) \/ StartAudit(r)
  BY <1>1 DEF Authenticate, Admit, StartAudit
<1>2. CASE Call(r) \/ CallFails(r)
  BY <1>2 DEF Call, CallFails
<1>3. CASE BeginStream(r) \/ SendChunk(r) \/ CloseStream(r)
  BY <1>3 DEF BeginStream, SendChunk, CloseStream
<1>4. CASE StreamEnds(r) \/ StreamSeesDisconnect(r) \/ StreamFails(r)
  BY <1>4 DEF StreamEnds, StreamSeesDisconnect, StreamFails
<1>5. CASE Settle(r) \/ Fail(r)
  BY <1>5 DEF Settle, Fail
<1>6. CASE FinalizeAudit(r)
  BY <1>6 DEF FinalizeAudit
<1>7. CASE FinalizeFailedAudit(r)
  BY <1>7 DEF FinalizeFailedAudit
<1>8. CASE Release(r)
  BY <1>8 DEF Release
<1>9. CASE Cancel(r)
  <2>1. /\ UNCHANGED <<body, response, status, chunks, audit, usage, events>>
        /\ slot' = slot \/ slot' = Put(slot, r, "released")
        /\ tokens' = tokens \/ \E v : tokens' = Put(tokens, r, v)
    BY <1>9 DEF Cancel, Interrupted
  <2>2. /\ \E p : pc' = Put(pc, r, p)
        /\ \E o : outcome' = Put(outcome, r, o) \/ outcome' = outcome
        /\ \E a : reply' = Put(reply, r, a) \/ reply' = reply
        /\ hit' = Put(hit, r, hit[r] \cup {pc[r]})
    BY <1>9 DEF Cancel
  <2> QED
    BY <2>1, <2>2
<1> QED
  BY <1>1, <1>2, <1>3, <1>4, <1>5, <1>6, <1>7, <1>8, <1>9 DEF Step, Work

\* So the course of every other request is what it was.
LEMMA OthersKeepCourse ==
    ASSUME ChatInv, NEW r \in Requests, Step(r), NEW q \in Requests, q # r
    PROVE  Course(q)'
<1>1. /\ UNCHANGED body
      /\ pc'[q] = pc[q] /\ response'[q] = response[q] /\ status'[q] = status[q]
      /\ chunks'[q] = chunks[q] /\ slot'[q] = slot[q] /\ tokens'[q] = tokens[q]
      /\ audit'[q] = audit[q] /\ usage'[q] = usage[q] /\ events'[q] = events[q]
      /\ reply'[q] = reply[q] /\ outcome'[q] = outcome[q]
      /\ hit'[q] = hit[q]
  BY OthersStay DEF ChatInv
<1>2. Course(q)
  BY DEF ChatInv
<1>3. /\ Streams(q)' = Streams(q) /\ Plan(q)' = Plan(q) /\ UsageOf(q)' = UsageOf(q)
      /\ ReleaseAll(q)' = ReleaseAll(q) /\ Reserved(q)' = Reserved(q) /\ FailedUse(q)' = FailedUse(q)
      /\ Final(q)' = Final(q) /\ Refunded' = Refunded
  BY <1>1 DEF Streams, Plan, UsageOf, ReleaseAll, Reserved, FailedUse, Final, Refunded
<1>4. \A used : ChargeFor(q, used)' = ChargeFor(q, used)
  BY <1>3 DEF ChargeFor
<1>5. OwnRoute(q)' /\ Unadmitted(q)' /\ Unanswered(q)' /\ Ended(q)'
  BY <1>1, <1>2, <1>3 DEF Course, OwnRoute, Unadmitted, Unanswered, Ended
<1>6. Admitted(q)'
  BY <1>1, <1>2, <1>3 DEF Course, Admitted
<1>7. Settled(q)'
  BY <1>1, <1>2, <1>3 DEF Course, Settled, ChargeFor
<1>8. Closed(q)'
  BY <1>1, <1>2, <1>3 DEF Course, Closed, FirstCharge, ChargeFor
<1> QED
  BY <1>5, <1>6, <1>7, <1>8 DEF Course

\* Up to the call of vLLM a request is only admitted and given a row.
LEMMA EntryKeepsCourse ==
    ASSUME ChatInv, NEW r \in Requests, Authenticate(r) \/ Admit(r) \/ StartAudit(r)
    PROVE  Course(r)'
<1> USE DEF ChatInv, Tables, Course, OwnRoute, Unadmitted, Unanswered, Admitted, Settled, Ended,
            Closed, Final, Go, Put, Ends, Hits, Refuse, traffic, ledger, Places, Statuses, NoUsage,
            Used
<1>1. Streams(r)' = Streams(r) /\ Plan(r)' = Plan(r)
  BY DEF Authenticate, Admit, StartAudit, Streams, Plan
<1>2. CASE Authenticate(r)
  BY <1>1, <1>2 DEF Authenticate
<1>3. CASE Admit(r)
  BY <1>1, <1>3 DEF Admit, Reserved, Reservation
<1>4. CASE StartAudit(r)
  BY <1>1, <1>4 DEF StartAudit, Reserved
<1> QED
  BY <1>2, <1>3, <1>4

\* While it is generated nothing of it is settled.
LEMMA GenerationKeepsCourse ==
    ASSUME ChatInv, NEW r \in Requests,
           \/ Call(r) \/ CallFails(r) \/ BeginStream(r) \/ SendChunk(r) \/ StreamEnds(r)
           \/ StreamSeesDisconnect(r) \/ StreamFails(r) \/ CloseStream(r)
    PROVE  Course(r)'
<1> USE DEF ChatInv, Tables, Course, OwnRoute, Unadmitted, Unanswered, Admitted, Settled, Ended,
            Closed, Final, Go, Put, Ends, Hits, LeaveStream, traffic, ledger, Places, Statuses
<1>1. Streams(r)' = Streams(r) /\ Reserved(r)' = Reserved(r)
  BY DEF Call, CallFails, BeginStream, SendChunk, StreamEnds, StreamSeesDisconnect, StreamFails,
         CloseStream, Streams, Reserved, Plan
<1>2. CASE Call(r)
  BY <1>1, <1>2 DEF Call
<1>3. CASE CallFails(r)
  BY <1>1, <1>3 DEF CallFails
<1>4. CASE BeginStream(r)
  BY <1>1, <1>4 DEF BeginStream
<1>5. CASE SendChunk(r)
  BY <1>1, <1>5 DEF SendChunk
<1>6. CASE StreamEnds(r) \/ StreamSeesDisconnect(r) \/ StreamFails(r)
  BY <1>1, <1>6 DEF StreamEnds, StreamSeesDisconnect, StreamFails
<1>7. CASE CloseStream(r)
  BY <1>1, <1>7 DEF CloseStream
<1> QED
  BY <1>2, <1>3, <1>4, <1>5, <1>6, <1>7

\* The reservation is settled once, and the usage recorded with it.
LEMMA SettleKeepsCourse == ASSUME ChatInv, NEW r \in Requests, Settle(r)
                           PROVE  Course(r)'
<1>1. /\ Streams(r)' = Streams(r) /\ Plan(r)' = Plan(r) /\ UsageOf(r)' = UsageOf(r)
      /\ ReleaseAll(r)' = ReleaseAll(r) /\ Refunded' = Refunded
  BY DEF Settle, traffic, Streams, Plan, UsageOf, ReleaseAll, Refunded
<1>2. pc[r] = "settle" /\ usage[r] = <<>> /\ tokens[r] = Reserved(r)
  BY DEF Settle, Go, ChatInv, Course, Admitted
<1>3. tokens'[r] = IF ReleaseAll(r) THEN Refunded ELSE ChargeFor(r, UsageOf(r))
  BY <1>2, Charged
     DEF Settle, FinalizeTokens, Put, ChatInv, Tables, ChargeFor, Refunded
<1>4. usage'[r] = <<UsageOf(r)>>
  BY <1>2 DEF Settle, Record, Put, ChatInv, Tables
<1>5. ChargeFor(r, UsageOf(r))' = ChargeFor(r, UsageOf(r))
  BY <1>1 DEF ChargeFor
<1> QED
  BY <1>1, <1>2, <1>3, <1>4, <1>5
     DEF Settle, ChatInv, Tables, Course, OwnRoute, Unadmitted, Unanswered, Admitted, Settled,
         Ended, Closed, Final, Go, traffic, Places, Statuses

\* The `except` settles what is not settled yet, and records the failure.
LEMMA FailKeepsCourse == ASSUME ChatInv, NEW r \in Requests, Fail(r)
                         PROVE  Course(r)'
<1>1. /\ Streams(r)' = Streams(r) /\ FailedUse(r)' = FailedUse(r) /\ UsageOf(r)' = UsageOf(r)
      /\ Refunded' = Refunded /\ ChargeFor(r, UsageOf(r))' = ChargeFor(r, UsageOf(r))
  BY DEF Fail, traffic, Streams, FailedUse, Plan, UsageOf, Refunded, ChargeFor
<1>2. pc[r] = "fail" /\ Course(r)
  BY DEF Fail, Go, ChatInv
<1>3. usage'[r] = Append(usage[r], FailedUse(r))
  BY DEF Fail, Record, Put, ChatInv, Tables, FailedUse
<1>4. \/ usage'[r] = <<FailedUse(r)>> /\ tokens'[r] = Refunded
      \/ usage'[r] = <<UsageOf(r), FailedUse(r)>> /\ tokens'[r] = ChargeFor(r, UsageOf(r))
  <2>1. CASE usage[r] = <<>> /\ tokens[r] = Reserved(r)
    <3>1. tokens'[r] = Refunded
      BY <2>1, Charged DEF Fail, FinalizeTokens, Put, ChatInv, Tables, Refunded
    <3> QED
      BY <1>3, <2>1, <3>1, AppendOne
  <2>2. CASE usage[r] = <<UsageOf(r)>> /\ tokens[r] = ChargeFor(r, UsageOf(r))
    <3>1. tokens' = tokens
      BY <2>2, Charged DEF Fail, FinalizeTokens
    <3> QED
      BY <1>3, <2>2, <3>1, AppendOne
  <2> QED
    BY <1>2, <2>1, <2>2 DEF Course, Settled
<1> QED
  BY <1>1, <1>2, <1>3, <1>4
     DEF Fail, ChatInv, Tables, Course, OwnRoute, Unadmitted, Unanswered, Admitted, Settled,
         Ended, Closed, Final, Go, traffic, Places, Statuses

\* The row of an answer, and its event, say what was recorded.
LEMMA FinalizeKeepsCourse == ASSUME ChatInv, NEW r \in Requests, FinalizeAudit(r)
                             PROVE  Course(r)'
<1>1. /\ Streams(r)' = Streams(r) /\ Plan(r)' = Plan(r) /\ UsageOf(r)' = UsageOf(r)
      /\ ReleaseAll(r)' = ReleaseAll(r) /\ Refunded' = Refunded
  BY DEF FinalizeAudit, traffic, Streams, Plan, UsageOf, ReleaseAll, Refunded
<1>2. ChargeFor(r, UsageOf(r))' = ChargeFor(r, UsageOf(r))
  BY <1>1 DEF ChargeFor
<1>3. /\ pc[r] = "auditFinal" /\ Course(r) /\ usage[r] = <<UsageOf(r)>> /\ events[r] = <<>>
      /\ tokens[r] = IF ReleaseAll(r) THEN Refunded ELSE ChargeFor(r, UsageOf(r))
  BY DEF FinalizeAudit, Go, ChatInv, Course, Settled, Admitted
<1>4. CASE pc'[r] = "release"
  <2>1. /\ audit'[r] = UsageOf(r) /\ events'[r] = <<UsageOf(r)>>
        /\ UNCHANGED <<usage, tokens, hit, outcome, slot, status>>
    BY <1>3, <1>4 DEF FinalizeAudit, Go, Put, WriteAudit, Emit, Last, ChatInv, Tables, traffic
  <2>2. ReleaseAll(r) <=> UsageOf(r).status = "failed"
    BY <1>3, UsageStatus DEF ReleaseAll
  <2>3. UsageOf(r).status \in Statuses
    BY <1>3, UsageStatus DEF Course, OwnRoute, Statuses
  <2>4. OwnRoute(r)' /\ Unadmitted(r)' /\ Unanswered(r)' /\ Settled(r)' /\ Ended(r)'
    BY <1>1, <1>3, <1>4, <2>1 DEF Course, OwnRoute, Unadmitted, Unanswered, Settled, Ended, Places
  <2>5. Admitted(r)'
    BY <1>3, <1>4, <2>1, <2>3 DEF Course, Admitted, Statuses
  <2>6. tokens'[r].state = "settled"
    BY <1>3, <2>1, Charged
  <2>7. "stream" \notin hit[r] /\ UsageOf(r).status = "completed" => outcome[r] = "complete"
    BY <1>3, UsageStatus DEF Course, Ended
  <2>8. ~Streams(r) => ~ReleaseAll(r)
    BY DEF ReleaseAll
  <2>10. FirstCharge(r)' = tokens'[r]
    <3>1. usage'[r][1] = UsageOf(r)
      BY <1>3, <2>1
    <3>2. ChargeFor(r, usage[r][1])' = ChargeFor(r, UsageOf(r))
      BY <1>1, <3>1 DEF ChargeFor
    <3> QED
      BY <1>1, <1>3, <2>1, <2>2, <3>1, <3>2 DEF FirstCharge
  <2>9. Closed(r)'
    BY <1>1, <1>2, <1>3, <1>4, <2>1, <2>2, <2>3, <2>6, <2>7, <2>8, <2>10 DEF Closed
  <2> QED
    BY <2>4, <2>5, <2>9 DEF Course
<1>5. CASE pc'[r] # "release"
  <2>1. /\ pc'[r] = IF Streams(r) THEN "done" ELSE "fail"
        /\ UNCHANGED <<usage, tokens, audit, events, outcome, slot, status, reply>>
    BY <1>3, <1>5 DEF FinalizeAudit, Go, Put, Hits, ChatInv, Tables, traffic, ledger
  <2>2. ~Streams(r) => tokens[r] = ChargeFor(r, UsageOf(r))
    BY <1>3 DEF ReleaseAll
  <2> QED
    BY <1>1, <1>2, <1>3, <2>1, <2>2
       DEF Course, OwnRoute, Unadmitted, Unanswered, Admitted, Settled, Ended, Closed, Final,
           Places, Statuses
<1> QED
  BY <1>4, <1>5

\* The row of a failure, and its event, say that it failed.
LEMMA FailedKeepsCourse == ASSUME ChatInv, NEW r \in Requests, FinalizeFailedAudit(r)
                           PROVE  Course(r)'
<1>1. /\ Streams(r)' = Streams(r) /\ Refunded' = Refunded
      /\ \A used : ChargeFor(r, used)' = ChargeFor(r, used)
  BY DEF FinalizeFailedAudit, traffic, Streams, Refunded, ChargeFor, Plan
<1>2. /\ pc[r] = "auditFailed" /\ Course(r) /\ events[r] = <<>> /\ ~Streams(r)
      /\ \/ usage[r] = <<FailedUse(r)>> /\ tokens[r] = Refunded
         \/ usage[r] = <<UsageOf(r), FailedUse(r)>> /\ tokens[r] = ChargeFor(r, UsageOf(r))
      /\ pc'[r] = "release" /\ reply'[r] = "error"
      /\ UNCHANGED <<usage, tokens, outcome, slot, status>>
  BY DEF FinalizeFailedAudit, Go, Put, ChatInv, Course, Settled, Admitted, OwnRoute, Tables, traffic
<1>3. \/ audit'[r] = FailedUse(r) /\ events'[r] = <<FailedUse(r)>>
      \/ UNCHANGED <<audit, events>>
  <2>1. Last(usage[r]) = FailedUse(r)
    BY <1>2, LastEntry
  <2>2. \/ audit' = Put(audit, r, Last(usage[r]))
           /\ events' = Put(events, r, Append(events[r], Last(usage[r])))
        \/ UNCHANGED <<audit, events>>
    BY DEF FinalizeFailedAudit, WriteAudit, Emit
  <2>3. Append(events[r], FailedUse(r)) = <<FailedUse(r)>>
    BY <1>2, AppendOne
  <2> QED
    BY <2>1, <2>2, <2>3 DEF Put, ChatInv, Tables
<1>4. FailedUse(r).status = "failed" /\ (~Streams(r) => UsageOf(r).status = "completed")
  BY UsageStatus DEF FailedUse, Used
<1>5. tokens[r].state = "settled" /\ tokens[r] = FirstCharge(r)'
  BY <1>1, <1>2, <1>4, Charged DEF FirstCharge
<1> QED
  BY <1>1, <1>2, <1>3, <1>4, <1>5
     DEF Course, OwnRoute, Unadmitted, Unanswered, Admitted, Settled, Ended, Closed, Final,
         Places, Statuses

\* With the slot a request leaves its ledgers as they are, cancelled or not.
LEMMA ReleaseKeepsCourse == ASSUME ChatInv, NEW r \in Requests, Release(r)
                            PROVE  Course(r)'
<1>1. /\ Streams(r)' = Streams(r) /\ Plan(r)' = Plan(r) /\ UsageOf(r)' = UsageOf(r)
      /\ Refunded' = Refunded
  BY DEF Release, traffic, Streams, Plan, UsageOf, Refunded
<1>2. /\ pc[r] = "release" /\ pc'[r] = "done" /\ Course(r)
      /\ UNCHANGED <<status, tokens, usage, audit, events, reply, outcome, hit>>
  BY DEF Release, ChatInv, Tables, Go, traffic, ledger
<1>3. /\ (Statuses)' = Statuses /\ Final(r)' = Final(r)
      /\ ChargeFor(r, audit[r])' = ChargeFor(r, audit[r])
      /\ ChargeFor(r, UsageOf(r))' = ChargeFor(r, UsageOf(r))
  BY <1>1, <1>2 DEF Final, ChargeFor, Statuses
<1>6. FirstCharge(r)' = FirstCharge(r)
  BY <1>1, <1>2 DEF FirstCharge, ChargeFor
<1>4. Closed(r)' /\ Ended(r)' /\ Settled(r)'
  BY <1>1, <1>2, <1>3, <1>6 DEF Course, Closed, Ended, Settled
<1>5. OwnRoute(r)' /\ Unadmitted(r)' /\ Unanswered(r)' /\ Admitted(r)'
  BY <1>1, <1>2 DEF Course, OwnRoute, Unadmitted, Unanswered, Admitted, Places, Statuses
<1> QED
  BY <1>4, <1>5 DEF Course

\* A cancelled request goes to its clean-up, or ends there and then.
LEMMA CancelKeepsCourse == ASSUME ChatInv, NEW r \in Requests, Cancel(r)
                           PROVE  Course(r)'
<1>1. /\ Streams(r)' = Streams(r) /\ Plan(r)' = Plan(r) /\ UsageOf(r)' = UsageOf(r)
      /\ Refunded' = Refunded /\ Reserved(r)' = Reserved(r)
  BY DEF Cancel, traffic, Streams, Plan, UsageOf, Refunded, Reserved
<1>2. /\ \/ pc'[r] = "release" /\ pc[r] \in {"call", "settle", "auditFinal", "fail", "auditFailed"}
            /\ ~Streams(r)
         \/ pc'[r] = "close" /\ pc[r] = "stream"
         \/ pc'[r] = "done" /\ pc[r] \in {"auth", "admit", "auditStart", "handed", "release", "close",
                                          "settle", "auditFinal"}
      /\ UNCHANGED <<status, usage, events, audit>>
      /\ pc[r] \notin {"settle", "fail"} => tokens' = tokens
      /\ pc[r] # "release" => slot' = slot
      /\ hit'[r] = hit[r] \cup {pc[r]}
      /\ outcome[r] # "open" => outcome'[r] = outcome[r]
      /\ reply'[r] = IF Streams(r) THEN reply[r] ELSE "none"
  <2>1. /\ UNCHANGED <<status, usage, events, audit>>
        /\ pc[r] \notin {"settle", "fail"} => tokens' = tokens
        /\ pc[r] # "release" => slot' = slot
    BY DEF Cancel, Interrupted, traffic
  <2>2. /\ hit'[r] = hit[r] \cup {pc[r]}
        /\ outcome[r] # "open" => outcome'[r] = outcome[r]
        /\ reply'[r] = IF Streams(r) THEN reply[r] ELSE "none"
    BY DEF Cancel, Put, Hits, ChatInv, Tables
  <2>3. \/ pc'[r] = "release" /\ pc[r] \in {"call", "settle", "auditFinal", "fail", "auditFailed"}
            /\ ~Streams(r)
        \/ pc'[r] = "close" /\ pc[r] = "stream"
        \/ pc'[r] = "done" /\ pc[r] \in {"auth", "admit", "auditStart", "handed", "release",
                                         "close", "settle", "auditFinal"}
    BY DEF Cancel, Go, ChatInv, Tables
  <2> QED
    BY <2>1, <2>2, <2>3
<1>3. Course(r)
  BY DEF ChatInv
<1>4. OwnRoute(r)' /\ Unadmitted(r)' /\ Unanswered(r)' /\ Admitted(r)'
  <2>1. OwnRoute(r)'
    BY <1>1, <1>2, <1>3 DEF Course, OwnRoute, Places
  <2>2. Unadmitted(r)' /\ Unanswered(r)'
    BY <1>1, <1>2, <1>3 DEF Course, OwnRoute, Unadmitted, Unanswered
  <2>3. Admitted(r)'
    BY <1>1, <1>2, <1>3 DEF Course, Admitted
  <2> QED
    BY <2>1, <2>2, <2>3
<1>5. Settled(r)' /\ Ended(r)'
  BY <1>1, <1>2, <1>3 DEF Course, Settled, Ended
<1>6. Closed(r)'
  <2>1. CASE pc[r] = "release"
    <3>1. FirstCharge(r)' = FirstCharge(r)
      BY <1>1, <1>2 DEF FirstCharge, ChargeFor
    <3>2. audit[r].status = "completed" => Final(r)
      BY DEF Final, Statuses
    <3> QED
      BY <1>1, <1>2, <1>3, <2>1, <3>1, <3>2 DEF Course, Closed, Final, Statuses, Unanswered
  <2>2. CASE pc[r] # "release"
    <3>1. audit[r].status \notin Statuses
      BY <1>2, <1>3, <2>2 DEF Course, OwnRoute, Admitted, Statuses, NoUsage, Used
    <3>2. pc'[r] \in {"release", "done"} /\ ~Streams(r) => reply'[r] = "none"
      BY <1>2
    <3> QED
      BY <1>1, <1>2, <3>1, <3>2 DEF Closed, Final, Statuses
  <2> QED
    BY <2>1, <2>2
<1> QED
  BY <1>4, <1>5, <1>6 DEF Course

\* Every step of a request keeps the course of all.
LEMMA StepKeepsChat == ASSUME ChatInv, NEW r \in Requests, Step(r) PROVE ChatInv'
<1>1. Course(r)'
  BY EntryKeepsCourse, GenerationKeepsCourse, SettleKeepsCourse, FailKeepsCourse,
     FinalizeKeepsCourse, FailedKeepsCourse, ReleaseKeepsCourse, CancelKeepsCourse
     DEF Step, Work
<1> QED
  BY <1>1, OthersStay, OthersKeepCourse DEF ChatInv

\* So does every step of the gateway.
LEMMA VarsKeepChat == ASSUME ChatInv, UNCHANGED vars PROVE ChatInv'
<1>1. Tables'
  BY DEF ChatInv, Tables, vars
<1>2. ASSUME NEW q \in Requests PROVE Course(q)'
  <2>1. Course(q)
    BY DEF ChatInv
  <2>2. /\ Streams(q)' = Streams(q) /\ Plan(q)' = Plan(q) /\ UsageOf(q)' = UsageOf(q)
        /\ ReleaseAll(q)' = ReleaseAll(q) /\ Reserved(q)' = Reserved(q)
        /\ FailedUse(q)' = FailedUse(q) /\ Refunded' = Refunded
    BY DEF Streams, Plan, UsageOf, ReleaseAll, Reserved, FailedUse, Refunded, vars
  <2> QED
    BY <2>1, <2>2 DEF Course, OwnRoute, Unadmitted, Unanswered, Admitted, Settled, Ended, Closed, FirstCharge,
                      Final, ChargeFor, vars
<1> QED
  BY <1>1, <1>2 DEF ChatInv

-----------------------------------------------------------------------------
(* What the gateway does to its requests.                                  *)

\* A step of the gateway is one of a request on its route, or leaves them alone.
LEMMA GatewayMoves ==
    ASSUME [GatewayNext]_allVars
    PROVE  UNCHANGED vars \/ \E r \in Requests : Step(r)
<1>1. ASSUME NEW r \in Requests, RequestStep(r) PROVE UNCHANGED vars \/ Step(r)
  BY <1>1 DEF RequestStep, RouteStep, RouteCancelled, StartResponse, ReturnJson, HandleAppError,
              HandleUnhandled, HandleLate, CountResponse, Deliver, PassCancelled, Step
<1>2. ASSUME Startup \/ UseBatch \/ StopServing \/ Shutdown PROVE UNCHANGED vars
  BY <1>2 DEF Startup, UseBatch, StopServing, Shutdown, CloseClient
<1> QED
  BY <1>1, <1>2 DEF GatewayNext, allVars

\* The gateway keeps every request on its course.
LEMMA ChatIsInvariant == GatewaySpec => []ChatInv
<1>1. GatewayInit => ChatInv
  BY InitChat DEF GatewayInit
<1>2. ChatInv /\ [GatewayNext]_allVars => ChatInv'
  BY GatewayMoves, StepKeepsChat, VarsKeepChat
<1> QED
  BY <1>1, <1>2, PTL DEF GatewaySpec

\* A JSON client that got its answer was charged for it, audited, recorded and
\* reported once, whatever failed on the way.
THEOREM AnswersAccounted == GatewaySpec => []AnsweredIsAccounted
<1>1. ChatInv => AnsweredIsAccounted
  <2> SUFFICES ASSUME ChatInv, NEW r \in Requests, ~Streams(r), reply[r] = "ok"
               PROVE  /\ usage[r] = <<UsageOf(r)>> /\ events[r] = <<UsageOf(r)>>
                      /\ audit[r] = UsageOf(r) /\ tokens[r] = ChargeFor(r, UsageOf(r))
    BY DEF AnsweredIsAccounted, UsageOf
  <2>1. pc[r] \in {"release", "done"}
    BY DEF ChatInv, Course, Unanswered
  <2> QED
    BY <2>1 DEF ChatInv, Course, Closed
<1> QED
  BY <1>1, ChatIsInvariant, PTL

\* A row becomes final only together with the one event, which says the same.
THEOREM EventsMatch == GatewaySpec => []EventMatchesAudit
<1>1. ChatInv => EventMatchesAudit
  BY DEF ChatInv, Course, Closed, Final, EventMatchesAudit
<1> QED
  BY <1>1, ChatIsInvariant, PTL

\* Once its row is final a request is charged for the usage recorded first, whichever
\* of its later steps failed, and its row says "completed" only when the client got
\* everything, but for a stream that was cancelled.
THEOREM ClosesAsHappened == GatewaySpec => []ClosedAsHappened
<1>1. ChatInv => ClosedAsHappened
  <2> SUFFICES ASSUME ChatInv, NEW r \in Requests, Final(r)
               PROVE  /\ tokens[r] = FirstCharge(r)
                      /\ audit[r].status = "completed" /\ "stream" \notin hit[r]
                             => outcome[r] = "complete"
    BY DEF ClosedAsHappened, Final, Refunded, FirstCharge
  <2>1. pc[r] \in {"release", "done"}
    BY DEF ChatInv, Course, OwnRoute, Admitted, Final, Places, Statuses, NoUsage, Used,
           Unadmitted
  <2> QED
    BY <2>1 DEF ChatInv, Course, Closed
<1> QED
  BY <1>1, ChatIsInvariant, PTL

-----------------------------------------------------------------------------
(* The contract of a request.                                              *)

\* What RequestContract sees of the charges, the rows and the events.
Charges == [r \in Requests |-> tokens[r].state]
Rows == [r \in Requests |-> RowOf(r)]
Counts == [r \in Requests |-> Len(events[r])]

\* It sees no more of a step than what it does to the one request.
LEMMA ContractView ==
    ASSUME ChatInv, NEW r \in Requests, Step(r)
    PROVE  /\ Charges' = [Charges EXCEPT ![r] = tokens'[r].state]
           /\ Rows' = [Rows EXCEPT ![r] = RowOf(r)']
           /\ Counts' = [Counts EXCEPT ![r] = Len(events'[r])]
BY OthersStay DEF ChatInv, Charges, Rows, Counts, RowOf

\* The contract in these terms.
LEMMA ContractSteps ==
    ASSUME NEW r \in Requests
    PROVE  /\ slot[r] = "none" /\ slot' = [slot EXCEPT ![r] = "held"]
              /\ Charges' = [Charges EXCEPT ![r] = "reserved"] /\ UNCHANGED <<Rows, Counts>>
                  => Contract!Admit(r)
           /\ slot[r] = "held" /\ tokens[r].state = "reserved" /\ RowOf(r) = "none"
              /\ Rows' = [Rows EXCEPT ![r] = "accepted"] /\ UNCHANGED <<slot, Charges, Counts>>
                  => Contract!Accept(r)
           /\ slot[r] = "held" /\ tokens[r].state = "reserved" /\ RowOf(r) = "accepted"
              /\ Charges' = [Charges EXCEPT ![r] = "settled"] /\ UNCHANGED <<slot, Rows, Counts>>
                  => Contract!Settle(r)
           /\ slot[r] = "held" /\ tokens[r].state = "settled" /\ RowOf(r) = "accepted"
              /\ Rows' = [Rows EXCEPT ![r] = "final"]
              /\ Counts' = [Counts EXCEPT ![r] = Len(events[r]) + 1] /\ UNCHANGED <<slot, Charges>>
                  => Contract!Finalize(r)
           /\ slot[r] = "held" /\ RowOf(r) # "none"
              /\ slot' = [slot EXCEPT ![r] = "released"] /\ UNCHANGED <<Charges, Rows, Counts>>
                  => Contract!Release(r)
BY DEF Charges, Rows, Counts, Contract!Admit, Contract!Accept, Contract!Settle,
       Contract!Finalize, Contract!Release, Contract!Set

\* A step that touches none of the four.
LEMMA ContractStutters ==
    ASSUME UNCHANGED <<slot, tokens, audit, events>>
    PROVE  UNCHANGED Contract!vars
BY DEF Contract!vars, RowOf

\* The reservation is settled while the row is open, if it was not before.
LEMMA SettlesContract ==
    ASSUME ChatInv, NEW r \in Requests, Step(r), pc[r] \in {"settle", "fail"},
           UNCHANGED <<slot, audit, events>>,
           \E actual, all : FinalizeTokens(r, actual, all)
    PROVE  [Contract!Next]_(Contract!vars)
<1>1. slot[r] = "held" /\ RowOf(r) = "accepted"
  BY DEF ChatInv, Course, Admitted, RowOf, Statuses
<1>2. CASE tokens[r].state = "settled"
  BY <1>2, ContractStutters DEF FinalizeTokens
<1>3. CASE tokens[r].state # "settled"
  <2>1. tokens[r].state = "reserved"
    <3>1. tokens[r] = Reserved(r)
      BY <1>3, Charged DEF ChatInv, Course, Admitted, Settled
    <3> QED
      BY <3>1, Reserving
  <2>2. tokens'[r].state = "settled"
    BY <1>3 DEF FinalizeTokens, Reservation, Put, ChatInv, Tables
  <2>3. Charges' = [Charges EXCEPT ![r] = "settled"]
    BY <2>2, ContractView
  <2>4. UNCHANGED <<Rows, Counts>>
    BY DEF Rows, Counts, RowOf
  <2> QED
    BY <1>1, <2>1, <2>3, <2>4, ContractSteps DEF Contract!Next
<1> QED
  BY <1>2, <1>3

\* The slot is released after a row was made.
LEMMA ReleasesContract ==
    ASSUME ChatInv, NEW r \in Requests, pc[r] = "release", slot' = Put(slot, r, "released"),
           UNCHANGED <<tokens, audit, events>>
    PROVE  [Contract!Next]_(Contract!vars)
<1>1. slot[r] = "held" /\ RowOf(r) # "none" /\ slot' = [slot EXCEPT ![r] = "released"]
  BY DEF ChatInv, Course, Admitted, RowOf, Put, Statuses
<1>2. UNCHANGED <<Charges, Rows, Counts>>
  BY DEF Charges, Rows, Counts, RowOf
<1> QED
  BY <1>1, <1>2, ContractSteps DEF Contract!Next

\* Every step of a request is one of the contract.
LEMMA StepKeepsContract ==
    ASSUME ChatInv, NEW r \in Requests, Step(r)
    PROVE  [Contract!Next]_(Contract!vars)
<1> USE DEF Go
<1>1. CASE Admit(r)
  <2>1. CASE pc'[r] = "auditStart"
    <3>1. /\ slot[r] = "none" /\ slot' = [slot EXCEPT ![r] = "held"]
          /\ tokens'[r].state = "reserved" /\ UNCHANGED <<audit, events>>
      BY <1>1, <2>1 DEF Admit, ChatInv, Tables, Course, Unadmitted, Put, Refuse, Reservation
    <3>2. Charges' = [Charges EXCEPT ![r] = "reserved"]
      BY <3>1, ContractView
    <3>3. UNCHANGED <<Rows, Counts>>
      BY <3>1 DEF Rows, Counts, RowOf
    <3> QED
      BY <3>1, <3>2, <3>3, ContractSteps DEF Contract!Next
  <2>2. CASE pc'[r] # "auditStart"
    BY <1>1, <2>2, ContractStutters DEF Admit, ChatInv, Tables
  <2> QED
    BY <2>1, <2>2
<1>2. CASE StartAudit(r)
  <2>1. CASE audit' = Put(audit, r, NoUsage("accepted"))
    <3>1. /\ slot[r] = "held" /\ tokens[r] = Reserved(r) /\ audit[r] = NoUsage("none")
          /\ audit'[r] = NoUsage("accepted") /\ UNCHANGED <<slot, tokens, events>>
      BY <1>2, <2>1 DEF StartAudit, Refuse, ledger, ChatInv, Tables, Course, Admitted, Put
    <3>4. tokens[r].state = "reserved" /\ RowOf(r) = "none" /\ RowOf(r)' = "accepted"
      BY <3>1, Reserving DEF RowOf, NoUsage, Used, Statuses
    <3>2. Rows' = [Rows EXCEPT ![r] = "accepted"]
      BY <3>4, ContractView
    <3>3. UNCHANGED <<slot, Charges, Counts>>
      BY <3>1 DEF Charges, Counts
    <3> QED
      BY <3>1, <3>2, <3>3, <3>4, ContractSteps DEF Contract!Next
  <2>2. CASE UNCHANGED audit
    BY <1>2, <2>2, ContractStutters DEF StartAudit, ledger
  <2> QED
    BY <1>2, <2>1, <2>2 DEF StartAudit
<1>3. CASE Settle(r) \/ Fail(r)
  <2>1. /\ pc[r] \in {"settle", "fail"} /\ UNCHANGED <<slot, audit, events>>
        /\ \E actual, all : FinalizeTokens(r, actual, all)
    BY <1>3 DEF Settle, Fail
  <2> QED
    BY <2>1, SettlesContract
<1>4. CASE FinalizeAudit(r) \/ FinalizeFailedAudit(r)
  <2>1. /\ slot[r] = "held" /\ tokens[r].state = "settled" /\ RowOf(r) = "accepted"
        /\ events[r] = <<>> /\ UNCHANGED <<slot, tokens>>
    BY <1>4, Charged DEF FinalizeAudit, FinalizeFailedAudit, ledger, ChatInv, Course, Admitted,
                         Settled, RowOf, Statuses
  <2>2. CASE audit' = audit /\ events' = events
    BY <2>1, <2>2, ContractStutters
  <2>3. CASE WriteAudit(r) /\ Emit(r)
    <3>1. Last(usage[r]).status \in Statuses
      <4>1. Last(usage[r]) \in {UsageOf(r), FailedUse(r)}
        <5>1. usage[r] \in {<<UsageOf(r)>>, <<FailedUse(r)>>, <<UsageOf(r), FailedUse(r)>>}
          BY <1>4 DEF FinalizeAudit, FinalizeFailedAudit, ChatInv, Course, Settled
        <5> QED
          BY <5>1, LastOf
      <4> QED
        BY <4>1, UsageStatus DEF ChatInv, Course, OwnRoute, FailedUse, Used, Statuses
    <3>2. RowOf(r)' = "final" /\ Len(events'[r]) = Len(events[r]) + 1
      BY <2>1, <2>3, <3>1 DEF WriteAudit, Emit, Put, RowOf, ChatInv, Tables
    <3>3. /\ Rows' = [Rows EXCEPT ![r] = "final"]
          /\ Counts' = [Counts EXCEPT ![r] = Len(events[r]) + 1]
      BY <3>2, ContractView
    <3>4. UNCHANGED <<slot, Charges>>
      BY <2>1 DEF Charges
    <3> QED
      BY <2>1, <3>3, <3>4, ContractSteps DEF Contract!Next
  <2> QED
    BY <1>4, <2>2, <2>3 DEF FinalizeAudit, FinalizeFailedAudit, ledger
<1>5. CASE Release(r)
  BY <1>5, ReleasesContract DEF Release, ledger
<1>8. CASE Cancel(r)
  <2>1. UNCHANGED <<audit, events>>
    BY <1>8 DEF Cancel
  <2>2. CASE UNCHANGED <<slot, tokens>>
    BY <2>1, <2>2, ContractStutters
  <2>3. CASE slot' # slot
    <3>1. pc[r] = "release" /\ slot' = Put(slot, r, "released") /\ UNCHANGED tokens
      BY <1>8, <2>3 DEF Cancel, Interrupted
    <3> QED
      BY <2>1, <3>1, ReleasesContract
  <2>4. CASE tokens' # tokens
    <3>1. /\ pc[r] \in {"settle", "fail"} /\ UNCHANGED slot
          /\ \E actual, all : FinalizeTokens(r, actual, all)
      BY <1>8, <2>4 DEF Cancel, Interrupted
    <3> QED
      BY <2>1, <3>1, SettlesContract
  <2> QED
    BY <2>2, <2>3, <2>4
<1>6. CASE Authenticate(r) \/ Call(r) \/ CallFails(r) \/ BeginStream(r) \/ SendChunk(r)
  BY <1>6, ContractStutters
     DEF Authenticate, Call, CallFails, BeginStream, SendChunk, ledger
<1>7. CASE StreamEnds(r) \/ StreamSeesDisconnect(r) \/ StreamFails(r) \/ CloseStream(r)
  BY <1>7, ContractStutters
     DEF StreamEnds, StreamSeesDisconnect, StreamFails, CloseStream, LeaveStream, ledger
<1> QED
  BY <1>1, <1>2, <1>3, <1>4, <1>5, <1>6, <1>7, <1>8 DEF Step, Work

\* Whatever fails, and wherever a task is cancelled, slot, charge, row and event of
\* each request move as RequestContract has it.
THEOREM KeepsContract == GatewaySpec => ContractKept
<1>1. GatewayInit => Contract!Init
  BY DEF GatewayInit, Init, Contract!Init, RowOf, NoUsage, Used, Reservation, Statuses
<1>2. ChatInv /\ [GatewayNext]_allVars => [Contract!Next]_(Contract!vars)
  <2> SUFFICES ASSUME ChatInv, [GatewayNext]_allVars PROVE [Contract!Next]_(Contract!vars)
    OBVIOUS
  <2>1. CASE UNCHANGED vars
    BY <2>1, ContractStutters DEF vars
  <2> QED
    BY <2>1, GatewayMoves, StepKeepsContract
<1> QED
  BY <1>1, <1>2, ChatIsInvariant, PTL DEF GatewaySpec, ContractKept, Contract!Spec

-----------------------------------------------------------------------------
(* A request in the layers around the route.                               *)

\* Every table of the layers has an entry for each request.
LayerTables == /\ DOMAIN exc = Requests /\ DOMAIN reports = Requests
               /\ DOMAIN code = Requests /\ DOMAIN counted = Requests

\* An exception of the client comes from the entry of the route and meets nothing
\* that was reported or answered before; any other is an error of the server.
Excepting(r) ==
    /\ exc[r] \in {"none", "client", "server", "other"}
    /\ exc[r] = "client" => pc[r] = "done" /\ code[r] = "none" /\ r \notin failed
    /\ exc[r] \in {"server", "other"} => r \in failed
    /\ pc[r] \in {"auth", "admit"} \/ phase = "starting" => r \notin failed
    /\ pc[r] \in {"fail", "auditFailed"} => r \in failed

\* A request is marked when its event is sent; an error of the server is reported
\* or refused, or still on its way.
Reporting(r) ==
    /\ reports[r] = IF r \in captured THEN 1 ELSE 0
    /\ r \in captured => r \in failed
    /\ r \in failed /\ sentry_enabled
           => r \in captured \cup refused \/ (pc[r] = "done" /\ exc[r] # "none")

\* A response is counted once, and a request counted without one gets none.
Counting(r) ==
    /\ counted[r] = <<>> \/ counted[r] = <<IF code[r] = "none" THEN "500" ELSE code[r]>>
    /\ counted[r] # <<>> /\ code[r] = "none"
           => pc[r] = "done" /\ exc[r] = "none" /\ (Streams(r) \/ reply[r] = "none")
    /\ r \in answered => counted[r] # <<>> /\ code[r] # "none"

\* A JSON request is answered after its route, 200 if and only if it was completed.
Answering(r) ==
    /\ pc[r] \in {"auth", "admit", "auditStart"} => code[r] = "none"
    /\ ~Streams(r) =>
        /\ pc[r] # "done" => code[r] = "none"
        /\ pc[r] \notin {"fail", "auditFailed", "release", "done"} => exc[r] = "none"
        /\ code[r] = "200" => reply[r] = "ok"
        /\ pc[r] \in {"release", "done"} /\ audit[r].status = "completed"
               => exc[r] = "none" /\ code[r] \in {"none", "200"}

Layers(r) == Excepting(r) /\ Reporting(r) /\ Counting(r) /\ Answering(r)

LayerInv == LayerTables /\ \A r \in Requests : Layers(r)

\* Which clients are open in each phase of the process.
ClientInv ==
    /\ phase \in {"starting", "serving", "closing", "disposing", "closingRedis", "stopped"}
    /\ open \subseteq Clients
    /\ redis_client \in {"none", "chatRedis", "batchRedis"}
    /\ redis_client = "none" => open \cap {"chatRedis", "batchRedis"} = {}
    /\ redis_client = "batchRedis" => "chatRedis" \notin open
    /\ phase \in {"disposing", "closingRedis"} => "vllm" \notin open
    /\ phase = "closingRedis" => "postgres" \notin open
    /\ phase = "stopped" /\ ~broken => open \cap {"vllm", "postgres", redis_client} = {}

\* Clients are opened while the process serves, and closed one after the other.
LEMMA StepKeepsClients ==
    ASSUME ClientInv, [GatewayNext]_allVars
    PROVE  ClientInv'
<1> USE DEF ClientInv, Clients
<1>1. ASSUME NEW r \in Requests, RouteStep(r) PROVE ClientInv'
  BY <1>1 DEF RouteStep, Connect, Create
<1>2. ASSUME NEW r \in Requests,
             \/ RouteCancelled(r) \/ StartResponse(r) \/ ReturnJson(r) \/ HandleAppError(r)
             \/ HandleUnhandled(r) \/ HandleLate(r) \/ CountResponse(r) \/ Deliver(r)
             \/ PassCancelled(r)
      PROVE  ClientInv'
  BY <1>2 DEF RouteCancelled, Create, StartResponse, ReturnJson, HandleAppError,
              HandleUnhandled, HandleLate, CountResponse, Deliver, PassCancelled, process
<1>3. CASE Startup
  BY <1>3 DEF Startup
<1>4. CASE UseBatch \/ StopServing
  BY <1>4 DEF UseBatch, StopServing
<1>5. CASE Shutdown
  BY <1>5 DEF Shutdown, CloseClient
<1>6. CASE UNCHANGED allVars
  BY <1>6 DEF allVars, gateway, process
<1> QED
  BY <1>1, <1>2, <1>3, <1>4, <1>5, <1>6 DEF GatewayNext, RequestStep

\* A shutdown in which nothing raises leaves no client open, but for the one of the
\* batch queue when the admission service has put its own in its place.
THEOREM ShutsDown == GatewaySpec => []ShutdownCloses
<1>1. GatewayInit => ClientInv
  BY DEF GatewayInit, ClientInv, Clients
<1>2. ClientInv => ShutdownCloses
  BY DEF ClientInv, Clients, ShutdownCloses
<1> QED
  BY <1>1, <1>2, StepKeepsClients, PTL DEF GatewaySpec

-----------------------------------------------------------------------------
(* Reporting, counting and answering.                                      *)

\* The way through the route.
LEMMA WorkMoves ==
    ASSUME ChatInv, NEW r \in Requests, Work(r)
    PROVE  \/ pc[r] = "auth" /\ pc'[r] \in {"admit", "done"}
           \/ pc[r] = "admit" /\ pc'[r] \in {"auditStart", "done"}
           \/ pc[r] = "auditStart" /\ pc'[r] \in {IF Streams(r) THEN "handed" ELSE "call", "done"}
           \/ pc[r] = "call" /\ pc'[r] \in {"settle", "fail"}
           \/ pc[r] = "handed" /\ pc'[r] = "stream"
           \/ pc[r] = "stream" /\ pc'[r] \in {"stream", "close"}
           \/ pc[r] = "close" /\ pc'[r] \in {"settle", "done"}
           \/ pc[r] = "settle" /\ pc'[r] = "auditFinal"
           \/ pc[r] = "auditFinal" /\ pc'[r] \in {IF Streams(r) THEN "done" ELSE "fail", "release"}
           \/ pc[r] = "fail" /\ pc'[r] = "auditFailed"
           \/ pc[r] = "auditFailed" /\ pc'[r] = "release"
           \/ pc[r] = "release" /\ pc'[r] = "done"
<1> USE DEF ChatInv, Tables, Go
<1>1. CASE Authenticate(r) \/ Admit(r) \/ StartAudit(r)
  BY <1>1 DEF Authenticate, Admit, StartAudit, Refuse
<1>2. CASE Call(r) \/ CallFails(r) \/ BeginStream(r) \/ SendChunk(r) \/ CloseStream(r)
  BY <1>2 DEF Call, CallFails, BeginStream, SendChunk, CloseStream
<1>3. CASE StreamEnds(r) \/ StreamSeesDisconnect(r) \/ StreamFails(r)
  BY <1>3 DEF StreamEnds, StreamSeesDisconnect, StreamFails, LeaveStream
<1>4. CASE Settle(r) \/ FinalizeAudit(r) \/ Fail(r) \/ FinalizeFailedAudit(r) \/ Release(r)
  BY <1>4 DEF Settle, FinalizeAudit, Fail, FinalizeFailedAudit, Release
<1> QED
  BY <1>1, <1>2, <1>3, <1>4 DEF Work

\* An error that may be raised at an await is one of the client only before admission.
LEMMA RaisedErrors ==
    ASSUME ChatInv, NEW r \in Requests, Work(r), Raises(r), NEW e \in Errors(r)
    PROVE  /\ e \in {"client", "server", "other"}
           /\ e = "client" => pc[r] \in {"auth", "admit"} /\ pc'[r] = "done"
           /\ ~Excepted(r) => pc'[r] = "done" \/ pc[r] = "auditFailed"
           /\ pc[r] \in {"auth", "admit", "auditStart", "call", "stream", "close", "auditFinal",
                         "auditFailed"}
<1>1. /\ pc[r] \in {"auth", "admit", "auditStart", "call", "stream", "close", "auditFinal",
                    "auditFailed"}
      /\ ~Excepted(r) => pc'[r] = "done" \/ pc[r] = "auditFailed"
      /\ pc[r] \in {"auth", "admit"} => pc'[r] = "done"
  BY WorkMoves DEF Raises, Excepted
<1> QED
  BY <1>1 DEF Errors, AuthErrors, AdmissionErrors, UpstreamErrors, AuditErrors

\* The row of a JSON request becomes "completed" on the one way to its release.
LEMMA CompletedRows ==
    ASSUME ChatInv, NEW r \in Requests, Work(r), ~Streams(r), pc'[r] \in {"release", "done"},
           audit'[r].status = "completed"
    PROVE  ~Raises(r) /\ (pc[r] = "auditFinal" \/ (pc[r] = "release" /\ audit' = audit))
<1> USE DEF ChatInv, Tables, Go, Course, OwnRoute, Admitted
<1>1. pc[r] \in {"auth", "admit", "auditStart", "auditFinal", "auditFailed", "release"}
  BY WorkMoves
<1>2. pc[r] \notin {"auth", "admit", "auditStart"}
  <2>1. pc[r] \in {"auth", "admit", "auditStart"} => pc'[r] = "done"
    BY WorkMoves
  <2>2. pc[r] \in {"auth", "admit", "auditStart"} => audit'[r] = NoUsage("none")
    BY <2>1 DEF Work, Authenticate, Admit, StartAudit, Refuse, Call, CallFails, BeginStream,
                SendChunk, CloseStream, StreamEnds, StreamSeesDisconnect, StreamFails, LeaveStream,
                Settle, FinalizeAudit, Fail, FinalizeFailedAudit, Release
  <2> QED
    BY <2>2 DEF NoUsage, Used
<1>3. pc[r] # "auditFailed"
  <2>1. SUFFICES ASSUME pc[r] = "auditFailed" PROVE audit'[r].status # "completed"
    OBVIOUS
  <2>2. FinalizeFailedAudit(r)
    BY <2>1 DEF Work, Authenticate, Admit, StartAudit, Refuse, Call, CallFails, BeginStream,
                SendChunk, CloseStream, StreamEnds, StreamSeesDisconnect, StreamFails, LeaveStream,
                Settle, FinalizeAudit, Fail, Release
  <2>3. usage[r] \in {<<FailedUse(r)>>, <<UsageOf(r), FailedUse(r)>>}
    BY <2>1 DEF Settled
  <2>4. FailedUse(r).status = "failed"
    BY DEF FailedUse, Used
  <2>5. audit'[r] = FailedUse(r) \/ audit' = audit
    <3>1. Last(usage[r]) = FailedUse(r)
      BY <2>3, LastEntry
    <3>2. audit' = Put(audit, r, Last(usage[r])) \/ audit' = audit
      BY <2>2 DEF FinalizeFailedAudit, WriteAudit
    <3> QED
      BY <3>1, <3>2 DEF Put
  <2> QED
    BY <2>1, <2>4, <2>5
<1>4. CASE pc[r] = "auditFinal"
  BY <1>4, WorkMoves DEF Raises, Excepted
<1>5. CASE pc[r] = "release"
  BY <1>5, WorkMoves
     DEF Raises, Excepted, Work, Authenticate, Admit, StartAudit, Refuse, Call, CallFails,
         BeginStream, SendChunk, CloseStream, StreamEnds, StreamSeesDisconnect, StreamFails,
         LeaveStream, Settle, FinalizeAudit, Fail, FinalizeFailedAudit, Release
<1> QED
  BY <1>1, <1>2, <1>3, <1>4, <1>5

\* A step of one request leaves the layers of the others alone.
LEMMA OthersKeepLayers ==
    ASSUME ChatInv, LayerInv, NEW r \in Requests, RequestStep(r)
    PROVE  /\ LayerTables' /\ UNCHANGED <<phase, sentry_enabled, body>>
           /\ \A q \in Requests : q # r => Layers(q)'
<1> USE DEF LayerInv, LayerTables, Put, Capture, reporting, answering, process
<1>1. /\ LayerTables' /\ UNCHANGED <<phase, sentry_enabled>>
      /\ \A q \in Requests : q # r =>
           /\ exc'[q] = exc[q] /\ reports'[q] = reports[q] /\ code'[q] = code[q]
           /\ counted'[q] = counted[q]
           /\ q \in captured' <=> q \in captured
           /\ q \in refused' <=> q \in refused
           /\ q \in failed' <=> q \in failed
           /\ q \in answered' <=> q \in answered
  <2>1. CASE RouteStep(r) \/ RouteCancelled(r)
    BY <2>1 DEF RouteStep, RouteCancelled, Raise
  <2>2. CASE StartResponse(r) \/ ReturnJson(r)
    BY <2>2 DEF StartResponse, ReturnJson, Respond
  <2>3. CASE HandleAppError(r)
    BY <2>3 DEF HandleAppError, Respond
  <2>4. CASE HandleUnhandled(r)
    BY <2>4 DEF HandleUnhandled, Respond, PassMetrics
  <2>5. CASE HandleLate(r)
    BY <2>5 DEF HandleLate
  <2>6. CASE CountResponse(r) \/ Deliver(r) \/ PassCancelled(r)
    BY <2>6 DEF CountResponse, Deliver, PassCancelled, PassMetrics
  <2> QED
    BY <2>1, <2>2, <2>3, <2>4, <2>5, <2>6 DEF RequestStep
<1>2. /\ UNCHANGED body
      /\ \A q \in Requests : q # r =>
           pc'[q] = pc[q] /\ reply'[q] = reply[q] /\ audit'[q] = audit[q]
  <2>1. Step(r) \/ UNCHANGED vars
    BY DEF RequestStep, RouteStep, RouteCancelled, StartResponse, ReturnJson, HandleAppError,
           HandleUnhandled, HandleLate, CountResponse, Deliver, PassCancelled, Step
  <2> QED
    BY <2>1, OthersStay DEF ChatInv, vars
<1>3. ASSUME NEW q \in Requests, q # r PROVE Layers(q)'
  <2>1. Streams(q)' = Streams(q)
    BY <1>2 DEF Streams
  <2> QED
    BY <1>1, <1>2, <1>3, <2>1 DEF Layers, Excepting, Reporting, Counting, Answering
<1> QED
  BY <1>1, <1>2, <1>3

\* What Sentry is told of an error of the server.
LEMMA Captures ==
    ASSUME LayerInv, NEW r \in Requests, NEW e, e # "client", Capture(r, e), Layers(r)
    PROVE  /\ reports'[r] = IF r \in captured' THEN 1 ELSE 0
           /\ r \in captured => r \in captured'
           /\ r \in refused => r \in refused'
           /\ sentry_enabled => r \in captured' \cup refused'
BY DEF Capture, Layers, Reporting, LayerInv, LayerTables, Put, reporting

\* On its route a request is reported when the route catches its error.
LEMMA RouteKeepsLayers ==
    ASSUME ChatInv, LayerInv, NEW r \in Requests, RouteStep(r)
    PROVE  Layers(r)'
<1>1. /\ Work(r) /\ phase = "serving" /\ UNCHANGED <<phase, sentry_enabled, code, counted, answered>>
      /\ Layers(r) /\ Course(r) /\ pc[r] # "done"
      /\ Streams(r)' = Streams(r)
  <2>1. UNCHANGED body
    BY OthersStay DEF ChatInv, RouteStep, Step
  <2> QED
    BY <2>1, WorkMoves DEF RouteStep, LayerInv, ChatInv, answering, Streams
<1>2. pc[r] = "stream" \/ pc'[r] # pc[r]
  BY <1>1, WorkMoves
<1>3. Excepting(r)' /\ Reporting(r)'
  <2>1. CASE ~Raises(r)
    <3>1. UNCHANGED <<exc, failed, reports, captured, refused>>
      BY <2>1 DEF RouteStep, reporting
    <3>2. /\ pc'[r] \notin {"fail", "auth"}
          /\ pc'[r] = "admit" => pc[r] = "auth"
          /\ pc'[r] = "auditFailed" => pc[r] = "fail"
          /\ pc'[r] = "done" => pc[r] = "release"
      BY <1>1, <2>1, WorkMoves DEF Raises, Excepted
    <3>3. Excepting(r)'
      BY <1>1, <3>1, <3>2 DEF Layers, Excepting
    <3>4. Reporting(r)'
      BY <1>1, <3>1, <3>2 DEF Layers, Reporting
    <3> QED
      BY <3>3, <3>4
  <2>2. CASE Raises(r)
    <3>1. PICK e \in Errors(r) : Raise(r, e)
      BY <2>2 DEF RouteStep
    <3>2. /\ e \in {"client", "server", "other"} /\ exc'[r] = e
          /\ e = "client" => pc[r] \in {"auth", "admit"} /\ pc'[r] = "done" /\ code[r] = "none"
          /\ failed' = IF e = "client" THEN failed ELSE failed \cup {r}
          /\ pc'[r] \notin {"auth", "admit"}
      BY <1>1, <2>2, <3>1, RaisedErrors, WorkMoves
         DEF Raise, Put, LayerInv, LayerTables, Layers, Answering, Raises, Excepted
    <3>3. Excepting(r)'
      BY <1>1, <3>2, WorkMoves DEF Layers, Excepting
    <3>4. CASE Excepted(r)
      <4>1. e # "client"
        BY <1>1, <3>2, <3>4, WorkMoves DEF Excepted
      <4>2. Capture(r, e)
        BY <3>1, <3>4 DEF Raise
      <4>3. captured' \subseteq captured \cup {r}
        BY <4>2 DEF Capture, reporting
      <4> QED
        <5>1. /\ reports'[r] = IF r \in captured' THEN 1 ELSE 0
              /\ sentry_enabled => r \in captured' \cup refused'
          BY <1>1, <4>1, <4>2, Captures
        <5>2. r \in failed'
          BY <3>2, <4>1
        <5> QED
          BY <1>1, <3>3, <5>1, <5>2 DEF Reporting
    <3>5. CASE ~Excepted(r)
      <4>1. UNCHANGED <<reports, captured, refused>>
        BY <3>1, <3>5 DEF Raise, reporting
      <4>2. pc'[r] = "done" \/ pc[r] = "auditFailed"
        BY <1>1, <2>2, <3>5, RaisedErrors
      <4>3. pc[r] = "auditFailed" => r \in failed
        BY <1>1 DEF Layers, Excepting
      <4> QED
        <5>1. Reporting(r)
          BY <1>1 DEF Layers
        <5>2. r \in failed => r \in failed'
          BY <3>2
        <5>3. r \in failed' /\ pc'[r] # "done" => r \in failed
          BY <4>2, <4>3
        <5>4. exc'[r] # "none"
          BY <3>2
        <5> QED
          BY <1>1, <3>3, <4>1, <5>1, <5>2, <5>3, <5>4 DEF Reporting
    <3> QED
      BY <3>3, <3>4, <3>5
  <2> QED
    BY <2>1, <2>2
<1>4. Counting(r)'
  BY <1>1 DEF Layers, Counting
<1>5. Answering(r)'
  <2>1. pc'[r] \in {"auth", "admit", "auditStart"} => pc[r] \in {"auth", "admit", "auditStart"}
    BY <1>1, WorkMoves
  <2>2. CASE Streams(r)
    BY <1>1, <2>1, <2>2 DEF Layers, Answering
  <2>3. CASE ~Streams(r)
    <3>1. code[r] = "none"
      BY <1>1, <2>3 DEF Layers, Answering
    <3>2. pc'[r] \notin {"fail", "auditFailed", "release", "done"} => exc'[r] = "none"
      <4>1. SUFFICES ASSUME pc'[r] \notin {"fail", "auditFailed", "release", "done"}
                     PROVE  exc'[r] = "none"
        OBVIOUS
      <4>2. exc[r] = "none"
        BY <1>1, <2>3, <4>1, WorkMoves DEF Layers, Answering
      <4>3. ~Raises(r)
        BY <1>1, <2>3, <4>1, WorkMoves DEF Raises, Excepted, Course, OwnRoute
      <4> QED
        BY <4>2, <4>3 DEF RouteStep
    <3>3. pc'[r] \in {"release", "done"} /\ audit'[r].status = "completed" => exc'[r] = "none"
      <4>1. SUFFICES ASSUME pc'[r] \in {"release", "done"}, audit'[r].status = "completed"
                     PROVE  exc'[r] = "none"
        OBVIOUS
      <4>2. ~Raises(r) /\ (pc[r] = "auditFinal" \/ (pc[r] = "release" /\ audit' = audit))
        BY <1>1, <2>3, <4>1, CompletedRows
      <4>3. exc[r] = "none"
        BY <1>1, <2>3, <4>1, <4>2 DEF Layers, Answering
      <4> QED
        BY <4>2, <4>3 DEF RouteStep
    <3> QED
      BY <1>1, <2>3, <3>1, <3>2, <3>3 DEF Answering
  <2> QED
    BY <2>2, <2>3
<1> QED
  BY <1>3, <1>4, <1>5 DEF Layers

\* A cancelled request was reported before, if it met an error, and has no error
\* on its way any more.
LEMMA CancelKeepsLayers ==
    ASSUME ChatInv, LayerInv, NEW r \in Requests, RouteCancelled(r)
    PROVE  Layers(r)'
<1>1. /\ UNCHANGED <<phase, sentry_enabled, failed, captured, reports, refused, code, counted,
                     answered, body, audit>>
      /\ exc'[r] = "none" /\ pc[r] # "done" /\ Layers(r) /\ Course(r)
      /\ Streams(r)' = Streams(r)
      /\ \/ pc'[r] = "release"
            /\ pc[r] \in {"call", "settle", "auditFinal", "fail", "auditFailed"}
         \/ pc'[r] = "close" /\ pc[r] = "stream"
         \/ pc'[r] = "done"
      /\ ~Streams(r) => reply'[r] = "none"
  BY DEF RouteCancelled, Cancel, Go, Put, LayerInv, LayerTables, ChatInv, Tables, process,
         reporting, answering, traffic, Streams
<1>2. ~Streams(r) => code[r] = "none"
  BY <1>1 DEF Layers, Answering
<1>3. Excepting(r)' /\ Reporting(r)'
  BY <1>1 DEF Layers, Excepting, Reporting
<1>4. Counting(r)' /\ Answering(r)'
  BY <1>1, <1>2 DEF Layers, Counting, Answering
<1> QED
  BY <1>3, <1>4 DEF Layers

\* Around the route a response is made, counted and sent once, and an error that
\* arrives there is reported unless it was.
LEMMA LayersKeepLayers ==
    ASSUME ChatInv, LayerInv, NEW r \in Requests,
           \/ StartResponse(r) \/ ReturnJson(r) \/ HandleAppError(r) \/ HandleUnhandled(r)
           \/ HandleLate(r) \/ CountResponse(r) \/ Deliver(r) \/ PassCancelled(r)
    PROVE  Layers(r)'
<1>1. /\ UNCHANGED <<phase, sentry_enabled, failed, pc, reply, audit, body>>
      /\ Layers(r) /\ Course(r) /\ phase = "serving"
      /\ Streams(r)' = Streams(r)
  BY DEF StartResponse, ReturnJson, HandleAppError, HandleUnhandled, HandleLate, CountResponse,
         Deliver, PassCancelled, Returned, process, vars, LayerInv, ChatInv, Streams
<1>2. CASE StartResponse(r) \/ ReturnJson(r)
  <2>1. /\ UNCHANGED <<exc, reports, captured, refused, counted, answered>>
        /\ code[r] = "none" /\ code'[r] = "200"
        /\ \/ pc[r] = "handed"
           \/ pc[r] = "done" /\ ~Streams(r) /\ reply[r] = "ok"
    BY <1>2 DEF StartResponse, ReturnJson, Respond, Returned, Put, reporting, LayerInv, LayerTables
  <2>2. pc[r] = "handed" => Streams(r)
    BY <1>1 DEF Course, OwnRoute
  <2>3. exc[r] # "client"
    <3>1. CASE pc[r] = "handed"
      BY <1>1, <3>1 DEF Layers, Excepting
    <3>2. CASE pc[r] = "done" /\ ~Streams(r) /\ reply[r] = "ok"
      <4>1. audit[r].status = "completed"
        BY <1>1, <3>2, UsageStatus DEF Course, Closed
      <4> QED
        BY <1>1, <3>2, <4>1 DEF Layers, Answering
    <3> QED
      BY <2>1, <3>1, <3>2
  <2>4. Excepting(r)' /\ Reporting(r)'
    BY <1>1, <2>1, <2>3 DEF Layers, Excepting, Reporting
  <2>5. counted[r] = <<>>
    BY <1>1, <2>1, <2>2 DEF Layers, Counting
  <2>6. Counting(r)' /\ Answering(r)'
    BY <1>1, <2>1, <2>2, <2>5 DEF Layers, Counting, Answering
  <2> QED
    BY <2>4, <2>6 DEF Layers
<1>3. CASE CountResponse(r) \/ Deliver(r) \/ PassCancelled(r)
  <2>1. UNCHANGED <<exc, reports, captured, refused, code>>
    BY <1>3 DEF CountResponse, Deliver, PassCancelled, reporting
  <2>2. Excepting(r)' /\ Reporting(r)' /\ Answering(r)'
    BY <1>1, <2>1 DEF Layers, Excepting, Reporting, Answering
  <2>3. Counting(r)'
    BY <1>1, <1>3, <2>1, AppendOne
       DEF Layers, Counting, CountResponse, Deliver, PassCancelled, PassMetrics, Put, Returned,
           LayerInv, LayerTables
  <2> QED
    BY <2>2, <2>3 DEF Layers
<1>4. CASE HandleAppError(r)
  <2>1. /\ pc[r] = "done" /\ exc[r] \in {"client", "server"} /\ exc'[r] = "none"
        /\ code[r] = "none" /\ code'[r] \in {"4xx", "5xx"}
        /\ UNCHANGED <<counted, answered>>
        /\ Capture(r, exc[r])
    BY <1>4 DEF HandleAppError, Respond, Returned, Put, LayerInv, LayerTables
  <2>2. Excepting(r)'
    BY <1>1, <2>1 DEF Layers, Excepting
  <2>3. Reporting(r)'
    <3>1. CASE exc[r] = "client"
      BY <1>1, <2>1, <3>1 DEF Layers, Excepting, Reporting, Capture, reporting
    <3>2. CASE exc[r] # "client"
      BY <1>1, <2>1, <3>2, Captures DEF Layers, Excepting, Reporting
    <3> QED
      BY <3>1, <3>2
  <2>4. counted[r] = <<>>
    BY <1>1, <2>1 DEF Layers, Counting
  <2>5. Counting(r)' /\ Answering(r)'
    BY <1>1, <2>1, <2>4 DEF Layers, Counting, Answering
  <2> QED
    BY <2>2, <2>3, <2>5 DEF Layers
<1>5. CASE HandleUnhandled(r)
  <2>1. /\ pc[r] = "done" /\ exc[r] = "other" /\ exc'[r] = "none"
        /\ code[r] = "none" /\ code'[r] = "500"
        /\ counted'[r] = Append(counted[r], "500") /\ r \in answered'
        /\ Capture(r, "other")
    BY <1>5 DEF HandleUnhandled, Respond, PassMetrics, Returned, Put, LayerInv, LayerTables
  <2>2. Excepting(r)'
    BY <1>1, <2>1 DEF Layers, Excepting
  <2>3. Reporting(r)'
    BY <1>1, <2>1, Captures DEF Layers, Excepting, Reporting
  <2>4. counted[r] = <<>>
    BY <1>1, <2>1 DEF Layers, Counting
  <2>5. counted'[r] = <<"500">>
    BY <2>1, <2>4, AppendOne
  <2>9. code'[r] # "none" /\ "500" = IF code'[r] = "none" THEN "500" ELSE code'[r]
    BY <2>1
  <2>6. Counting(r)'
    BY <2>5, <2>9 DEF Counting
  <2>7. ~Streams(r) => audit[r].status # "completed"
    BY <1>1, <2>1 DEF Layers, Answering
  <2>8. Answering(r)'
    BY <1>1, <2>1, <2>7 DEF Layers, Answering
  <2> QED
    BY <2>2, <2>3, <2>6, <2>8 DEF Layers
<1>6. CASE HandleLate(r)
  <2>1. /\ pc[r] = "done" /\ exc[r] # "none" /\ exc'[r] = "none" /\ r \in answered
        /\ UNCHANGED <<code, counted, answered>>
        /\ Capture(r, "other")
    BY <1>6 DEF HandleLate, Returned, Put, LayerInv, LayerTables, answering
  <2>2. exc[r] \in {"server", "other"}
    BY <1>1, <2>1 DEF Layers, Excepting, Counting
  <2>3. Excepting(r)'
    BY <1>1, <2>1 DEF Layers, Excepting
  <2>4. Reporting(r)'
    BY <1>1, <2>1, <2>2, Captures DEF Layers, Excepting, Reporting
  <2>5. Counting(r)' /\ Answering(r)'
    BY <1>1, <2>1 DEF Layers, Counting, Answering
  <2> QED
    BY <2>3, <2>4, <2>5 DEF Layers
<1> QED
  BY <1>2, <1>3, <1>4, <1>5, <1>6

\* Every step of the gateway keeps what is said of the layers.
LEMMA StepKeepsLayers ==
    ASSUME ChatInv, LayerInv, [GatewayNext]_allVars
    PROVE  LayerInv'
<1>1. ASSUME NEW r \in Requests, RequestStep(r) PROVE LayerInv'
  <2>1. Layers(r)'
    BY <1>1, RouteKeepsLayers, CancelKeepsLayers, LayersKeepLayers DEF RequestStep
  <2> QED
    BY <1>1, <2>1, OthersKeepLayers DEF LayerInv
<1>2. ASSUME UNCHANGED <<vars, exc, failed, reporting, answering>>,
             \/ phase = "starting" /\ phase' = "serving"
             \/ phase' # "starting" /\ UNCHANGED sentry_enabled
             \/ UNCHANGED <<phase, sentry_enabled>>
      PROVE  LayerInv'
  <2>1. UNCHANGED <<pc, body, reply, audit, exc, failed, captured, reports, refused, code,
                    counted, answered>>
    BY <1>2 DEF vars, reporting, answering
  <2>2. ASSUME NEW r \in Requests PROVE Layers(r)'
    <3>1. Layers(r) /\ Streams(r)' = Streams(r)
      BY <2>1 DEF LayerInv, Streams
    <3>2. Excepting(r)'
      BY <1>2, <2>1, <3>1 DEF Layers, Excepting
    <3>3. Reporting(r)'
      BY <1>2, <2>1, <3>1 DEF Layers, Excepting, Reporting
    <3>4. Counting(r)' /\ Answering(r)'
      BY <2>1, <3>1 DEF Layers, Counting, Answering
    <3> QED
      BY <3>2, <3>3, <3>4 DEF Layers
  <2> QED
    BY <2>1, <2>2 DEF LayerInv, LayerTables
<1>3. CASE Startup \/ UseBatch \/ StopServing
  BY <1>2, <1>3 DEF Startup, UseBatch, StopServing
<1>4. CASE Shutdown
  BY <1>2, <1>4 DEF Shutdown, CloseClient
<1>5. CASE UNCHANGED allVars
  BY <1>2, <1>5 DEF allVars, gateway, process
<1> QED
  BY <1>1, <1>3, <1>4, <1>5 DEF GatewayNext

\* The layers keep their invariant.
LEMMA LayersAreInvariant == GatewaySpec => []LayerInv
<1>1. GatewayInit => LayerInv
  BY DEF GatewayInit, Init, LayerInv, LayerTables, Layers, Excepting, Reporting, Counting, Answering
<1> QED
  BY <1>1, ChatIsInvariant, StepKeepsLayers, PTL DEF GatewaySpec

\* An error of the server is reported once for its request, however many layers see
\* it, unless Sentry refused an event of it; an error of the client is not.
THEOREM ReportsOnce == GatewaySpec => []ReportedOnce
<1>1. LayerInv => ReportedOnce
  BY DEF LayerInv, Layers, Reporting, ReportedOnce, Finished
<1> QED
  BY <1>1, LayersAreInvariant, PTL

\* Metrics, client and audit agree on every request.
THEOREM CountsAgree == GatewaySpec => []CountedAsAnswered
<1>1. ChatInv /\ LayerInv => CountedAsAnswered
  <2> SUFFICES ASSUME ChatInv, LayerInv, NEW r \in Requests
               PROVE  /\ r \in answered => counted[r] = <<code[r]>>
                      /\ Finished(r) /\ code[r] = "none" => counted[r] = <<"500">>
                      /\ Finished(r) /\ ~Streams(r) /\ r \in answered
                            => (code[r] = "200" <=> audit[r].status = "completed")
    BY DEF CountedAsAnswered
  <2>1. Layers(r) /\ Course(r)
    BY DEF LayerInv, ChatInv
  <2>2. r \in answered => counted[r] = <<code[r]>>
    BY <2>1 DEF Layers, Counting
  <2>3. Finished(r) /\ code[r] = "none" => counted[r] = <<"500">>
    BY <2>1 DEF Layers, Counting, Finished
  <2>4. ASSUME Finished(r), ~Streams(r), r \in answered
        PROVE  code[r] = "200" <=> audit[r].status = "completed"
    <3>1. code[r] = "200" => audit[r].status = "completed"
      BY <2>1, <2>4, UsageStatus DEF Layers, Answering, Finished, Course, Closed
    <3>2. audit[r].status = "completed" => code[r] = "200"
      BY <2>1, <2>4 DEF Layers, Answering, Counting, Finished
    <3> QED
      BY <3>1, <3>2
  <2> QED
    BY <2>2, <2>3, <2>4
<1> QED
  BY <1>1, ChatIsInvariant, LayersAreInvariant, PTL

-----------------------------------------------------------------------------
(* Types.                                                                  *)

\* The smaller of two counts.
LEMMA Smaller == ASSUME NEW a \in Nat, NEW b \in Nat
                 PROVE  Min({a, b}) \in Nat /\ Min({a, b}) <= a /\ Min({a, b}) <= b
<1>1. \E x \in {a, b} : \A y \in {a, b} : x <= y
  <2>1. CASE a <= b
    BY <2>1
  <2>2. CASE b <= a
    BY <2>2
  <2> QED
    BY <2>1, <2>2
<1> QED
  BY <1>1 DEF Min

\* A plan counts in natural numbers, an accepted one within the limit of a request.
LEMMA PlanTyped ==
    ASSUME TypeOK, NEW r \in Requests
    PROVE  /\ Plan(r).prompt_tokens \in Nat /\ Plan(r).estimated_total_tokens \in Nat
           /\ PlanAccepted(body[r]) => Plan(r).estimated_total_tokens <= MaxTotalTokens
<1>1. /\ estimate_prompt_tokens(body[r].messages) \in Nat
      /\ body[r].max_tokens \in Nat \cup {Null}
  BY BodyAssumption DEF TypeOK
<1>2. RequestedOutput(body[r]) \in Nat
  BY <1>1, TokenAssumption DEF RequestedOutput
<1> QED
  BY <1>1, <1>2 DEF Plan, token_plan, PlanAccepted

\* The estimate of a text is a natural number.
LEMMA CountTyped == ASSUME NEW n \in Nat PROVE count_text(n) \in Nat
BY DEF count_text

\* Every usage record counts in natural numbers.
LEMMA UsageTyped ==
    ASSUME TypeOK, NEW r \in Requests
    PROVE  UsageOf(r) \in UsageRecords(Statuses) /\ FailedUse(r) \in UsageRecords(Statuses)
<1>1. Plan(r).prompt_tokens \in Nat
  BY PlanTyped
<1>2. FailedUse(r) \in UsageRecords(Statuses)
  BY <1>1 DEF FailedUse, Used, UsageRecords, Statuses
<1>3. CASE Streams(r)
  <2>1. chunks[r] * ChunkText \in Nat
    BY ChatAssumption DEF TypeOK
  <2>2. count_text(chunks[r] * ChunkText) \in Nat
    BY <2>1, CountTyped
  <2>3. status[r] \in Statuses
    BY DEF TypeOK
  <2> QED
    BY <1>1, <1>2, <1>3, <2>2, <2>3 DEF UsageOf, usage_from_stream_text, Used, UsageRecords
<1>4. CASE ~Streams(r) /\ "usage" \notin DOMAIN response[r]
  <2>1. response[r].text \in Nat
    BY ResponseAssumption DEF TypeOK
  <2>2. count_text(response[r].text) \in Nat
    BY <2>1, CountTyped
  <2> QED
    BY <1>1, <1>2, <1>4, <2>2
       DEF UsageOf, usage_from_response, usage_from_stream_text, Used, UsageRecords, Statuses
<1>5. CASE ~Streams(r) /\ "usage" \in DOMAIN response[r]
  <2>1. response[r] \in Responses
    BY <1>5 DEF TypeOK
  <2> DEFINE given == response[r].usage
  <2>2. \A f \in {"prompt_tokens", "completion_tokens", "total_tokens"} :
            f \in DOMAIN given => given[f] \in Nat \cup {Null}
    BY <1>5, <2>1, ResponseAssumption
  <2> HIDE DEF given
  <2>3. \A f \in {"prompt_tokens", "completion_tokens", "total_tokens"}, n \in Nat :
            Count(given, f, n) \in Nat
    BY <2>2 DEF Count
  <2> DEFINE prompt == Count(given, "prompt_tokens", Plan(r).prompt_tokens)
             completion == Count(given, "completion_tokens", 0)
             total == Count(given, "total_tokens", prompt + completion)
  <2>4. prompt \in Nat /\ completion \in Nat
    BY <1>1, <2>3
  <2>5. total \in Nat
    <3>1. prompt + completion \in Nat
      BY <2>4
    <3> HIDE DEF prompt, completion
    <3> QED
      BY <2>3, <3>1
  <2>6. UsageOf(r) = Used(prompt, completion, total, "completed")
    BY <1>5 DEF UsageOf, usage_from_response, given
  <2> HIDE DEF prompt, completion, total
  <2> QED
    BY <1>2, <2>4, <2>5, <2>6 DEF Used, UsageRecords, Statuses
<1> QED
  BY <1>3, <1>4, <1>5

\* The streams that are counted by the gauge; one that ends in the middle of its
\* clean-up is counted for ever.
Live == {r \in Requests : Streams(r) /\ pc[r] \in {"stream", "close", "settle", "auditFinal", "release"}}

GaugeInv == IsFiniteSet(Live) /\ Cardinality(Live) <= gauge

\* The gauge never sinks below their number, nor below zero.
LEMMA StepKeepsGauge ==
    ASSUME ChatInv, TypeOK, GaugeInv, NEW r \in Requests, Step(r)
    PROVE  GaugeInv' /\ gauge' \in Nat
<1>1. \A q \in Requests : /\ Streams(q)' = Streams(q)
                          /\ q # r => pc'[q] = pc[q]
  BY OthersStay DEF ChatInv, Streams
<1>2. gauge \in Nat /\ Cardinality(Live) \in Nat
  BY FS_CardinalityType DEF TypeOK, GaugeInv
<1>3. CASE BeginStream(r)
  <2>1. Live' = Live \cup {r} /\ gauge' = gauge + 1
    BY <1>1, <1>3 DEF BeginStream, Go, Live, ChatInv, Tables, Course, OwnRoute
  <2>2. IsFiniteSet(Live') /\ Cardinality(Live') <= Cardinality(Live) + 1 /\ Cardinality(Live') \in Nat
    <3>1. IsFiniteSet(Live \cup {r}) /\ Cardinality(Live \cup {r}) <= Cardinality(Live) + 1
      <4>1. IsFiniteSet(Live)
        BY DEF GaugeInv
      <4>2. /\ IsFiniteSet(Live \cup {r})
            /\ Cardinality(Live \cup {r}) = IF r \in Live THEN Cardinality(Live) ELSE Cardinality(Live) + 1
        BY <4>1, FS_AddElement
      <4> QED
        BY <1>2, <4>2
    <3>2. IsFiniteSet(Live') /\ Cardinality(Live') <= Cardinality(Live) + 1
      BY <2>1, <3>1
    <3> QED
      BY <3>2, FS_CardinalityType
  <2> QED
    BY <1>2, <2>1, <2>2 DEF GaugeInv
<1>4. CASE Release(r) /\ Streams(r)
  <2>1. r \in Live /\ Live' = Live \ {r} /\ gauge' = gauge - 1
    BY <1>1, <1>4 DEF Release, Go, Live, ChatInv, Tables
  <2>2. IsFiniteSet(Live') /\ Cardinality(Live') = Cardinality(Live) - 1 /\ Cardinality(Live') \in Nat
    BY <1>2, <2>1, FS_RemoveElement, FS_CardinalityType DEF GaugeInv
  <2> QED
    BY <1>2, <2>1, <2>2 DEF GaugeInv
<1>5. CASE ~BeginStream(r) /\ ~(Release(r) /\ Streams(r))
  <2>1. gauge' = gauge
    BY <1>5 DEF Step, Work, Authenticate, Admit, StartAudit, Call, CallFails, SendChunk, StreamEnds,
                StreamSeesDisconnect, StreamFails, LeaveStream, CloseStream, Settle, FinalizeAudit,
                Fail, FinalizeFailedAudit, Release, Cancel
  <2>2. Live' \subseteq Live
    <3>1. r \in Live' => r \in Live
      <4>1. CASE Cancel(r)
        BY <1>1, <4>1 DEF Cancel, Go, Live, ChatInv, Tables
      <4>2. CASE Work(r)
        <5>1. pc[r] # "handed"
          BY <1>5, <4>2
             DEF Work, Authenticate, Admit, StartAudit, Refuse, Call, CallFails, SendChunk, StreamEnds,
                 StreamSeesDisconnect, StreamFails, LeaveStream, CloseStream, Settle,
                 FinalizeAudit, Fail, FinalizeFailedAudit, Release, Go
        <5> QED
          BY <1>1, <4>2, <5>1, WorkMoves DEF Live, ChatInv, Course, OwnRoute
      <4> QED
        BY <4>1, <4>2 DEF Step
    <3> QED
      BY <1>1, <3>1 DEF Live
  <2>3. IsFiniteSet(Live') /\ Cardinality(Live') <= Cardinality(Live) /\ Cardinality(Live') \in Nat
    BY <2>2, FS_Subset, FS_CardinalityType DEF GaugeInv
  <2> QED
    BY <1>2, <2>1, <2>3 DEF GaugeInv
<1> QED
  BY <1>3, <1>4, <1>5

\* What is noted of a request is where it was.
LEMMA HitsTyped == ASSUME TypeOK, NEW r \in Requests, UNCHANGED hit \/ Hits(r)
                   PROVE  hit' \in [Requests -> SUBSET Places]
<1>1. hit \in [Requests -> SUBSET Places] /\ pc[r] \in Places
  BY DEF TypeOK
<1>2. hit[r] \cup {pc[r]} \in SUBSET Places
  BY <1>1
<1>3. hit' = hit \/ hit' = [hit EXCEPT ![r] = hit[r] \cup {pc[r]}]
  BY DEF Hits, Put
<1> QED
  BY <1>1, <1>2, <1>3

\* A settled charge is within the limit, as its reservation is.
LEMMA TokensTyped ==
    ASSUME TypeOK, NEW r \in Requests, NEW actual \in Nat, NEW all \in BOOLEAN,
           FinalizeTokens(r, actual, all)
    PROVE  tokens' \in [Requests -> [state : {"none", "reserved", "settled"},
                                     amount : 0 .. MaxTotalTokens]]
<1>1. Min({tokens[r].amount, actual}) \in 0 .. MaxTotalTokens
  <2>1. tokens[r].amount \in 0 .. MaxTotalTokens
    BY DEF TypeOK
  <2>2. tokens[r].amount \in Nat
    BY <2>1, TokenAssumption
  <2>3. /\ Min({tokens[r].amount, actual}) \in Nat
        /\ Min({tokens[r].amount, actual}) <= tokens[r].amount
    BY <2>2, Smaller
  <2> QED
    BY <2>1, <2>3, TokenAssumption
<1> QED
  BY <1>1, TokenAssumption DEF TypeOK, FinalizeTokens, Reservation, Put

\* What a step may put in the tables of plain values.
LEMMA StepPuts ==
    ASSUME NEW r \in Requests, Step(r)
    PROVE  /\ UNCHANGED pc \/ \E p \in Places : pc' = Put(pc, r, p)
           /\ UNCHANGED hit \/ Hits(r)
           /\ UNCHANGED status \/ \E s \in Statuses : status' = Put(status, r, s)
           /\ UNCHANGED chunks \/ SendChunk(r)
           /\ UNCHANGED slot \/ \E s \in {"held", "released"} : slot' = Put(slot, r, s)
           /\ UNCHANGED reply \/ \E a \in {"none", "ok", "error"} : reply' = Put(reply, r, a)
           /\ UNCHANGED outcome
              \/ \E o \in {"complete", "disconnected", "error"} : outcome' = Put(outcome, r, o)
           /\ UNCHANGED response \/ \E answer \in Responses : response' = Put(response, r, answer)
<1> USE DEF Go, Put, Ends, Refuse, LeaveStream, traffic, Places, Statuses
<1>1. CASE Authenticate(r) \/ Admit(r) \/ StartAudit(r)
  BY <1>1 DEF Authenticate, Admit, StartAudit
<1>2. CASE Call(r) \/ CallFails(r) \/ BeginStream(r) \/ SendChunk(r) \/ CloseStream(r)
  BY <1>2 DEF Call, CallFails, BeginStream, SendChunk, CloseStream
<1>3. CASE StreamEnds(r) \/ StreamSeesDisconnect(r) \/ StreamFails(r)
  BY <1>3 DEF StreamEnds, StreamSeesDisconnect, StreamFails
<1>4. CASE Settle(r) \/ Fail(r) \/ Release(r)
  BY <1>4 DEF Settle, Fail, Release
<1>5. CASE FinalizeAudit(r) \/ FinalizeFailedAudit(r)
  BY <1>5 DEF FinalizeAudit, FinalizeFailedAudit
<1>6. CASE Cancel(r)
  BY <1>6 DEF Cancel, Interrupted
<1> QED
  BY <1>1, <1>2, <1>3, <1>4, <1>5, <1>6 DEF Step, Work

\* What a step may do to the ledgers of its request.
LEMMA StepBooks ==
    ASSUME NEW r \in Requests, Step(r)
    PROVE  /\ \/ UNCHANGED tokens
              \/ /\ PlanAccepted(body[r])
                 /\ tokens' = Put(tokens, r,
                                  Reservation("reserved", Plan(r).estimated_total_tokens))
              \/ FinalizeTokens(r, UsageOf(r).total_tokens, ReleaseAll(r))
              \/ FinalizeTokens(r, 0, TRUE)
           /\ UNCHANGED usage \/ Record(r, UsageOf(r)) \/ Record(r, FailedUse(r))
           /\ UNCHANGED audit \/ audit' = Put(audit, r, NoUsage("accepted"))
              \/ (pc[r] \in {"auditFinal", "auditFailed"} /\ WriteAudit(r))
           /\ UNCHANGED events \/ (pc[r] \in {"auditFinal", "auditFailed"} /\ Emit(r))
<1> USE DEF Go, Refuse, LeaveStream, ledger
<1>1. CASE Authenticate(r) \/ Admit(r) \/ StartAudit(r)
  BY <1>1 DEF Authenticate, Admit, StartAudit
<1>2. CASE Call(r) \/ CallFails(r) \/ BeginStream(r) \/ SendChunk(r) \/ CloseStream(r)
  BY <1>2 DEF Call, CallFails, BeginStream, SendChunk, CloseStream
<1>3. CASE StreamEnds(r) \/ StreamSeesDisconnect(r) \/ StreamFails(r)
  BY <1>3 DEF StreamEnds, StreamSeesDisconnect, StreamFails
<1>4. CASE Settle(r) \/ Fail(r) \/ Release(r)
  BY <1>4 DEF Settle, Fail, Release, FailedUse
<1>5. CASE FinalizeAudit(r) \/ FinalizeFailedAudit(r)
  BY <1>5 DEF FinalizeAudit, FinalizeFailedAudit
<1>6. CASE Cancel(r)
  BY <1>6 DEF Cancel, Interrupted
<1> QED
  BY <1>1, <1>2, <1>3, <1>4, <1>5, <1>6 DEF Step, Work

\* Every step of a request keeps the types of the route.
LEMMA StepKeepsTypes ==
    ASSUME ChatInv, TypeOK, GaugeInv, NEW r \in Requests, Step(r)
    PROVE  TypeOK'
<1>1. gauge' \in Nat
  BY StepKeepsGauge
<1>2. \A q \in Requests : body'[q] \in Bodies[q]
  BY OthersStay DEF ChatInv, TypeOK
<1>3. pc' \in [Requests -> Places] /\ hit' \in [Requests -> SUBSET Places]
  <2>1. pc \in [Requests -> Places]
    BY DEF TypeOK
  <2>2. UNCHANGED pc \/ \E p \in Places : pc' = Put(pc, r, p)
    BY StepPuts
  <2>3. UNCHANGED hit \/ Hits(r)
    BY StepPuts
  <2>4. hit' \in [Requests -> SUBSET Places]
    BY <2>3, HitsTyped
  <2> QED
    BY <2>1, <2>2, <2>4 DEF Put
<1>4. status' \in [Requests -> Statuses]
  <2>1. status \in [Requests -> Statuses]
    BY DEF TypeOK
  <2>2. UNCHANGED status \/ \E s \in Statuses : status' = Put(status, r, s)
    BY StepPuts
  <2> QED
    BY <2>1, <2>2 DEF Put
<1>5. chunks' \in [Requests -> 0 .. MaxChunks]
  <2>1. chunks \in [Requests -> 0 .. MaxChunks]
    BY DEF TypeOK
  <2>2. UNCHANGED chunks \/ SendChunk(r)
    BY StepPuts
  <2> QED
    BY <2>1, <2>2, ChatAssumption DEF SendChunk, Put
<1>6. slot' \in [Requests -> {"none", "held", "released"}]
  <2>1. slot \in [Requests -> {"none", "held", "released"}]
    BY DEF TypeOK
  <2>2. UNCHANGED slot \/ \E s \in {"held", "released"} : slot' = Put(slot, r, s)
    BY StepPuts
  <2> QED
    BY <2>1, <2>2 DEF Put
<1>7. reply' \in [Requests -> {"none", "ok", "error"}]
  <2>1. reply \in [Requests -> {"none", "ok", "error"}]
    BY DEF TypeOK
  <2>2. UNCHANGED reply \/ \E a \in {"none", "ok", "error"} : reply' = Put(reply, r, a)
    BY StepPuts
  <2> QED
    BY <2>1, <2>2 DEF Put
<1>8. outcome' \in [Requests -> {"open", "complete", "disconnected", "error"}]
  <2>1. outcome \in [Requests -> {"open", "complete", "disconnected", "error"}]
    BY DEF TypeOK
  <2>2. UNCHANGED outcome \/ \E o \in {"complete", "disconnected", "error"} : outcome' = Put(outcome, r, o)
    BY StepPuts
  <2> QED
    BY <2>1, <2>2 DEF Put
<1>9. response' \in [Requests -> Responses \cup {[text |-> 0]}]
  <2>1. response \in [Requests -> Responses \cup {[text |-> 0]}]
    BY DEF TypeOK
  <2>2. UNCHANGED response \/ \E answer \in Responses : response' = Put(response, r, answer)
    BY StepPuts
  <2> QED
    BY <2>1, <2>2 DEF Put
<1>10. tokens' \in [Requests -> [state : {"none", "reserved", "settled"},
                                 amount : 0 .. MaxTotalTokens]]
  <2> DEFINE Reservations == [state : {"none", "reserved", "settled"}, amount : 0 .. MaxTotalTokens]
             new == Reservation("reserved", Plan(r).estimated_total_tokens)
  <2>1. tokens \in [Requests -> Reservations]
    BY DEF TypeOK
  <2>2. PlanAccepted(body[r]) => new \in Reservations
    <3>1. PlanAccepted(body[r]) => Plan(r).estimated_total_tokens \in 0 .. MaxTotalTokens
      BY PlanTyped, TokenAssumption
    <3> QED
      BY <3>1 DEF Reservation
  <2>3. ASSUME FinalizeTokens(r, UsageOf(r).total_tokens, ReleaseAll(r)) \/ FinalizeTokens(r, 0, TRUE)
        PROVE  tokens' \in [Requests -> Reservations]
    <3>1. UsageOf(r).total_tokens \in Nat
      BY UsageTyped DEF UsageRecords
    <3>2. ReleaseAll(r) \in BOOLEAN
      BY DEF ReleaseAll
    <3> QED
      BY <2>3, <3>1, <3>2, TokensTyped
  <2>4. \/ UNCHANGED tokens
        \/ PlanAccepted(body[r]) /\ tokens' = Put(tokens, r, new)
        \/ FinalizeTokens(r, UsageOf(r).total_tokens, ReleaseAll(r)) \/ FinalizeTokens(r, 0, TRUE)
    BY StepBooks
  <2> HIDE DEF Reservations, new
  <2>5. tokens' \in [Requests -> Reservations]
    BY <2>1, <2>2, <2>3, <2>4 DEF Put
  <2> QED
    BY <2>5 DEF Reservations
<1>11. usage' \in [Requests -> Seq(UsageRecords(Statuses))]
  <2>1. \A used \in UsageRecords(Statuses) :
            Append(usage[r], used) \in Seq(UsageRecords(Statuses))
    <3>1. usage[r] \in Seq(UsageRecords(Statuses))
      BY DEF TypeOK
    <3> QED
      BY <3>1, AppendProperties
  <2>2. \/ UNCHANGED usage
        \/ \E used \in UsageRecords(Statuses) : usage' = Put(usage, r, Append(usage[r], used))
    BY StepBooks, UsageTyped DEF Record
  <2>3. usage \in [Requests -> Seq(UsageRecords(Statuses))]
    BY DEF TypeOK
  <2> QED
    BY <2>1, <2>2, <2>3 DEF Put
<1>12. ASSUME pc[r] \in {"auditFinal", "auditFailed"}
       PROVE  Last(usage[r]) \in UsageRecords(Statuses)
  <2>1. usage[r] \in {<<UsageOf(r)>>, <<FailedUse(r)>>, <<UsageOf(r), FailedUse(r)>>}
    BY <1>12 DEF ChatInv, Course, Settled
  <2>2. Last(usage[r]) \in {UsageOf(r), FailedUse(r)}
    BY <2>1, LastOf
  <2> QED
    BY <2>2, UsageTyped
<1>13. audit' \in [Requests -> UsageRecords(Statuses \cup {"none", "accepted"})]
  <2>1. /\ UsageRecords(Statuses) \subseteq UsageRecords(Statuses \cup {"none", "accepted"})
        /\ NoUsage("accepted") \in UsageRecords(Statuses \cup {"none", "accepted"})
    BY DEF UsageRecords, NoUsage, Used
  <2>2. \/ UNCHANGED audit
        \/ \E v \in UsageRecords(Statuses \cup {"none", "accepted"}) : audit' = Put(audit, r, v)
    BY <1>12, <2>1, StepBooks DEF WriteAudit
  <2>3. audit \in [Requests -> UsageRecords(Statuses \cup {"none", "accepted"})]
    BY DEF TypeOK
  <2> QED
    BY <2>2, <2>3 DEF Put
<1>14. events' \in [Requests -> Seq(UsageRecords(Statuses))]
  <2>1. CASE pc[r] \in {"auditFinal", "auditFailed"} /\ Emit(r)
    <3>1. events[r] \in Seq(UsageRecords(Statuses))
      BY DEF TypeOK
    <3>2. Append(events[r], Last(usage[r])) \in Seq(UsageRecords(Statuses))
      BY <1>12, <2>1, <3>1, AppendProperties
    <3> QED
      BY <2>1, <3>2 DEF TypeOK, Emit, Put
  <2> QED
    BY <2>1, StepBooks DEF TypeOK
<1> QED
  BY <1>1, <1>2, <1>3, <1>4, <1>5, <1>6, <1>7, <1>8, <1>9, <1>10, <1>11, <1>13, <1>14 DEF TypeOK

\* The types of the layers and of the process.
LayerTypes ==
    /\ sentry_enabled \in BOOLEAN /\ broken \in BOOLEAN
    /\ exc \in [Requests -> {"none", "client", "server", "other"}]
    /\ {captured, answered, failed, refused} \subseteq SUBSET Requests
    /\ reports \in [Requests -> Nat]
    /\ code \in [Requests -> {"none", "200", "4xx", "5xx", "500"}]
    /\ counted \in [Requests -> Seq({"200", "4xx", "5xx", "500"})]

\* Every step of the gateway keeps them.
LEMMA StepKeepsLayerTypes ==
    ASSUME ChatInv, LayerTypes, [GatewayNext]_allVars
    PROVE  LayerTypes'
<1> USE DEF LayerTypes, reporting, answering, process, Put
<1>1. ASSUME NEW r \in Requests, NEW e, Capture(r, e)
      PROVE  {captured', refused'} \subseteq SUBSET Requests /\ reports' \in [Requests -> Nat]
  BY <1>1 DEF Capture
<1>2. ASSUME NEW r \in Requests, NEW c \in {"200", "4xx", "5xx", "500"}
      PROVE  /\ <<c>> \in Seq({"200", "4xx", "5xx", "500"})
             /\ Append(counted[r], c) \in Seq({"200", "4xx", "5xx", "500"})
  BY AppendProperties
<1>3. ASSUME NEW r \in Requests, RouteStep(r) PROVE LayerTypes'
  <2>1. UNCHANGED <<sentry_enabled, broken, code, counted, answered>>
    BY <1>3 DEF RouteStep
  <2>2. CASE ~Raises(r)
    BY <1>3, <2>1, <2>2 DEF RouteStep
  <2>3. CASE Raises(r)
    <3>1. PICK e \in Errors(r) : Raise(r, e)
      BY <1>3, <2>3 DEF RouteStep
    <3>2. e \in {"client", "server", "other"}
      BY <1>3, <2>3, RaisedErrors DEF RouteStep
    <3>3. {captured', refused'} \subseteq SUBSET Requests /\ reports' \in [Requests -> Nat]
      BY <1>1, <3>1 DEF Raise
    <3> QED
      BY <2>1, <3>1, <3>2, <3>3 DEF Raise
  <2> QED
    BY <2>2, <2>3
<1>4. ASSUME NEW r \in Requests, RouteCancelled(r) \/ StartResponse(r) \/ ReturnJson(r)
      PROVE  LayerTypes'
  <2>1. CASE RouteCancelled(r)
    BY <2>1 DEF RouteCancelled
  <2>2. CASE StartResponse(r)
    BY <2>2 DEF StartResponse, Respond
  <2>3. CASE ReturnJson(r)
    BY <2>3 DEF ReturnJson, Respond
  <2> QED
    BY <1>4, <2>1, <2>2, <2>3
<1>5. ASSUME NEW r \in Requests, HandleAppError(r) \/ HandleLate(r) PROVE LayerTypes'
  <2>1. {captured', refused'} \subseteq SUBSET Requests /\ reports' \in [Requests -> Nat]
    BY <1>1, <1>5 DEF HandleAppError, HandleLate
  <2>2. CASE HandleAppError(r)
    BY <2>1, <2>2 DEF HandleAppError, Respond
  <2>3. CASE HandleLate(r)
    BY <2>1, <2>3 DEF HandleLate, Respond
  <2> QED
    BY <1>5, <2>2, <2>3
<1>6. ASSUME NEW r \in Requests, HandleUnhandled(r) PROVE LayerTypes'
  <2>1. {captured', refused'} \subseteq SUBSET Requests /\ reports' \in [Requests -> Nat]
    BY <1>1, <1>6 DEF HandleUnhandled
  <2> QED
    BY <1>2, <1>6, <2>1 DEF HandleUnhandled, Respond, PassMetrics
<1>7. ASSUME NEW r \in Requests, CountResponse(r) \/ Deliver(r) \/ PassCancelled(r)
      PROVE  LayerTypes'
  <2>1. CASE CountResponse(r)
    <3>1. code[r] \in {"200", "4xx", "5xx", "500"} /\ counted' = [counted EXCEPT ![r] = <<code[r]>>]
      BY <2>1 DEF CountResponse
    <3>2. counted' \in [Requests -> Seq({"200", "4xx", "5xx", "500"})]
      BY <1>2, <3>1
    <3> QED
      BY <2>1, <3>2 DEF CountResponse
  <2>2. CASE Deliver(r)
    BY <2>2 DEF Deliver
  <2>3. CASE PassCancelled(r)
    BY <1>2, <2>3 DEF PassCancelled, PassMetrics
  <2> QED
    BY <1>7, <2>1, <2>2, <2>3
<1>8. CASE Startup \/ UseBatch \/ StopServing
  BY <1>8 DEF Startup, UseBatch, StopServing
<1>9. CASE Shutdown
  BY <1>9 DEF Shutdown, CloseClient
<1>10. CASE UNCHANGED allVars
  BY <1>10 DEF allVars, gateway
<1> QED
  BY <1>3, <1>4, <1>5, <1>6, <1>7, <1>8, <1>9, <1>10 DEF GatewayNext, RequestStep

\* Every variable of the route, its layers and the process keeps to its type, and no
\* reservation, and so no charge, is above the limit of a single request.
THEOREM GatewayTypeCorrect == GatewaySpec => []GatewayTypeOK
<1> DEFINE TypeInv == TypeOK /\ GaugeInv /\ LayerTypes
<1>1. GatewayInit => TypeInv
  <2> SUFFICES ASSUME GatewayInit PROVE TypeInv
    OBVIOUS
  <2>1. Live = {}
    BY DEF GatewayInit, Init, Live
  <2>2. GaugeInv
    BY <2>1, FS_EmptySet DEF GatewayInit, Init, GaugeInv
  <2>3. /\ tokens \in [Requests -> [state : {"none", "reserved", "settled"}, amount : 0 .. MaxTotalTokens]]
        /\ audit \in [Requests -> UsageRecords(Statuses \cup {"none", "accepted"})]
    BY TokenAssumption DEF GatewayInit, Init, Reservation, NoUsage, Used, UsageRecords
  <2>4. chunks \in [Requests -> 0 .. MaxChunks]
    BY ChatAssumption DEF GatewayInit, Init
  <2>5. TypeOK
    BY <2>3, <2>4, EmptySeq DEF GatewayInit, Init, TypeOK, Places, Statuses
  <2>6. LayerTypes
    BY EmptySeq DEF GatewayInit, LayerTypes
  <2> QED
    BY <2>2, <2>5, <2>6
<1>2. ChatInv /\ TypeInv /\ [GatewayNext]_allVars => TypeInv'
  <2> SUFFICES ASSUME ChatInv, TypeInv, [GatewayNext]_allVars PROVE TypeInv'
    OBVIOUS
  <2>1. LayerTypes'
    BY StepKeepsLayerTypes
  <2>2. CASE UNCHANGED vars
    <3>1. TypeOK'
      BY <2>2 DEF vars, TypeOK
    <3>2. Live' = Live /\ gauge' = gauge
      BY <2>2 DEF vars, Live, Streams
    <3> QED
      BY <2>1, <3>1, <3>2 DEF GaugeInv
  <2>3. ASSUME NEW r \in Requests, Step(r) PROVE TypeInv'
    BY <2>1, <2>3, StepKeepsGauge, StepKeepsTypes
  <2> QED
    BY <2>2, <2>3, GatewayMoves
<1>3. ClientInv /\ TypeInv => GatewayTypeOK
  BY DEF ClientInv, LayerTypes, GatewayTypeOK
<1>4. GatewayInit => ClientInv
  BY DEF GatewayInit, ClientInv, Clients
<1> HIDE DEF TypeInv
<1> QED
  BY <1>1, <1>2, <1>3, <1>4, ChatIsInvariant, StepKeepsClients, PTL DEF GatewaySpec
=============================================================================
