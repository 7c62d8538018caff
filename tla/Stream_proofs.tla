---------------------------- MODULE Stream_proofs ----------------------------
(***************************************************************************)
(* Theorems about Stream, for answers of any length.                       *)
(***************************************************************************)
EXTENDS Stream, SequenceTheorems, TLAPS

Numbers(n) == Relayed!Numbers(n)

\* The loop runs, or it waits for a line: nothing has cut the stream.
Turning == consumer \in {"checking", "yielded"} \/ wrapper = "waiting"

\* Where the loop is, the wrapper is at a matching place, and it was given what
\* the wrapper had.
Matching ==
    /\ consumer = "asking" => wrapper \in {"waiting", "draining", "closing"}
    /\ wrapper = "waiting" => consumer = "asking"
    /\ wrapper \in {"atLine", "atBeat"} => consumer \in {"checking", "yielded"}
    /\ consumer \in {"checking", "yielded"} =>
          \/ wrapper = "atLine" /\ event = "line"
          \/ wrapper = "atBeat" /\ event = "beat"
          \/ wrapper = "finished" /\ event = "done" /\ task = "end"
    /\ consumer = "closing" => wrapper \in {"draining", "closing"}
    /\ consumer \in {"finished", "aborted"} => wrapper = "finished"

\* What can have become of the task while the wrapper is somewhere.
Attended ==
    /\ wrapper = "atLine" => task = "line"
    /\ wrapper \in {"waiting", "atBeat"} =>
          task \in {"scheduled", "running", "line", "end", "error"}
    /\ wrapper = "draining" => task \in {"revoked", "interrupted", "cancelled", "error"}
    /\ task \in {"end", "error"} => up = "closed"

\* Which streams were cut, and how often.
Cutting ==
    /\ Turning => status = "completed" /\ cancels = 0
    /\ wrapper \in {"draining", "closing"} =>
          /\ status # "completed" \/ cancels > 0
          /\ consumer = "asking" => cancels = 1
    /\ wrapper # "finished" => cancels < 2

Control == Matching /\ Attended /\ Cutting

\* The lines that the wrapper has handed on: all but one that it still waits for.
Handed == IF task = "line" /\ wrapper \in {"waiting", "atBeat"} THEN pos - 1 ELSE pos

Marked == \E i \in 1 .. Handed : script[i] = "done"

\* Until it is cut, a stream has given the lines handed on, in order; the last of
\* them when its event is through the loop; and it knows whether [DONE] was there.
Flow ==
    /\ event = "line" \/ task = "line" => pos > 0
    /\ task = "end" => pos = Len(script)
    /\ Turning => sent_done = Marked
    /\ Turning =>
          CASE consumer = "checking" /\ event = "line" -> sent = Numbers(pos - 1)
            [] consumer = "yielded" /\ event = "done"  -> sent = Append(Numbers(pos), 0)
            [] OTHER                                   -> sent = Numbers(Handed)
    /\ Turning /\ wrapper = "finished" => ~sent_done

Inv == TypeOK /\ Control /\ Flow /\ NothingLeftBehind /\ AccountedAsSent

-----------------------------------------------------------------------------
(* The control of the stream, and what is left behind.                     *)

\* Each step keeps the loop, the wrapper and the task at matching places.
LEMMA ControlKept ==
    ASSUME TypeOK, Control, NothingLeftBehind, [Next]_vars
    PROVE  Control' /\ NothingLeftBehind'
<1> USE DEF TypeOK, Control, Matching, Attended, Cutting, Turning, NothingLeftBehind,
            Tasks, Live
<1>1. CASE Start
  BY <1>1 DEF Start, Reads, fixed, output
<1>2. CASE ReadLine
  BY <1>2 DEF ReadLine, Reads, fixed, output
<1>3. CASE ReadEnds
  BY <1>3 DEF ReadEnds, Reads, fixed, output
<1>4. CASE Cancelled
  BY <1>4 DEF Cancelled, Reads, fixed, output, upstream
<1>5. CASE GiveLine
  BY <1>5 DEF GiveLine, Give, fixed, output, upstream
<1>6. CASE Timeout
  BY <1>6 DEF Timeout, Give, fixed, output, upstream
<1>7. CASE WrapperEnds
  BY <1>7 DEF WrapperEnds, Give, Finish, fixed, output, upstream
<1>8. CASE WrapperFails
  BY <1>8 DEF WrapperFails, Finish, fixed, output, upstream
<1>9. CASE Drain
  BY <1>9 DEF Drain, CleanUpFails, Finish, fixed, output, upstream
<1>10. CASE CloseUpstream
  BY <1>10 DEF CloseUpstream, CleanedUp, CleanUpFails, Finish, fixed, output
<1>11. CASE Disconnected
  BY <1>11 DEF Disconnected, LeaveLoop, LeaveWrapper, fixed, upstream
<1>12. CASE Pass
  BY <1>12 DEF Pass, fixed, upstream
<1>13. CASE Resume
  BY <1>13 DEF Resume, NextTask, Finish, fixed, upstream, output
<1>14. CASE Cancel
  BY <1>14 DEF Cancel, LeaveLoop, LeaveWrapper, upstream, output
<1>15. CASE CancelAgain
  BY <1>15 DEF CancelAgain, output
<1>16. CASE Leave
  BY <1>16 DEF Leave, fixed, upstream, output
<1>17. CASE UNCHANGED vars
  BY <1>17 DEF vars, fixed, upstream, output
<1> QED
  BY <1>1, <1>2, <1>3, <1>4, <1>5, <1>6, <1>7, <1>8, <1>9, <1>10, <1>11, <1>12, <1>13,
     <1>14, <1>15, <1>16, <1>17 DEF Next, Read, Wrapper, Loop

-----------------------------------------------------------------------------
(* Types.                                                                  *)

\* A sequence with one more element has one more element in its set.
LEMMA ToSetOfAppend ==
    ASSUME NEW S, NEW s \in Seq(S), NEW e \in S
    PROVE  ToSet(Append(s, e)) = ToSet(s) \cup {e}
<1>1. DOMAIN Append(s, e) = 1 .. Len(s) + 1 /\ DOMAIN s = 1 .. Len(s) /\ Len(s) \in Nat
  BY LenProperties, AppendProperties
<1>2. /\ \A i \in 1 .. Len(s) : Append(s, e)[i] = s[i]
      /\ Append(s, e)[Len(s) + 1] = e
  BY AppendProperties
<1>3. ToSet(Append(s, e)) \subseteq ToSet(s) \cup {e}
  <2> SUFFICES ASSUME NEW i \in 1 .. Len(s) + 1
               PROVE  Append(s, e)[i] \in ToSet(s) \cup {e}
    BY <1>1 DEF ToSet
  <2>1. i \in 1 .. Len(s) \/ i = Len(s) + 1
    BY <1>1
  <2> QED
    BY <2>1, <1>1, <1>2 DEF ToSet
<1>4. e \in ToSet(Append(s, e))
  <2>1. Len(s) + 1 \in DOMAIN Append(s, e)
    BY <1>1
  <2> QED
    BY <2>1, <1>2 DEF ToSet
<1>5. ASSUME NEW i \in 1 .. Len(s) PROVE s[i] \in ToSet(Append(s, e))
  <2>1. i \in DOMAIN Append(s, e)
    BY <1>1
  <2> QED
    BY <2>1, <1>2 DEF ToSet
<1> QED
  BY <1>1, <1>3, <1>4, <1>5 DEF ToSet

\* What an event of the loop adds to what the client was given.
GivenNow == IF event = "line" THEN pos ELSE 0

\* yield of the event the loop holds: a line or [DONE] is sent and its text
\* accounted, a heartbeat is neither.
LEMMA PassGives ==
    ASSUME TypeOK, Control, Pass
    PROVE  IF event = "beat" THEN sent' = sent /\ text' = text
                             ELSE /\ sent' = Append(sent, GivenNow)
                                  /\ text' = text \cup Deltas
BY DEF Pass, Control, Matching, GivenNow, Deltas, TypeOK

\* The state keeps its types.
LEMMA TypesKept ==
    ASSUME TypeOK, Control, Flow, [Next]_vars
    PROVE  TypeOK'
<1>0. Len(script) \in Nat
  BY LenProperties DEF TypeOK
<1> USE DEF TypeOK, Tasks
<1>1. CASE Start
  BY <1>1 DEF Start, Reads, fixed, output
<1>2. CASE ReadLine
  BY <1>0, <1>2 DEF ReadLine, Reads, fixed, output
<1>3. CASE ReadEnds
  BY <1>3 DEF ReadEnds, Reads, fixed, output
<1>4. CASE Cancelled
  <2>1. /\ task' \in Tasks /\ up' \in {"new", "open", "closed"} /\ pos' = pos
        /\ UNCHANGED <<fixed, wrapper, sent_done, event, consumer, output, gone>>
    BY <1>4 DEF Cancelled, Reads, upstream
  <2> QED
    BY <2>1 DEF fixed, output
<1>5. CASE GiveLine
  BY <1>5 DEF GiveLine, Give, fixed, output, upstream
<1>6. CASE Timeout
  BY <1>6 DEF Timeout, Give, fixed, output, upstream
<1>7. CASE WrapperEnds
  BY <1>7 DEF WrapperEnds, Give, Finish, fixed, output, upstream
<1>8. CASE WrapperFails
  BY <1>8 DEF WrapperFails, Finish, fixed, output, upstream
<1>9. CASE Drain
  BY <1>9 DEF Drain, CleanUpFails, Finish, fixed, output, upstream
<1>10. CASE CloseUpstream
  BY <1>10 DEF CloseUpstream, CleanedUp, CleanUpFails, Finish, fixed, output
<1>11. CASE Disconnected
  BY <1>11 DEF Disconnected, LeaveLoop, LeaveWrapper, fixed, upstream
<1>12. CASE Pass
  <2>1. UNCHANGED <<fixed, upstream, task, wrapper, sent_done, event, status, gone>>
        /\ consumer' = "yielded"
    BY <1>12 DEF Pass
  <2>2. sent' = sent \/ sent' = Append(sent, GivenNow)
    BY <1>12, PassGives
  <2>3. GivenNow \in 0 .. Len(script)
    BY <1>0 DEF GivenNow
  <2>4. sent' \in Seq(0 .. Len(script))
    <3> DEFINE S == 0 .. Len(script)
    <3>1. sent \in Seq(S) /\ GivenNow \in S
      BY <2>3
    <3> HIDE DEF S
    <3>2. Append(sent, GivenNow) \in Seq(S)
      BY <3>1, AppendProperties
    <3>3. sent' \in Seq(S)
      BY <2>2, <3>1, <3>2
    <3> QED
      BY <3>3 DEF S
  <2>5. Deltas \subseteq 1 .. Len(script)
    BY <1>0 DEF Deltas, Flow
  <2>6. text' \in SUBSET (1 .. Len(script))
    BY <1>12, <2>5 DEF Pass
  <2> QED
    BY <2>1, <2>4, <2>6 DEF fixed, upstream
<1>13. CASE Resume
  BY <1>13 DEF Resume, NextTask, Finish, fixed, upstream, output
<1>14. CASE Cancel
  BY <1>14 DEF Cancel, LeaveLoop, LeaveWrapper, upstream, output
<1>15. CASE CancelAgain
  BY <1>15 DEF CancelAgain, output, Control, Cutting
<1>16. CASE Leave
  BY <1>16 DEF Leave, fixed, upstream, output
<1>17. CASE UNCHANGED vars
  BY <1>17 DEF vars, fixed, upstream, output
<1> QED
  BY <1>1, <1>2, <1>3, <1>4, <1>5, <1>6, <1>7, <1>8, <1>9, <1>10, <1>11, <1>12, <1>13,
     <1>14, <1>15, <1>16, <1>17 DEF Next, Read, Wrapper, Loop

\* The accounted text stays that of what was given.
LEMMA AccountKept ==
    ASSUME TypeOK, Control, Flow, AccountedAsSent, [Next]_vars
    PROVE  AccountedAsSent'
<1>1. CASE Pass
  <2>1. script' = script
    BY <1>1 DEF Pass, fixed
  <2>2. CASE event = "beat"
    BY <1>1, <2>1, <2>2, PassGives DEF AccountedAsSent
  <2>3. CASE event # "beat"
    <3>1. GivenNow \in 0 .. Len(script)
      BY LenProperties DEF GivenNow, TypeOK
    <3>2. ToSet(sent') = ToSet(sent) \cup {GivenNow} /\ text' = text \cup Deltas
      <4> DEFINE S == 0 .. Len(script)
      <4>1. sent \in Seq(S) /\ GivenNow \in S
        BY <3>1 DEF TypeOK
      <4> HIDE DEF S
      <4>2. ToSet(Append(sent, GivenNow)) = ToSet(sent) \cup {GivenNow}
        BY <4>1, ToSetOfAppend
      <4> QED
        BY <1>1, <2>3, <4>2, PassGives
    <3>3. Deltas = {n \in {GivenNow} : n > 0 /\ script[n] = "delta"}
      BY <1>1, <2>3 DEF Deltas, GivenNow, Flow, TypeOK
    <3> QED
      BY <2>1, <3>2, <3>3 DEF AccountedAsSent
  <2> QED
    BY <2>2, <2>3
<1>2. CASE UNCHANGED <<script, text, sent>>
  BY <1>2 DEF AccountedAsSent
<1>3. Pass \/ UNCHANGED <<script, text, sent>>
  BY DEF Next, Read, Wrapper, Loop, Start, ReadLine, ReadEnds, Reads, Cancelled, GiveLine,
         Timeout, Give, WrapperEnds, WrapperFails, Finish, Drain, CleanUpFails,
         CloseUpstream, CleanedUp, Disconnected, Resume, Cancel, CancelAgain, Leave,
         fixed, upstream, output, vars
<1> QED
  BY <1>1, <1>2, <1>3

-----------------------------------------------------------------------------
(* The flow of lines.                                                      *)

\* The numbers of the first n lines.
LEMMA NumbersType == ASSUME NEW n \in Nat
                     PROVE  Numbers(n) \in Seq(Nat) /\ Len(Numbers(n)) = n
<1>1. Numbers(n) \in Seq(Nat)
  BY IsASeq DEF Numbers, Relayed!Numbers
<1>2. DOMAIN Numbers(n) = 1 .. n
  BY DEF Numbers, Relayed!Numbers
<1> QED
  BY <1>1, <1>2, LenProperties

\* The next line follows on those before.
LEMMA NumbersGrow == ASSUME NEW n \in Nat
                     PROVE  Append(Numbers(n), n + 1) = Numbers(n + 1)
<1> DEFINE s == Append(Numbers(n), n + 1)
           t == Numbers(n + 1)
<1>1. s \in Seq(Nat) /\ t \in Seq(Nat) /\ Len(s) = n + 1 /\ Len(t) = n + 1
  BY NumbersType, AppendProperties
<1>2. ASSUME NEW i \in 1 .. n + 1 PROVE s[i] = t[i]
  <2>1. t[i] = i
    BY DEF Numbers, Relayed!Numbers
  <2>2. CASE i = n + 1
    BY <2>1, <2>2, NumbersType, AppendProperties
  <2>3. CASE i \in 1 .. n
    <3>1. s[i] = Numbers(n)[i]
      BY <2>3, NumbersType, AppendProperties
    <3> QED
      BY <2>1, <2>3, <3>1 DEF Numbers, Relayed!Numbers
  <2>4. i = n + 1 \/ i \in 1 .. n
    OBVIOUS
  <2> QED
    BY <2>2, <2>3, <2>4
<1> QED
  BY <1>1, <1>2, SeqEqual

\* A step that leaves alone what Flow is about keeps it.
LEMMA FlowStays ==
    ASSUME TypeOK, Flow,
           UNCHANGED <<script, pos, event, sent>>,
           task' = task \/ task' \notin {"line", "end"},
           Turning' => /\ Turning
                       /\ sent_done' = sent_done /\ consumer' = consumer
                       /\ Handed' = Handed
                       /\ wrapper' = "finished" => wrapper = "finished"
    PROVE  Flow'
<1>1. CASE Turning'
  <2>1. Marked' = Marked
    BY <1>1 DEF Marked
  <2> QED
    BY <1>1, <2>1 DEF Flow, Numbers
<1>2. CASE ~Turning'
  BY <1>2 DEF Flow
<1> QED
  BY <1>1, <1>2

\* A cut stream owes nothing more to the flow.
LEMMA FlowCut ==
    ASSUME TypeOK, Flow, UNCHANGED <<script, pos, event>>, ~Turning',
           task' = task \/ task' \notin {"line", "end"}
    PROVE  Flow'
BY DEF Flow

\* Each step hands the lines on in order, once each.
LEMMA FlowKept ==
    ASSUME TypeOK, Control, Control', NothingLeftBehind, Flow, [Next]_vars
    PROVE  Flow'
<1>0. Len(script) \in Nat
  BY LenProperties DEF TypeOK
<1>1. CASE Start
  <2>1. /\ UNCHANGED <<script, pos, event, sent, sent_done, consumer, wrapper>>
        /\ task = "scheduled" /\ task' = "running"
    BY <1>1 DEF Start, Reads, fixed, output
  <2> QED
    BY <2>1, FlowStays DEF Turning, Handed
<1>2. CASE ReadLine
  <2>1. /\ UNCHANGED <<script, event, sent, sent_done, consumer, wrapper>>
        /\ task = "running" /\ task' = "line" /\ pos' = pos + 1
    BY <1>2 DEF ReadLine, Reads, fixed, output
  <2>2. wrapper \in {"waiting", "atBeat"}
    BY <2>1 DEF Control, Attended, NothingLeftBehind, Live, TypeOK
  <2>a. /\ Turning /\ Turning'
        /\ ~(consumer = "checking" /\ event = "line")
        /\ ~(consumer = "yielded" /\ event = "done")
    BY <2>1, <2>2 DEF Control, Matching, Turning
  <2>3. Handed = pos /\ Handed' = pos
    BY <2>1, <2>2 DEF Handed, TypeOK
  <2>4. Marked' = Marked
    BY <2>1, <2>3 DEF Marked
  <2> QED
    BY <2>1, <2>2, <2>a, <2>3, <2>4, <1>0 DEF Flow, TypeOK, Numbers
<1>3. CASE ReadEnds
  <2>1. /\ UNCHANGED <<script, pos, event, sent, sent_done, consumer, wrapper>>
        /\ task = "running"
        /\ (task' = "end" /\ pos = Len(script)) \/ task' = "error"
    BY <1>3 DEF ReadEnds, Reads, fixed, output
  <2>2. Handed' = Handed /\ (Turning' <=> Turning)
    BY <2>1 DEF Handed, Turning
  <2>3. Marked' = Marked
    BY <2>1, <2>2 DEF Marked
  <2> QED
    BY <2>1, <2>2, <2>3 DEF Flow, Numbers
<1>4. CASE Cancelled
  <2>1. /\ UNCHANGED <<script, pos, event, sent, sent_done, consumer, wrapper>>
        /\ task \in {"revoked", "interrupted"} /\ task' \in {"cancelled", "error"}
    BY <1>4 DEF Cancelled, Reads, fixed, output, upstream
  <2> QED
    BY <2>1, FlowStays DEF Turning, Handed
<1>5. CASE GiveLine
  <2>1. /\ UNCHANGED <<script, pos, sent, task>>
        /\ task = "line" /\ wrapper = "waiting" /\ wrapper' = "atLine"
        /\ event' = "line" /\ consumer = "asking" /\ consumer' = "checking"
        /\ sent_done' = (sent_done \/ script[pos] = "done")
    BY <1>5 DEF GiveLine, Give, fixed, output, upstream
  <2>2. Turning /\ Turning' /\ Handed = pos - 1 /\ Handed' = pos /\ pos > 0
    BY <2>1 DEF Turning, Handed, Flow
  <2>3. Marked' = (Marked \/ script[pos] = "done")
    <3>1. 1 .. pos = (1 .. pos - 1) \cup {pos}
      BY <2>2 DEF TypeOK
    <3> QED
      BY <2>1, <2>2, <3>1 DEF Marked
  <2> QED
    BY <2>1, <2>2, <2>3 DEF Flow, Numbers
<1>6. CASE Timeout
  <2>1. /\ UNCHANGED <<script, pos, sent, task, sent_done>>
        /\ wrapper = "waiting" /\ wrapper' = "atBeat"
        /\ event' = "beat" /\ consumer = "asking" /\ consumer' = "checking"
    BY <1>6 DEF Timeout, Give, fixed, output, upstream
  <2>2. Turning /\ Turning' /\ Handed' = Handed
    BY <2>1 DEF Turning, Handed
  <2>3. Marked' = Marked
    BY <2>1, <2>2 DEF Marked
  <2> QED
    BY <2>1, <2>2, <2>3 DEF Flow, Numbers
<1>7. CASE WrapperEnds
  <2>1. /\ UNCHANGED <<script, pos, sent, task, sent_done>>
        /\ task = "end" /\ wrapper = "waiting" /\ wrapper' = "finished"
        /\ consumer = "asking"
        /\ \/ event' = "done" /\ consumer' = "checking" /\ ~sent_done
           \/ event' = event /\ consumer' = "finished"
    BY <1>7 DEF WrapperEnds, Give, Finish, AppendDone, fixed, output, upstream, Control,
                Matching
  <2>2. Turning /\ Handed' = Handed
    BY <2>1 DEF Turning, Handed
  <2>3. Marked' = Marked
    BY <2>1, <2>2 DEF Marked
  <2> QED
    BY <2>1, <2>2, <2>3 DEF Flow, Numbers, Turning
<1>8. CASE WrapperFails
  BY <1>8, FlowCut DEF WrapperFails, Finish, fixed, upstream, Turning
<1>9. CASE Drain
  <2>1. /\ UNCHANGED <<script, pos, event, sent, sent_done, task>>
        /\ wrapper = "draining" /\ ~Turning'
    BY <1>9 DEF Drain, CleanUpFails, Finish, fixed, upstream, output, Turning, Control,
                Matching
  <2> QED
    BY <2>1, FlowCut
<1>10. CASE CloseUpstream
  BY <1>10, FlowCut DEF CloseUpstream, CleanedUp, CleanUpFails, Finish, fixed, output,
                        Turning
<1>11. CASE Disconnected
  BY <1>11, FlowCut DEF Disconnected, LeaveLoop, LeaveWrapper, fixed, upstream, Turning
<1>12. CASE Pass
  <2>1. /\ UNCHANGED <<script, pos, event, task, wrapper, sent_done>>
        /\ consumer = "checking" /\ consumer' = "yielded"
    BY <1>12 DEF Pass, fixed, upstream
  <2>2. Turning /\ Turning' /\ Handed' = Handed
    BY <2>1 DEF Turning, Handed
  <2>3. Marked' = Marked
    BY <2>1, <2>2 DEF Marked
  <2>4. CASE event = "line"
    <3>1. sent = Numbers(pos - 1) /\ sent' = Append(sent, pos) /\ pos > 0 /\ pos \in Nat
      BY <1>12, <2>1, <2>2, <2>4, PassGives DEF Flow, GivenNow, TypeOK
    <3>2. sent' = Numbers(pos)
      <4>1. pos - 1 \in Nat /\ pos = (pos - 1) + 1
        BY <3>1
      <4>2. Append(Numbers(pos - 1), (pos - 1) + 1) = Numbers((pos - 1) + 1)
        BY <4>1, NumbersGrow
      <4> QED
        BY <3>1, <4>1, <4>2
    <3>3. Handed = pos
      BY <2>1, <2>4 DEF Control, Matching, Handed
    <3> QED
      BY <2>1, <2>2, <2>3, <2>4, <3>2, <3>3 DEF Flow, Numbers
  <2>5. CASE event = "done"
    <3>1. sent = Numbers(Handed) /\ sent' = Append(sent, 0)
      BY <1>12, <2>1, <2>2, <2>5, PassGives DEF Flow, GivenNow
    <3>2. Handed = pos
      BY <2>1, <2>5 DEF Control, Matching, Handed
    <3> QED
      BY <2>1, <2>2, <2>3, <2>5, <3>1, <3>2 DEF Flow, Numbers
  <2>6. CASE event = "beat"
    <3>1. sent = Numbers(Handed) /\ sent' = sent
      BY <1>12, <2>1, <2>2, <2>6, PassGives DEF Flow
    <3> QED
      BY <2>1, <2>2, <2>3, <2>6, <3>1 DEF Flow, Numbers
  <2> QED
    BY <2>1, <2>4, <2>5, <2>6 DEF Control, Matching
<1>13. CASE Resume
  <2>1. UNCHANGED <<script, pos, sent, sent_done, event>> /\ consumer = "yielded"
    BY <1>13 DEF Resume, Finish, fixed, upstream, output
  <2>2. CASE event = "done"
    <3>1. consumer' = "finished" /\ task' = task /\ wrapper' = wrapper
      BY <1>13, <2>2 DEF Resume, Finish
    <3>2. ~Turning'
      BY <2>1, <2>2, <3>1 DEF Turning, Control, Matching
    <3> QED
      BY <2>1, <3>1, <3>2, FlowCut
  <2>3. CASE event # "done"
    <3>1. /\ consumer' = "asking" /\ wrapper' = "waiting" /\ task' = NextTask
          /\ wrapper \in {"atLine", "atBeat"}
      BY <1>13, <2>1, <2>3 DEF Resume, Control, Matching
    <3>2. Turning /\ Turning'
      BY <2>1, <3>1 DEF Turning
    <3>3. Handed' = Handed /\ (task' = task \/ task' = "scheduled")
      BY <2>1, <3>1 DEF NextTask, Handed, Control, Attended
    <3>4. Marked' = Marked
      BY <2>1, <3>3 DEF Marked
    <3> QED
      BY <2>1, <2>3, <3>1, <3>2, <3>3, <3>4 DEF Flow, Numbers
  <2> QED
    BY <2>2, <2>3
<1>14. CASE Cancel
  <2>1. UNCHANGED <<script, pos, event>> /\ (task' = task \/ task' \in {"revoked", "interrupted"})
        /\ wrapper' # "waiting" /\ consumer' \notin {"checking", "yielded"}
    BY <1>14 DEF Cancel, LeaveLoop, LeaveWrapper, upstream
  <2> QED
    BY <2>1, FlowCut DEF Turning
<1>15. CASE CancelAgain
  BY <1>15, FlowCut DEF CancelAgain, output, Turning
<1>16. CASE Leave
  BY <1>16, FlowStays DEF Leave, fixed, upstream, output, Turning, Handed
<1>17. CASE UNCHANGED vars
  BY <1>17, FlowStays DEF vars, fixed, upstream, output, Turning, Handed
<1> QED
  BY <1>1, <1>2, <1>3, <1>4, <1>5, <1>6, <1>7, <1>8, <1>9, <1>10, <1>11, <1>12, <1>13,
     <1>14, <1>15, <1>16, <1>17 DEF Next, Read, Wrapper, Loop

-----------------------------------------------------------------------------
(* The theorems.                                                           *)

\* Nothing is given at first.
LEMMA NoNumbers == Numbers(0) = <<>>
<1>1. Numbers(0) \in Seq(Nat) /\ Len(Numbers(0)) = 0
  BY NumbersType
<1> QED
  BY <1>1, EmptySeq

\* An answer of vLLM is a sequence of deltas and [DONE].
LEMMA AnswersAreLines == ASSUME NEW a \in Answers
                         PROVE  a \in Seq({"delta", "done"})
<1>1. PICK b \in UNION {[1 .. n -> {"delta"}] : n \in 0 .. MaxLines},
           d \in {<<>>, <<"done">>} : a = b \o d
  BY DEF Answers
<1>2. b \in Seq({"delta", "done"})
  <2>1. PICK n \in 0 .. MaxLines : b \in [1 .. n -> {"delta"}]
    OBVIOUS
  <2>a. n \in Nat
    BY StreamAssumption
  <2>2. \A i \in 1 .. n : b[i] \in {"delta", "done"}
    BY <2>1
  <2>3. b = [i \in 1 .. n |-> b[i]]
    BY <2>1
  <2>4. [i \in 1 .. n |-> b[i]] \in Seq({"delta", "done"})
    BY <2>a, <2>2, IsASeq
  <2> QED
    BY <2>3, <2>4
<1>3. d \in Seq({"delta", "done"})
  <2>1. <<"done">> \in Seq({"delta", "done"}) /\ <<>> \in Seq({"delta", "done"})
    OBVIOUS
  <2> QED
    BY <2>1
<1> QED
  BY <1>1, <1>2, <1>3, ConcatProperties

\* The invariant holds when the response begins ...
LEMMA InvInit == Init => Inv
<1> SUFFICES ASSUME Init PROVE Inv
  OBVIOUS
<1>1. script \in Seq({"delta", "done"}) /\ Len(script) \in Nat
  BY AnswersAreLines, LenProperties DEF Init
<1>2. sent \in Seq(0 .. Len(script)) /\ DOMAIN sent = {} /\ sent = Numbers(0)
  BY EmptySeq, NoNumbers DEF Init
<1>a. /\ pos = 0 /\ up = "new" /\ task = "scheduled" /\ wrapper = "waiting"
      /\ sent_done = FALSE /\ event = "none" /\ consumer = "asking"
      /\ status = "completed" /\ text = {} /\ gone = FALSE /\ cancels = 0
  BY DEF Init
<1>3. TypeOK
  <2>1. pos \in 0 .. Len(script) /\ text \in SUBSET (1 .. Len(script))
    BY <1>1, <1>a
  <2>2. sent \in Seq(0 .. Len(script))
    BY <1>2
  <2>3. task \in Tasks /\ cancels \in 0 .. 2
    BY <1>a DEF Tasks
  <2>5. sent_done \in BOOLEAN /\ gone \in BOOLEAN
    BY <1>a
  <2>4. /\ up \in {"new", "open", "closed"}
        /\ wrapper \in {"waiting", "atLine", "atBeat", "draining", "closing", "finished"}
        /\ event \in {"none", "line", "beat", "done"}
        /\ consumer \in {"asking", "checking", "yielded", "closing", "finished",
                         "aborted"}
        /\ status \in {"completed", "failed", "client_disconnected"}
    BY <1>a
  <2> QED
    BY <1>1, <2>1, <2>2, <2>3, <2>4, <2>5 DEF TypeOK
<1>4. Control
  BY DEF Init, Control, Matching, Attended, Cutting, Turning
<1>5. Flow
  <2>1. Handed = 0
    BY DEF Init, Handed
  <2>2. Marked = FALSE
    BY <2>1 DEF Marked
  <2>3. sent_done = Marked
    BY <1>a, <2>2
  <2> QED
    BY <1>2, <1>a, <2>1, <2>3 DEF Flow, Turning
<1>6. NothingLeftBehind
  BY DEF Init, NothingLeftBehind
<1>7. AccountedAsSent
  <2>1. ToSet(sent) = {}
    BY <1>2 DEF ToSet
  <2> QED
    BY <2>1 DEF Init, AccountedAsSent
<1> QED
  BY <1>3, <1>4, <1>5, <1>6, <1>7 DEF Inv

\* ... and every step keeps it.
LEMMA InvNext == Inv /\ [Next]_vars => Inv'
<1> SUFFICES ASSUME Inv, [Next]_vars PROVE Inv'
  OBVIOUS
<1>1. TypeOK /\ Control /\ Flow /\ NothingLeftBehind /\ AccountedAsSent
  BY DEF Inv
<1>2. Control' /\ NothingLeftBehind'
  BY <1>1, ControlKept
<1>3. TypeOK' /\ Flow' /\ AccountedAsSent'
  BY <1>1, <1>2, TypesKept, FlowKept, AccountKept
<1> QED
  BY <1>2, <1>3 DEF Inv

\* The inductive invariant: where the loop, the wrapper and the task are, what was
\* given of what was read, and the properties that follow them along.
LEMMA InvAlways == Spec => []Inv
BY InvInit, InvNext, PTL DEF Spec

\* The state of a stream keeps its types, for answers of any length; no more than
\* two cancellations ever reach it.
THEOREM TypeCorrect == Spec => []TypeOK
<1>1. Inv => TypeOK
  BY DEF Inv
<1> QED
  BY <1>1, InvAlways, PTL

\* Wherever stream_with_heartbeats() is cut off, the task that reads from vLLM is
\* done before its upstream is closed, and a clean-up that runs to its end has
\* closed the connection.
THEOREM LeavesNothingBehind == Spec => []NothingLeftBehind
<1>1. Inv => NothingLeftBehind
  BY DEF Inv
<1> QED
  BY <1>1, InvAlways, PTL

\* completion_text holds the deltas that were passed on, and no others: with
\* TypeCorrect and the matching places of loop, wrapper and task, because a step of
\* the loop accounts the line it passes on and a heartbeat accounts none.
THEOREM AccountsAsSent == Spec => []AccountedAsSent
<1>1. Inv => AccountedAsSent
  BY DEF Inv
<1> QED
  BY <1>1, InvAlways, PTL

-----------------------------------------------------------------------------
(* The stream implements Relay.                                            *)

\* A step that moves no line stutters, or cuts the stream off.
LEMMA StutterOrCut ==
    ASSUME UNCHANGED <<script, pos, sent>>,
           Ending' = Ending \/ (Ending = "open" /\ Ending' = "cut")
    PROVE  [Relayed!Next]_(Relayed!vars)
BY DEF Relayed!Next, Relayed!Cut, Relayed!vars

\* Once all lines are handed on, the wrapper knows whether [DONE] was one of them.
LEMMA MarkedAtEnd == ASSUME TypeOK, Handed = Len(script)
                     PROVE  Marked <=> "done" \in Relayed!ToSet(script)
<1>1. DOMAIN script = 1 .. Len(script)
  BY LenProperties DEF TypeOK
<1> QED
  BY <1>1 DEF Marked, Relayed!ToSet

\* A stream that nothing has cut is open for the client.
LEMMA TurningIsOpen == ASSUME Control, Turning
                       PROVE  /\ Ending = "open"
                              /\ status = "completed" /\ cancels = 0
BY DEF Control, Matching, Cutting, Turning, Ending

\* Each step gives the client what Relay may give it, or nothing.
LEMMA StepImplemented ==
    ASSUME Inv, Inv', [Next]_vars
    PROVE  [Relayed!Next]_(Relayed!vars)
<1>0. TypeOK /\ Control /\ Flow /\ NothingLeftBehind /\ TypeOK' /\ Control' /\ Flow'
  BY DEF Inv
<1>1. CASE Start \/ ReadEnds \/ Cancelled \/ Leave \/ UNCHANGED vars
  <2>1. UNCHANGED <<script, pos, sent, status, cancels, consumer>>
    BY <1>1 DEF Start, ReadEnds, Cancelled, Reads, Leave, fixed, output, upstream, vars
  <2> QED
    BY <2>1, StutterOrCut DEF Ending
<1>2. CASE ReadLine
  <2>1. /\ UNCHANGED <<script, sent, status, cancels, consumer, wrapper, event>>
        /\ pos < Len(script) /\ pos' = pos + 1 /\ task = "running"
    BY <1>2 DEF ReadLine, Reads, fixed, output
  <2>2. wrapper \in {"waiting", "atBeat"}
    BY <1>0, <2>1 DEF Control, Attended, NothingLeftBehind, Live, TypeOK
  <2>3. sent = Numbers(pos)
    BY <1>0, <2>1, <2>2 DEF Control, Matching, Flow, Turning, Handed, Numbers
  <2>4. Ending' = Ending
    BY <2>1 DEF Ending
  <2> QED
    BY <2>1, <2>3, <2>4 DEF Relayed!Next, Relayed!Take, Numbers
<1>3. CASE GiveLine \/ Timeout
  <2>1. /\ UNCHANGED <<script, pos, sent, status, cancels>>
        /\ consumer = "asking" /\ consumer' = "checking"
    BY <1>3 DEF GiveLine, Timeout, Give, fixed, output, upstream
  <2> QED
    BY <2>1, StutterOrCut DEF Ending
<1>4. CASE WrapperEnds
  <2>1. /\ UNCHANGED <<script, pos, sent, status, cancels, sent_done>>
        /\ wrapper = "waiting" /\ task = "end"
        /\ \/ consumer = "asking" /\ consumer' = "checking"
           \/ sent_done /\ consumer' = "finished"
    BY <1>4 DEF WrapperEnds, Give, Finish, AppendDone, fixed, output, upstream
  <2>2. Turning /\ consumer = "asking"
    BY <1>0, <2>1 DEF Turning, Control, Matching
  <2>3. CASE consumer' = "checking"
    BY <2>1, <2>2, <2>3, StutterOrCut DEF Ending
  <2>4. CASE sent_done /\ consumer' = "finished"
    <3>1. Handed = pos /\ pos = Len(script)
      BY <1>0, <2>1 DEF Handed, Flow
    <3>2. "done" \in Relayed!ToSet(script)
      BY <1>0, <2>2, <2>4, <3>1, MarkedAtEnd DEF Flow
    <3>3. sent = Numbers(Len(script))
      BY <1>0, <2>2, <3>1 DEF Flow, Numbers
    <3>4. Ending = "open" /\ Ending' = "whole"
      BY <1>0, <2>1, <2>2, <2>4, TurningIsOpen DEF Ending
    <3> QED
      BY <2>1, <3>2, <3>3, <3>4
      DEF Relayed!Next, Relayed!Finish, Relayed!Whole, Relayed!Complete, Numbers
  <2> QED
    BY <2>1, <2>3, <2>4
<1>5. CASE WrapperFails
  <2>1. /\ UNCHANGED <<script, pos, sent>> /\ wrapper = "waiting" /\ status' = "failed"
    BY <1>5 DEF WrapperFails, Finish, fixed, upstream
  <2>2. Ending = "open" /\ Ending' = "cut"
    BY <1>0, <2>1, TurningIsOpen DEF Turning, Ending
  <2> QED
    BY <2>1, <2>2, StutterOrCut
<1>6. CASE Drain \/ CloseUpstream \/ CancelAgain
  <2>1. /\ UNCHANGED <<script, pos, sent>> /\ wrapper \in {"draining", "closing"}
        /\ cancels' \in {cancels, cancels + 1} /\ status' \in {status, "failed"}
    BY <1>6 DEF Drain, CloseUpstream, CancelAgain, CleanedUp, CleanUpFails, Finish, fixed,
                upstream, output
  <2>2. Ending = "cut" /\ Ending' = "cut"
    BY <1>0, <2>1 DEF Control, Cutting, Ending, TypeOK
  <2> QED
    BY <2>1, <2>2, StutterOrCut
<1>7. CASE Disconnected \/ Cancel
  <2>1. /\ UNCHANGED <<script, pos, sent>> /\ Turning
        /\ status' = "client_disconnected" \/ cancels' = 1
    BY <1>7 DEF Disconnected, Cancel, LeaveLoop, LeaveWrapper, fixed, upstream, output,
                Turning
  <2>2. Ending = "open" /\ Ending' = "cut"
    BY <1>0, <2>1, TurningIsOpen DEF Ending
  <2> QED
    BY <2>1, <2>2, StutterOrCut
<1>8. CASE Pass
  <2>1. /\ UNCHANGED <<script, pos, event, wrapper, task, sent_done, status, cancels>>
        /\ consumer = "checking" /\ consumer' = "yielded"
    BY <1>8 DEF Pass, fixed, upstream
  <2>2. Turning /\ Ending = "open" /\ Ending' = "open"
    BY <1>0, <2>1, TurningIsOpen DEF Turning, Ending
  <2>3. CASE event = "line"
    <3>1. sent = Numbers(pos - 1) /\ sent' = Append(sent, pos) /\ pos - 1 \in Nat
      BY <1>0, <1>8, <2>1, <2>2, <2>3, PassGives DEF Flow, GivenNow, TypeOK
    <3>2. pos = Len(sent) + 1
      BY <1>0, <3>1, NumbersType DEF TypeOK
    <3> QED
      BY <2>1, <2>2, <3>1, <3>2 DEF Relayed!Next, Relayed!Give
  <2>4. CASE event = "done"
    <3>1. sent = Numbers(Handed) /\ sent' = Append(sent, 0)
      BY <1>0, <1>8, <2>1, <2>2, <2>4, PassGives DEF Flow, GivenNow
    <3>2. wrapper = "finished" /\ task = "end"
      BY <1>0, <2>1, <2>4 DEF Control, Matching
    <3>3. Handed = pos /\ pos = Len(script)
      BY <1>0, <3>2 DEF Handed, Flow
    <3>4. "done" \notin Relayed!ToSet(script)
      BY <1>0, <2>2, <3>2, <3>3, MarkedAtEnd DEF Flow
    <3> QED
      BY <2>1, <2>2, <3>1, <3>3, <3>4
      DEF Relayed!Next, Relayed!Mark, Relayed!Complete, Numbers
  <2>5. CASE event = "beat"
    <3>1. sent' = sent
      BY <1>0, <1>8, <2>5, PassGives
    <3> QED
      BY <2>1, <2>2, <3>1, StutterOrCut
  <2> QED
    BY <1>0, <2>1, <2>3, <2>4, <2>5 DEF Control, Matching
<1>9. CASE Resume
  <2>1. /\ UNCHANGED <<script, pos, sent, status, cancels>> /\ consumer = "yielded"
        /\ IF event = "done" THEN consumer' = "finished" ELSE consumer' = "asking"
    BY <1>9 DEF Resume, Finish, fixed, upstream, output
  <2>2. Turning /\ Ending = "open"
    BY <1>0, <2>1, TurningIsOpen DEF Turning
  <2>3. CASE event = "done"
    <3>1. sent = Append(Numbers(pos), 0)
      BY <1>0, <2>1, <2>2, <2>3 DEF Flow
    <3>2. wrapper = "finished" /\ task = "end"
      BY <1>0, <2>1, <2>3 DEF Control, Matching
    <3>3. Handed = pos /\ pos = Len(script)
      BY <1>0, <3>2 DEF Handed, Flow
    <3>4. "done" \notin Relayed!ToSet(script)
      BY <1>0, <2>2, <3>2, <3>3, MarkedAtEnd DEF Flow
    <3>5. Ending' = "whole"
      BY <1>0, <2>1, <2>2, <2>3, TurningIsOpen DEF Ending
    <3> QED
      BY <2>1, <2>2, <3>1, <3>3, <3>4, <3>5
      DEF Relayed!Next, Relayed!Finish, Relayed!Whole, Numbers
  <2>4. CASE event # "done"
    BY <2>1, <2>2, <2>4, StutterOrCut DEF Ending
  <2> QED
    BY <2>3, <2>4
<1> QED
  BY <1>1, <1>2, <1>3, <1>4, <1>5, <1>6, <1>7, <1>8, <1>9 DEF Next, Read, Wrapper, Loop

\* Heartbeats, timeouts and clean-ups neither lose, repeat nor reorder a line: every
\* behaviour of the stream is one of Relay, for answers of any length.
THEOREM ImplementsRelay == Spec => RelayImplemented
<1>1. Init => Relayed!Init
  BY DEF Init, Relayed!Init, Ending
<1>2. Inv /\ Inv' /\ [Next]_vars => [Relayed!Next]_(Relayed!vars)
  BY StepImplemented
<1> QED
  BY <1>1, <1>2, InvAlways, PTL DEF Spec, RelayImplemented, Relayed!Spec
=============================================================================
