------------------------------- MODULE Stream -------------------------------
(***************************************************************************)
(* The streaming of one chat completion: services/vllm/client.py reads     *)
(* lines from vLLM, stream_with_heartbeats() waits for each of them in a   *)
(* task of its own and gives a heartbeat whenever that takes too long,     *)
(* ensure_done_event() appends [DONE], and the loop of _stream_response()  *)
(* passes the events on to the client.  Each action is the code between    *)
(* two awaits, through all the generators that it runs in.  Lines that are *)
(* empty, which the client drops, are left out.                            *)
(***************************************************************************)
EXTENDS Naturals, Sequences, FiniteSets, SequencesExt

CONSTANT MaxLines   \* bound: lines of an answer

ASSUME StreamAssumption == MaxLines \in Nat

VARIABLES script,    \* the lines vLLM is going to send
          pos,       \* how many of them have been read
          up,        \* the connection to vLLM: "new", "open", "closed"
          task,      \* next_line, the task that reads the next line
          wrapper,   \* where stream_with_heartbeats() is
          sent_done, \* the variable of ensure_done_event()
          event,     \* what the loop was given last: "line", "beat", "done"
          consumer,  \* where _stream_response() is
          status,    \* the variable of _stream_response()
          text,      \* the lines whose delta is in completion_text
          sent,      \* the lines the client was given, 0 for an appended [DONE]
          gone,      \* the client has disconnected
          cancels    \* history: how often the handler was cancelled

upstream == <<pos, up>>
output == <<status, text, sent>>
fixed == <<script, cancels>>
vars == <<fixed, upstream, task, wrapper, sent_done, event, consumer, output, gone>>

Tasks == {"scheduled",                      \* created, not run yet
          "running",                        \* in the upstream generator
          "line", "end", "error",           \* done, with its result
          "revoked",                        \* cancel() before it ran ...
          "interrupted",                    \* ... and while it ran
          "cancelled"}
Live == {"scheduled", "running", "revoked", "interrupted"}

\* Answers of vLLM: deltas, and possibly its own [DONE] at the end.
Answers == {a \o d : a \in UNION {[1 .. n -> {"delta"}] : n \in 0 .. MaxLines},
                     d \in {<<>>, <<"done">>}}

Init == /\ script \in Answers
        /\ pos = 0 /\ up = "new"
        /\ task = "scheduled" /\ wrapper = "waiting"
        /\ sent_done = FALSE /\ event = "none"
        /\ consumer = "asking" /\ status = "completed"
        /\ text = {} /\ sent = <<>>
        /\ gone = FALSE /\ cancels = 0

-----------------------------------------------------------------------------
(* The task that reads a line, and the upstream generator it runs.         *)

Reads(from, to) == /\ task = from /\ task' = to
                   /\ UNCHANGED <<fixed, wrapper, sent_done, event, consumer,
                                  output, gone>>

Start == Reads("scheduled", "running") /\ up' = "open" /\ UNCHANGED pos

\* Mutant: reading goes on after the last line.
MutReadLine == /\ Reads("running", "line")
               /\ pos' = pos + 1
               /\ UNCHANGED up

ReadLine == /\ Reads("running", "line")
            /\ pos < Len(script)
            /\ pos' = pos + 1
            /\ UNCHANGED up

\* The answer ends, or an error does; either closes the connection.
ReadEnds == /\ \/ pos = Len(script) /\ Reads("running", "end")
               \/ Reads("running", "error")
            /\ up' = "closed"
            /\ UNCHANGED pos

\* A task cancelled before it ran leaves the generator as it was; one cancelled
\* while it ran leaves through the generator, where closing may fail.
Cancelled == \/ Reads("revoked", "cancelled") /\ UNCHANGED upstream
             \/ /\ \E how \in {"cancelled", "error"} : Reads("interrupted", how)
                /\ up' = "closed"
                /\ UNCHANGED pos

-----------------------------------------------------------------------------
(* The heartbeat wrapper and the end-of-stream marker.                     *)

Give(e) == /\ consumer = "asking" /\ consumer' = "checking"
           /\ event' = e
           /\ UNCHANGED <<fixed, upstream, output, gone>>

GiveLine == /\ wrapper = "waiting" /\ task = "line"
            /\ wrapper' = "atLine"
            /\ sent_done' = (sent_done \/ script[pos] = "done")
            /\ Give("line")
            /\ UNCHANGED task

\* Mutant: the wrapper waits on without a heartbeat.
MutTimeout == wrapper = "waiting" /\ UNCHANGED vars

\* The timeout of wait_for(), possibly just when the line is there.
Timeout == /\ wrapper = "waiting"
           /\ wrapper' = "atBeat"
           /\ Give("beat")
           /\ UNCHANGED <<task, sent_done>>

AppendDone == ~sent_done

Finish(s) == /\ consumer' = "finished"
             /\ status' = s
             /\ UNCHANGED <<event, text, sent>>

\* StopAsyncIteration from the task: [DONE] is appended, or the loop ends.
WrapperEnds == /\ wrapper = "waiting" /\ task = "end"
               /\ wrapper' = "finished"
               /\ \/ AppendDone /\ Give("done")
                  \/ /\ ~AppendDone /\ Finish(status)
                     /\ UNCHANGED <<fixed, upstream, gone>>
               /\ UNCHANGED <<task, sent_done>>

\* An error from the task passes all generators to `except Exception`.
WrapperFails == /\ wrapper = "waiting" /\ task = "error"
                /\ wrapper' = "finished"
                /\ Finish("failed")
                /\ UNCHANGED <<fixed, upstream, task, sent_done, gone>>

\* Mutant: the pending task is left alone.
MutLeaveWrapper == wrapper' = "closing" /\ UNCHANGED task

\* The `finally` of the wrapper, as far as its first await.
LeaveWrapper ==
    /\ wrapper' = IF task \in Live THEN "draining" ELSE "closing"
    /\ task' = CASE task = "scheduled" -> "revoked"
                 [] task = "running" -> "interrupted"
                 [] OTHER -> task

\* What follows when the clean-up of the wrapper goes through: the loop was left by
\* the exception that waited in it, or its `finally` goes on.
CleanedUp == /\ wrapper' = "finished"
             /\ Finish(status)
             /\ UNCHANGED <<fixed, sent_done, gone>>

\* What follows when it raises: an error is caught when the loop itself waited for
\* the wrapper, and it breaks the `finally` off when that did.
CleanUpFails == /\ wrapper' = "finished"
                /\ \/ consumer = "asking" /\ Finish("failed")
                   \/ /\ consumer = "closing" /\ consumer' = "aborted"
                      /\ UNCHANGED <<event, output>>
                /\ UNCHANGED <<fixed, sent_done, gone>>

\* `await next_line`; suppress() swallows only the cancellation.
Drain == /\ wrapper = "draining"
         /\ \/ /\ task = "cancelled"
               /\ wrapper' = "closing"
               /\ UNCHANGED <<fixed, sent_done, event, consumer, output, gone>>
            \/ task = "error" /\ CleanUpFails
         /\ UNCHANGED <<upstream, task>>

\* `await aclose()` of the upstream generator, which closes the connection.
CloseUpstream == /\ wrapper = "closing"
                 /\ CleanedUp \/ (up = "open" /\ CleanUpFails)
                 /\ up' = "closed"
                 /\ UNCHANGED <<pos, task>>

-----------------------------------------------------------------------------
(* The loop of _stream_response().                                         *)

\* Leaving the loop closes event_stream, at once, and then heartbeat_stream.
LeaveLoop == IF wrapper = "finished"
             THEN consumer' = "finished" /\ UNCHANGED <<wrapper, task>>
             ELSE consumer' = "closing" /\ LeaveWrapper

\* is_disconnected() is true: the event goes nowhere.
Disconnected == /\ consumer = "checking" /\ gone
                /\ status' = "client_disconnected"
                /\ LeaveLoop
                /\ UNCHANGED <<fixed, upstream, sent_done, event, text, sent, gone>>

\* Mutant: heartbeats are accounted like lines.
MutDeltas == IF pos > 0 THEN {pos} ELSE {}

\* stream_delta_text() of the event.
Deltas == IF event = "line" /\ script[pos] = "delta" THEN {pos} ELSE {}

\* The event is accounted and passed on.
Pass == /\ consumer = "checking" /\ ~gone
        /\ consumer' = "yielded"
        /\ text' = text \cup Deltas
        /\ sent' = CASE event = "line" -> Append(sent, pos)
                     [] event = "done" -> Append(sent, 0)
                     [] event = "beat" -> sent
        /\ UNCHANGED <<fixed, upstream, task, wrapper, sent_done, event, status, gone>>

\* Mutant: every round starts a new read.
MutNextTask == "scheduled"

\* A new task after a line, the same one after a heartbeat.
NextTask == IF wrapper = "atLine" THEN "scheduled" ELSE task

\* The server has sent the event and asks for the next.
Resume == /\ consumer = "yielded"
          /\ \/ /\ event # "done"
                /\ consumer' = "asking"
                /\ wrapper' = "waiting"
                /\ task' = NextTask
                /\ UNCHANGED <<event, output>>
             \/ /\ event = "done"
                /\ Finish(status)
                /\ UNCHANGED <<wrapper, task>>
          /\ UNCHANGED <<fixed, upstream, sent_done, gone>>

\* The server cancels the handler, or closes the generator at its yield.
Cancel == /\ \/ /\ consumer = "asking" /\ wrapper = "waiting"
                /\ LeaveWrapper
                /\ UNCHANGED consumer
             \/ consumer \in {"checking", "yielded"} /\ LeaveLoop
          /\ cancels' = 1
          /\ UNCHANGED <<script, upstream, sent_done, event, output, gone>>

\* ... once more, during the clean-up.  `await next_line` suppresses it; closing
\* the connection may be broken off, and then so is the `finally` that waits for it.
CancelAgain == /\ wrapper = "closing" /\ up = "open"
               /\ wrapper' = "finished"
               /\ consumer' = IF consumer = "asking" THEN "finished" ELSE "aborted"
               /\ up' \in {up, "closed"}
               /\ cancels' = cancels + 1
               /\ UNCHANGED <<script, pos, task, sent_done, event, output, gone>>

Leave == /\ ~gone /\ gone' = TRUE
         /\ UNCHANGED <<fixed, upstream, task, wrapper, sent_done, event, consumer,
                        output>>

-----------------------------------------------------------------------------
Read == Start \/ ReadLine \/ ReadEnds

Wrapper == \/ GiveLine \/ Timeout \/ WrapperEnds \/ WrapperFails
           \/ Drain \/ CloseUpstream

Loop == Disconnected \/ Pass \/ Resume

Next == Read \/ Cancelled \/ Wrapper \/ Loop \/ Cancel \/ CancelAgain \/ Leave

\* The event loop runs the handler, its timers and what it has cancelled, and the
\* server takes each event off it.  vLLM need never answer.
Spec == /\ Init /\ [][Next]_vars
        /\ WF_vars(Wrapper) /\ WF_vars(Loop) /\ WF_vars(Cancelled)

-----------------------------------------------------------------------------
Over == consumer \in {"finished", "aborted"}

TypeOK == /\ script \in Seq({"delta", "done"}) /\ pos \in 0 .. Len(script)
          /\ up \in {"new", "open", "closed"} /\ task \in Tasks
          /\ wrapper \in {"waiting", "atLine", "atBeat", "draining", "closing",
                          "finished"}
          /\ event \in {"none", "line", "beat", "done"}
          /\ consumer \in {"asking", "checking", "yielded", "closing", "finished",
                           "aborted"}
          /\ status \in {"completed", "failed", "client_disconnected"}
          /\ text \in SUBSET (1 .. Len(script))
          /\ sent \in Seq(0 .. Len(script))
          /\ {sent_done, gone} \subseteq BOOLEAN /\ cancels \in 0 .. 2

\* No task is left reading from vLLM once the wrapper has stopped waiting for it,
\* at whatever await the stream was cut off (the generator would raise "already
\* running" at whoever closes it), and a stream that ran its clean-up to the end has
\* closed its connection, unless a second cancellation came just while it did.
NothingLeftBehind ==
    /\ wrapper \in {"atLine", "closing", "finished"} => task \notin Live
    /\ consumer = "finished" /\ cancels < 2 => up # "open"

\* A stream has ended whole for Relay when its loop ended by itself.
Ending == IF status # "completed" \/ cancels > 0 THEN "cut"
          ELSE IF consumer = "finished" THEN "whole" ELSE "open"

Relayed == INSTANCE Relay WITH
               Lines <- Answers, lines <- script, taken <- pos, given <- sent, end <- Ending

\* Heartbeats, timeouts that race their line and interrupted clean-ups neither lose,
\* repeat nor reorder anything: the client gets the lines as Relay has it, read one
\* ahead at most, and a stream that ends as completed was given to its last line,
\* with exactly one [DONE].
RelayImplemented == Relayed!Spec

\* The text that is accounted is that of the deltas the client was given: not of
\* one dropped because the client had gone, nor of one read and never passed on.
AccountedAsSent == text = {n \in ToSet(sent) : n > 0 /\ script[n] = "delta"}

\* A client that disconnects is noticed even if vLLM never sends anything more,
\* because heartbeats keep the loop turning, and its stream comes to an end.
DisconnectNoticed == gone ~> Over
=============================================================================
