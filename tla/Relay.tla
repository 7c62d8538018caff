-------------------------------- MODULE Relay --------------------------------
(***************************************************************************)
(* What a client may count on when its answer is streamed                  *)
(* (services/vllm/stream.py and the loop of _stream_response): the lines of*)
(* vLLM, as they come, each once, read one ahead at most; then a single    *)
(* [DONE], vLLM's or ours; or the stream is cut off, somewhere.            *)
(***************************************************************************)
EXTENDS Naturals, Sequences, SequencesExt

CONSTANT Lines   \* the answers of vLLM, as sequences of lines

VARIABLES lines,  \* the answer of this stream
          taken,  \* how many of its lines have been read
          given,  \* what the client was given: numbers of lines, and 0 for our [DONE]
          end     \* "open", "whole" or "cut"

vars == <<lines, taken, given, end>>

Init == lines \in Lines /\ taken = 0 /\ given = <<>> /\ end = "open"

Numbers(n) == [i \in 1 .. n |-> i]

\* A line is read when the one before it has been given.
Take == /\ taken < Len(lines) /\ given = Numbers(taken)
        /\ taken' = taken + 1
        /\ UNCHANGED <<lines, given, end>>

Give == /\ end = "open" /\ taken = Len(given) + 1
        /\ given' = Append(given, taken)
        /\ UNCHANGED <<lines, taken, end>>

Complete == given = Numbers(Len(lines))

\* [DONE] is appended where vLLM sent none.
Mark == /\ end = "open" /\ Complete /\ "done" \notin ToSet(lines)
        /\ given' = Append(given, 0)
        /\ UNCHANGED <<lines, taken, end>>

Whole == IF "done" \in ToSet(lines) THEN Complete ELSE given = Append(Numbers(Len(lines)), 0)

Finish == /\ end = "open" /\ Whole
          /\ end' = "whole"
          /\ UNCHANGED <<lines, taken, given>>

Cut == /\ end = "open"
       /\ end' = "cut"
       /\ UNCHANGED <<lines, taken, given>>

Next == Take \/ Give \/ Mark \/ Finish \/ Cut

Spec == Init /\ [][Next]_vars
=============================================================================
