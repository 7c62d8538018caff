------------------------------ MODULE MCStream ------------------------------
(***************************************************************************)
(* Stream for TLC: answers of up to MaxLines deltas, with and without the  *)
(* [DONE] of vLLM.                                                         *)
(***************************************************************************)
EXTENDS Stream, TLC
=============================================================================
