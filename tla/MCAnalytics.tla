----------------------------- MODULE MCAnalytics -----------------------------
(***************************************************************************)
(* Instances of Analytics for TLC: more events than the queue and a batch  *)
(* can hold together, of two tables.                                       *)
(***************************************************************************)
EXTENDS Analytics, TLC

CONSTANTS e1, e2, e3, e4, usage_events, inference_events

MCEvents == {e1, e2, e3, e4}
SomeCritical == {e1, e2}
TwoTables == [e \in MCEvents |-> IF e \in {e1, e3} THEN usage_events
                                 ELSE inference_events]
==============================================================================
