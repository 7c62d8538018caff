--------------------------- MODULE MCSessionScope ---------------------------
(***************************************************************************)
(* Instances of SessionScope for TLC, on a pool of two connections: a row  *)
(* that is created, updated twice and read, and an update of a row that is *)
(* there already.  In MixedExit some calls end their loop, as a consumer of*)
(* db/session.py's iter_session may; every method of the repository returns*)
(* from it.                                                                *)
(***************************************************************************)
EXTENDS SessionScope, TLC

CONSTANTS c1, c2, c3, c4, c5, x1, x2

MCCalls == {c1, c2, c3, c4, c5}
MCRow == [c \in MCCalls |-> IF c = c5 THEN x2 ELSE x1]
MCKind == [c \in MCCalls |-> CASE c = c1 -> "insert"
                               [] c = c4 -> "read"
                               [] OTHER -> "update"]
MCSeeded == {x2}
MixedExit == [c \in MCCalls |-> IF c \in {c1, c2} THEN "exhaust" ELSE "return"]
StoreExit == [c \in MCCalls |-> "return"]
=============================================================================
