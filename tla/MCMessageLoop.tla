----------------------------- MODULE MCMessageLoop -----------------------------
(* Tasks a, b and c are nestable, m and n are not.                           *)
EXTENDS MessageLoop

CONSTANTS a, b, c, m, n

MCNestable == {a, b, c} \cap Tasks
MCDelays   == [t \in Tasks |-> IF t \in {m, n} THEN {0} ELSE {0, 1}]
MCDelayed  == [t \in Tasks |-> IF t = a THEN {0} ELSE {1}]
=============================================================================
