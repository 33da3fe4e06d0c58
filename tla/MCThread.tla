------------------------------ MODULE MCThread -------------------------------
(* Thread a is owned by the main thread, thread b by thread a.               *)
EXTENDS Thread, TLC

CONSTANTS a, b

MCOwner == [t \in Threads |-> IF t = a THEN Main ELSE a]
=============================================================================
