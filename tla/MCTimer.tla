-------------------------------- MODULE MCTimer --------------------------------
(* A RepeatingTimer r, a OneShotTimer o, and the timer_ d of a DelayTimer.    *)
EXTENDS Timer

CONSTANTS r, o, d

MCDelayOf == [t \in Delaying |-> 2]
=============================================================================
