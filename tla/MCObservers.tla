------------------------------ MODULE MCObservers -------------------------------
(* Two threads, two observers on the first, one on the second.               *)
EXTENDS Observers

CONSTANTS oA, oB, oC, t1, t2

MCHome == [o \in Observers |-> IF o = oC THEN t2 ELSE t1]
=============================================================================
