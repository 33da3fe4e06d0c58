------------------------------- MODULE MCStatics -------------------------------
(* p is a ThreadLocalPointer with a Singleton, used by the constructor and the *)
(* destructor of z, which has a LazyInstance; lk is a leaky Singleton.        *)
EXTENDS Statics

CONSTANTS main, worker, helper, p, z, lk, s1, s2, v

MCUses == [o \in Objects |-> IF o = z THEN p ELSE NULL]
MCBudget(m, n, o, u, h) ==
  [t \in OSThreads |-> CASE t = main -> [objects |-> m, slots |-> n]
                       [] t = worker -> [objects |-> o, slots |-> u]
                       [] OTHER -> [objects |-> h, slots |-> 0]]

(* Three threads and objects, two and more about objects, two and slots, two   *)
(* and a little of both.                                                     *)
MCBudgets ==
  {MCBudget(1, 0, 1, 0, 1), MCBudget(3, 0, 2, 0, 0),
   MCBudget(0, 3, 0, 2, 0), MCBudget(1, 1, 0, 1, 0)}
=============================================================================
