-------------------------------- MODULE Timeout --------------------------------
(***************************************************************************)
(* What a set of timers promises to those who start them, whatever it is     *)
(* made of: an armed timer calls back once its time has come and not before, *)
(* a timer that is not armed does not call back, and nothing but a call of   *)
(* its user or the end of the loop changes when it will.                     *)
(***************************************************************************)
EXTENDS Naturals

CONSTANTS
  Timers,      \* the timers
  Periodic,    \* those that are armed anew by their callback
  Idle         \* what "armed" has for a timer that is not

VARIABLES
  armed,       \* per timer: the time of its callback and the period it has
  calling,     \* the timer whose callback runs, or Idle
  open,        \* the loop runs callbacks
  time         \* the clock

vars == <<armed, calling, open, time>>

Armed == [at : Nat, every : Nat]

Init ==
  /\ armed = [t \in Timers |-> Idle] /\ calling = Idle
  /\ open = TRUE /\ time = 0

(* A user starts t, or starts it over, for "every" from now on.              *)
Arm(t) ==
  /\ armed'[t] \in Armed /\ armed'[t].at = time + armed'[t].every
  /\ armed' = [armed EXCEPT ![t] = armed'[t]]
  /\ UNCHANGED <<calling, open, time>>

(* A user stops t or ends its life, or the loop that would call it has ended.*)
Disarm(t) ==
  /\ armed' = [armed EXCEPT ![t] = Idle]
  /\ UNCHANGED <<calling, open, time>>

Fire(t) ==
  /\ open /\ calling = Idle
  /\ armed[t] # Idle /\ armed[t].at <= time
  /\ calling' = t
  /\ armed' = [armed EXCEPT ![t] =
                 IF t \in Periodic
                 THEN [armed[t] EXCEPT !.at = time + armed[t].every] ELSE Idle]
  /\ UNCHANGED <<open, time>>

Return == calling # Idle /\ calling' = Idle /\ UNCHANGED <<armed, open, time>>

Close == open /\ calling = Idle /\ open' = FALSE /\ UNCHANGED <<armed, calling, time>>

Pass == time' = time + 1 /\ UNCHANGED <<armed, calling, open>>

Next == Return \/ Close \/ Pass \/ \E t \in Timers : Arm(t) \/ Disarm(t) \/ Fire(t)

Spec == Init /\ [][Next]_vars
=============================================================================
