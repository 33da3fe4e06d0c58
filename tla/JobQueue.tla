------------------------------ MODULE JobQueue -------------------------------
(***************************************************************************)
(* What a message loop promises to the threads that post to it.  There are *)
(* no queues here, only the order in which jobs were accepted and the time  *)
(* each asked to be delayed to: a job runs once, never before its time, and *)
(* overtakes an earlier one only if that one asked for a later time.        *)
(***************************************************************************)
EXTENDS Naturals

CONSTANTS Jobs, Delays, MaxClock

VARIABLES
  clock,
  fate,     \* "new", "posting", "queued", "running" or "done"
  asked,    \* the time a job asked to be delayed to, 0 for no delay
  number,   \* the rank of a job among those accepted
  pushed    \* how many were accepted

vars == <<clock, fate, asked, number, pushed>>

Pending == {j \in Jobs : fate[j] = "queued"}

Init ==
  /\ clock = 0
  /\ fate = [j \in Jobs |-> "new"]
  /\ asked = [j \in Jobs |-> 0]
  /\ number = [j \in Jobs |-> 0]
  /\ pushed = 0

Tick ==
  /\ clock < MaxClock
  /\ clock' = clock + 1
  /\ UNCHANGED <<fate, asked, number, pushed>>

(* A thread calls PostJob, or PostDelayJob with a delay d.                   *)
Request(j) ==
  /\ fate[j] = "new"
  /\ fate' = [fate EXCEPT ![j] = "posting"]
  /\ \/ asked' = asked
     \/ \E d \in Delays : asked' = [asked EXCEPT ![j] = clock + d]
  /\ UNCHANGED <<clock, number, pushed>>

(* The call takes effect.                                                    *)
Accept(j) ==
  /\ fate[j] = "posting"
  /\ fate' = [fate EXCEPT ![j] = "queued"]
  /\ pushed' = pushed + 1
  /\ number' = [number EXCEPT ![j] = pushed']
  /\ UNCHANGED <<clock, asked>>

(* A job is started: its time has come, and every pending job accepted       *)
(* before it asked for a later time.                                         *)
Start(j) ==
  /\ j \in Pending
  /\ asked[j] <= clock
  /\ \A k \in Pending : number[k] < number[j] => asked[k] > asked[j]
  /\ fate' = [fate EXCEPT ![j] = "running"]
  /\ UNCHANGED <<clock, asked, number, pushed>>

Finish(j) ==
  /\ fate[j] = "running"
  /\ fate' = [fate EXCEPT ![j] = "done"]
  /\ UNCHANGED <<clock, asked, number, pushed>>

Next == Tick \/ \E j \in Jobs : Request(j) \/ Accept(j) \/ Start(j) \/ Finish(j)

Spec == Init /\ [][Next]_vars
=============================================================================
