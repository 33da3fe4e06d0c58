------------------------------- MODULE PumpTasks -------------------------------
(***************************************************************************)
(* What the two pumps of chromium/base/message_pump_win.cc have in common:    *)
(* the calls on the pump's thread, a stack of frames of which the top one     *)
(* acts; the flag have_work_, set by any thread that posts a task; and what a *)
(* pump sees of its delegate, a MessageLoop (message_loop.cc).  Tasks are     *)
(* "now" or "later", and those of delayed_work_queue_ are told apart by       *)
(* whether they are due.                                                     *)
(***************************************************************************)
EXTENDS Integers, FiniteSets, SequencesExt

CONSTANTS
  Posters,             \* threads other than the pump's
  MaxTasks, MaxLater   \* bounds on the tasks posted, and on those that are delayed

ASSUME PumpAssumption == IsFiniteSet(Posters) /\ MaxTasks \in Nat /\ MaxLater \in Nat

VARIABLES
  stack,         \* the frames of the pump's thread, the innermost last
  haveWork,      \* have_work_
  delayedTime,   \* delayed_work_time_: "null", "future" or "past"
  poster,        \* per poster: "idle", or what is left of ScheduleWork
  incoming,      \* incoming_queue_, of "now" and "later" tasks
  workQueue,     \* work_queue_
  waiting, due,  \* how many tasks of delayed_work_queue_ are not due, and are
  tasks          \* how many there have been

queueVars == <<incoming, workQueue, waiting, due, tasks>>

PumpInit ==
  /\ stack = << >> /\ haveWork = FALSE /\ delayedTime = "null"
  /\ poster = [t \in Posters |-> "idle"]
  /\ incoming = << >> /\ workQueue = << >> /\ waiting = 0 /\ due = 0 /\ tasks = 0

-----------------------------------------------------------------------------
(* The stack.  A frame says what call it is and where that is, and has what   *)
(* was returned to it (more) and whether it was told to quit.                *)
Top == Last(stack)
Running == stack # << >>
IsAt(what, at) == Running /\ Top.what = what /\ Top.at = at

Goes(s, at) == [s EXCEPT ![Len(s)].at = at]
(* The frame on top returns b to the one below, which collects it.           *)
Popped(s, b) ==
  IF Len(s) = 1 THEN << >> ELSE [Front(s) EXCEPT ![Len(s) - 1].more = @ \/ b]

Return(b) == stack' = Popped(stack, b)
GoTo(at) == stack' = Goes(stack, at)
(* The frame on top calls f, and will go on at the given place.              *)
Call(at, f) == stack' = Append(Goes(stack, at), f)

-----------------------------------------------------------------------------
(* The queues of the delegate.                                               *)
FirstNow(q) == SelectInSeq(q, LAMBDA task : task = "now")
Laters(q) == Cardinality({k \in DOMAIN q : q[k] = "later"})

(* DoWork, when tasks may run: from the two queues delayed tasks move to      *)
(* theirs until there is a task to run.  The incoming queue is taken whole    *)
(* when the work queue is at its end.                                        *)
Worked ==
  LET w == FirstNow(workQueue)
      i == FirstNow(incoming)
      left == CASE w > 0 -> SubSeq(workQueue, w + 1, Len(workQueue))
                [] w = 0 /\ i > 0 -> SubSeq(incoming, i + 1, Len(incoming))
                [] OTHER -> << >>
  IN  [ran |-> w > 0 \/ i > 0,
       work |-> left,
       arrived |-> IF w > 0 THEN incoming ELSE << >>,
       moved |-> Laters(workQueue) + (IF w > 0 THEN 0 ELSE Laters(incoming)) - Laters(left)]

(* DoDelayedWork, when tasks may run: a task runs if one is due.              *)
(* delayed_work_time_, which the pump lends to it, stays as it was after the  *)
(* last task.                                                                *)
NextDelay ==
  CASE waiting + due = 0 -> "null"
    [] due > 1 -> "past"
    [] due <= 1 /\ waiting > 0 -> "future"
    [] OTHER -> delayedTime

(* The first delayed task that is not due becomes so.                        *)
TimePasses ==
  /\ waiting > 0 /\ waiting' = waiting - 1 /\ due' = due + 1
  /\ delayedTime' = IF delayedTime = "future" THEN "past" ELSE delayedTime
  /\ UNCHANGED <<stack, haveWork, poster, incoming, workQueue, tasks>>

-----------------------------------------------------------------------------
(* Posting a task, and what it leads to: on another thread the flag, and      *)
(* after that the pump's message.                                            *)
Post(kind) ==
  /\ tasks < MaxTasks
  /\ kind = "later" => Laters(incoming) + Laters(workQueue) + waiting + due < MaxLater
  /\ incoming' = Append(incoming, kind) /\ tasks' = tasks + 1

PostTask(t, kind) ==
  /\ poster[t] = "idle"
  /\ Post(kind)
  /\ poster' = [poster EXCEPT ![t] = IF incoming = << >> THEN "schedule" ELSE "idle"]
  /\ UNCHANGED <<stack, haveWork, delayedTime, workQueue, waiting, due>>

SetHaveWork(t) ==
  /\ poster[t] = "schedule"
  /\ haveWork' = TRUE
  /\ poster' = [poster EXCEPT ![t] = IF haveWork THEN "idle" ELSE "post"]
  /\ UNCHANGED <<stack, delayedTime, queueVars>>
=============================================================================
