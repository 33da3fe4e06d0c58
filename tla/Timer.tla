--------------------------------- MODULE Timer ---------------------------------
(***************************************************************************)
(* OneShotTimer, RepeatingTimer and DelayTimer (chromium/base/timer.h, .cc)   *)
(* on the queues of their MessageLoop, up to the end of the loop and after.  *)
(* A timer and its TimerTask point at each other.  The task belongs to the   *)
(* loop, which deletes it when it has run or in its destructor; the timer    *)
(* belongs to a user, who may start, reset, stop or destroy any timer in any  *)
(* task, in any callback, and in the destructor of an object a task owns.    *)
(* All of it happens on one thread.  Addresses of deleted tasks are reused.  *)
(***************************************************************************)
EXTENDS Integers, SequencesExt

CONSTANTS
  Timers,       \* the timers
  Repeating,    \* the RepeatingTimers; the others are OneShotTimers,
  Delaying,     \* of which these are the timer_ of a DelayTimer
  Addresses,    \* where tasks can be allocated
  Delays,       \* the delays in milliseconds timers are started with
  DelayOf,      \* delay_ of each DelayTimer
  Rounds,       \* how often the destructor deletes pending tasks
  MaxTime,      \* bound on the clock
  MaxOwners,    \* bound on the other tasks
  Nobody        \* no timer, no task

ASSUME TimerAssumption ==
  /\ Repeating \subseteq Timers /\ Delaying \subseteq Timers \ Repeating
  /\ Delays \subseteq Nat /\ DelayOf \in [Delaying -> Nat \ {0}]
  /\ Rounds \in Nat \ {0, 1} /\ MaxTime \in Nat /\ MaxOwners \in Nat
  /\ Nobody \notin Timers \cup Addresses \cup [at : Nat, every : Nat]

VARIABLES
  life,         \* the loop: "runs", "dies" (in its destructor) or "gone"
  round, again, \* in the destructor: the round, and in its second half
  didDelete,    \* did_work there
  inQueue,      \* incoming_queue_
  workQueue,    \* work_queue_
  delayedQueue, \* delayed_work_queue_, the next task first
  allocated,    \* the addresses in use
  timerOf,      \* per address: timer_ of the TimerTask there
  wait,         \* per address: delay_
  dueAt,        \* per address: when the task was posted, plus its delay
  owners,       \* addresses of other tasks, which own objects with destructors
  inTask,       \* the task within which the user's code runs, or Nobody
  callee,       \* history: the timer whose method the task in inTask calls
  existing,     \* the timers that exist
  delayedTask,  \* delayed_task_ per timer
  trigger,      \* trigger_time_ per DelayTimer
  tickTime      \* the clock

queuesT == <<inQueue, workQueue, delayedQueue>>
tasksT  == <<allocated, timerOf, wait, dueAt, owners>>
endT    == <<round, again, didDelete>>
userT   == <<existing, trigger>>
timerVars == <<life, endT, queuesT, tasksT, inTask, callee, userT, delayedTask, tickTime>>

TimerInit ==
  /\ life = "runs" /\ round = 0 /\ again = FALSE /\ didDelete = FALSE
  /\ inQueue = << >> /\ workQueue = << >> /\ delayedQueue = << >>
  /\ allocated = {} /\ owners = {}
  /\ timerOf = [k \in Addresses |-> Nobody]
  /\ wait = [k \in Addresses |-> 0] /\ dueAt = [k \in Addresses |-> 0]
  /\ inTask = Nobody /\ callee = Nobody
  /\ existing = Timers /\ delayedTask = [t \in Timers |-> Nobody]
  /\ trigger = [t \in Delaying |-> 0] /\ tickTime = 0

-----------------------------------------------------------------------------
(* timer_ of all tasks when OrphanDelayedTask of t is over.                  *)
Orphaned(t) == [k \in Addresses |-> IF k = delayedTask[t] THEN Nobody ELSE timerOf[k]]

(* timer_ of all tasks when k has become the task of t.                      *)
TasksOf(t, k) == [Orphaned(t) EXCEPT ![k] = t]

(* The memory a new task gets.  What was there before it is never read, so    *)
(* which of the free addresses it is makes no difference.                    *)
Available == Addresses \ allocated
NewTask == CHOOSE k \in Available : TRUE

(* Memory is bounded here but not in the code: the user's allocations leave  *)
(* one address to the loop, which needs it when a task starts its timer anew.*)
Affordable == Cardinality(Available) > 1

(* InitiateDelayedTask with a new task, and PostDelayedTask.                 *)
InitiateDelayedTask(t, ms) ==
  /\ Available # {}
  /\ LET k == NewTask
     IN
     /\ allocated' = allocated \cup {k}
     /\ timerOf' = TasksOf(t, k)
     /\ delayedTask' = [delayedTask EXCEPT ![t] = k]
     /\ wait' = [wait EXCEPT ![k] = ms]
     /\ dueAt' = [dueAt EXCEPT ![k] = tickTime + ms]
     /\ inQueue' = Append(inQueue, k)
  /\ UNCHANGED owners

IsRunning(t) == delayedTask[t] # Nobody

-----------------------------------------------------------------------------
(* The user's code runs in tasks, callbacks and destructors that tasks call; *)
(* there is no current MessageLoop to post to when the loop is gone.         *)
InLoop == life = "runs" \/ inTask # Nobody

unmovedByUser == <<life, endT, workQueue, delayedQueue, inTask, callee, tickTime>>

(* "It is an error to call this method while the timer is already running."  *)
Start(t) ==
  /\ Affordable /\ InLoop /\ t \in existing \ Delaying /\ ~IsRunning(t)
  /\ \E ms \in Delays : InitiateDelayedTask(t, ms)
  /\ UNCHANGED <<unmovedByUser, existing, trigger>>

(* Reset "of an already running timer": a clone of its task is posted.       *)
Reset(t) ==
  /\ Affordable /\ InLoop /\ t \in existing \ Delaying /\ IsRunning(t)
  /\ InitiateDelayedTask(t, wait[delayedTask[t]])
  /\ UNCHANGED <<unmovedByUser, existing, trigger>>

Stop(t) ==
  /\ t \in existing \ Delaying /\ IsRunning(t)
  /\ timerOf' = Orphaned(t)
  /\ delayedTask' = [delayedTask EXCEPT ![t] = Nobody]
  /\ UNCHANGED <<unmovedByUser, userT, inQueue, allocated, wait, dueAt, owners>>

(* DelayTimer::DelayFor: "If we already have a timer that will expire at or  *)
(* before the given delay, then we have nothing more to do now."             *)
DelayFor(t, ms) ==
  /\ trigger' = [trigger EXCEPT ![t] = tickTime + ms]
  /\ \/ /\ IsRunning(t) /\ wait[delayedTask[t]] <= ms
        /\ UNCHANGED <<tasksT, delayedTask, inQueue>>
     \/ /\ ~(IsRunning(t) /\ wait[delayedTask[t]] <= ms)
        /\ InitiateDelayedTask(t, ms)

ResetDelayTimer(t) ==
  /\ Affordable /\ InLoop /\ t \in existing \cap Delaying
  /\ DelayFor(t, DelayOf[t])
  /\ UNCHANGED <<unmovedByUser, existing>>

(* The destructor of a timer.                                               *)
DestroyTimer(t) ==
  /\ t \in existing
  /\ existing' = existing \ {t}
  /\ timerOf' = Orphaned(t)
  /\ delayedTask' = [delayedTask EXCEPT ![t] = Nobody]
  /\ UNCHANGED <<unmovedByUser, inQueue, allocated, wait, dueAt, owners, trigger>>

(* Another task with an object that it deletes when it is deleted itself.    *)
PostOwner ==
  /\ Affordable /\ life = "runs" /\ Cardinality(owners) < MaxOwners
  /\ LET k == NewTask
     IN
       /\ allocated' = allocated \cup {k} /\ owners' = owners \cup {k}
       /\ timerOf' = [timerOf EXCEPT ![k] = Nobody]
       /\ wait' = [wait EXCEPT ![k] = 1] /\ dueAt' = [dueAt EXCEPT ![k] = tickTime + 1]
       /\ inQueue' = Append(inQueue, k)
  /\ UNCHANGED <<unmovedByUser, userT, delayedTask>>

User ==
  \/ PostOwner
  \/ \E t \in Timers : \/ Start(t) \/ Reset(t) \/ Stop(t) \/ ResetDelayTimer(t)
                       \/ DestroyTimer(t)

-----------------------------------------------------------------------------
(* delayed_task_ of all timers after ClearBaseTimer of the task k.           *)
ClearedTimers(k) == [t \in Timers |-> IF timerOf[k] = t /\ delayedTask[t] = k
                                      THEN Nobody ELSE delayedTask[t]]

(* ClearBaseTimer leaves k without a timer.                                  *)
ClearBaseTimer(k) ==
  /\ delayedTask' = ClearedTimers(k)
  /\ timerOf' = [timerOf EXCEPT ![k] = Nobody]

(* Mutant of DeleteTask: ~TimerTask does not look at its timer.              *)
DeleteTaskOnly(k) ==
  /\ timerOf' = [timerOf EXCEPT ![k] = Nobody]
  /\ allocated' = allocated \ {k} /\ owners' = owners \ {k}
  /\ wait' = [wait EXCEPT ![k] = 0] /\ dueAt' = [dueAt EXCEPT ![k] = 0]
  /\ UNCHANGED delayedTask

(* ~TimerTask, "so don't leave the Timer with a dangling pointer".           *)
DeleteTask(k) ==
  /\ ClearBaseTimer(k)
  /\ allocated' = allocated \ {k} /\ owners' = owners \ {k}
  /\ wait' = [wait EXCEPT ![k] = 0] /\ dueAt' = [dueAt EXCEPT ![k] = 0]

(* The callback of the timer of k begins, the user's code in it comes next.  *)
CallMethod(k) == inTask' = k /\ callee' = timerOf[k]

(* TimerTask::Run of a task with no timer, or a task of another kind.        *)
RunOrphan(k) ==
  /\ timerOf[k] = Nobody
  /\ DeleteTask(k)
  /\ UNCHANGED <<inQueue, inTask, callee, trigger>>

RunRepeating(k) ==
  /\ timerOf[k] \in Repeating
  /\ InitiateDelayedTask(timerOf[k], wait[k])
  /\ CallMethod(k) /\ UNCHANGED trigger

RunOneShot(k) ==
  /\ timerOf[k] \in Timers \ (Repeating \cup Delaying)
  /\ ClearBaseTimer(k)
  /\ CallMethod(k)
  /\ UNCHANGED <<inQueue, allocated, wait, dueAt, owners, trigger>>

(* Mutant of IsEarly: trigger_time_ is not looked at.                        *)
NeverEarly(t) == FALSE

(* "If we have not waited long enough, then wait some more."                 *)
IsEarly(t) == tickTime < trigger[t]

(* DelayTimer::Check: the task cleared its timer, so that DelayFor starts it *)
(* anew; InitiateDelayedTask then has nothing but the task itself to orphan. *)
RunDelaying(k) ==
  /\ timerOf[k] \in Delaying
  /\ LET t == timerOf[k]
     IN
     \/ /\ IsEarly(t)
        /\ InitiateDelayedTask(t, trigger[t] - tickTime)
        /\ inTask' = k /\ UNCHANGED <<callee, trigger>>
     \/ /\ ~IsEarly(t)
        /\ ClearBaseTimer(k) /\ CallMethod(k)
        /\ UNCHANGED <<inQueue, allocated, wait, dueAt, owners, trigger>>

RunTimerTask(k) ==
  /\ RunOrphan(k) \/ RunRepeating(k) \/ RunOneShot(k) \/ RunDelaying(k)
  /\ UNCHANGED <<life, endT, existing, tickTime>>

(* AddToDelayedWorkQueue: behind all that are due by then.                   *)
AddToDelayed(k) ==
  LET sooner == {n \in DOMAIN delayedQueue : dueAt[delayedQueue[n]] <= dueAt[k]}
  IN  InsertAt(delayedQueue, 1 + Cardinality(sooner), k)

Looping == life = "runs" /\ inTask = Nobody

(* The loop's thread: DoWork with one task, DoDelayedWork with one task, and *)
(* the end of a task's Run, when RunTask deletes it.                         *)
TakeWork ==
  /\ Looping /\ workQueue = << >> /\ inQueue # << >>
  /\ workQueue' = inQueue /\ inQueue' = << >>
  /\ UNCHANGED <<life, endT, delayedQueue, tasksT, inTask, callee, userT, delayedTask, tickTime>>

DelayWork ==
  /\ Looping /\ workQueue # << >> /\ wait[Head(workQueue)] > 0
  /\ workQueue' = Tail(workQueue)
  /\ delayedQueue' = AddToDelayed(Head(workQueue))
  /\ UNCHANGED <<life, endT, inQueue, tasksT, inTask, callee, userT, delayedTask, tickTime>>

RunWork ==
  /\ Looping /\ workQueue # << >> /\ wait[Head(workQueue)] = 0
  /\ workQueue' = Tail(workQueue)
  /\ RunTimerTask(Head(workQueue))
  /\ UNCHANGED delayedQueue

(* Mutant of RunDelayed: delayed tasks are for when there is nothing else.   *)
RunDelayedWhenIdle ==
  /\ Looping /\ delayedQueue # << >> /\ dueAt[Head(delayedQueue)] <= tickTime
  /\ workQueue = << >> /\ inQueue = << >>
  /\ delayedQueue' = Tail(delayedQueue)
  /\ RunTimerTask(Head(delayedQueue))
  /\ UNCHANGED workQueue

RunDelayed ==
  /\ Looping /\ delayedQueue # << >> /\ dueAt[Head(delayedQueue)] <= tickTime
  /\ delayedQueue' = Tail(delayedQueue)
  /\ RunTimerTask(Head(delayedQueue))
  /\ UNCHANGED workQueue

(* The user's code in a task or in a destructor returns.                     *)
UserReturns ==
  /\ inTask # Nobody
  /\ DeleteTask(inTask)
  /\ inTask' = Nobody /\ callee' = Nobody
  /\ UNCHANGED <<life, endT, queuesT, userT, tickTime>>

-----------------------------------------------------------------------------
(* ~MessageLoop.  The first half of a round deletes what DoWork has taken,   *)
(* the second what was posted since.                                         *)
WillDestroy ==
  /\ Looping
  /\ life' = "dies" /\ round' = 1 /\ again' = FALSE /\ didDelete' = FALSE
  /\ UNCHANGED <<queuesT, tasksT, inTask, callee, userT, delayedTask, tickTime>>

Deleting == life = "dies" /\ inTask = Nobody

(* DeletePendingTasks on work_queue_: a delayed task is sorted in with the   *)
(* others, a task that was not delayed is dropped, but on Windows not deleted.*)
DeleteWork ==
  /\ Deleting /\ workQueue # << >>
  /\ workQueue' = Tail(workQueue) /\ didDelete' = TRUE
  /\ delayedQueue' = IF wait[Head(workQueue)] > 0 THEN AddToDelayed(Head(workQueue)) ELSE delayedQueue
  /\ UNCHANGED <<life, round, again, inQueue, tasksT, inTask, callee, userT, delayedTask, tickTime>>

(* Then on delayed_work_queue_; the object a task owns runs the user's code. *)
DeleteDelayed ==
  /\ Deleting /\ workQueue = << >> /\ delayedQueue # << >>
  /\ delayedQueue' = Tail(delayedQueue) /\ didDelete' = TRUE
  /\ LET k == Head(delayedQueue)
     IN \/ /\ k \in owners
           /\ inTask' = k /\ UNCHANGED <<tasksT, delayedTask>>
        \/ /\ k \notin owners
           /\ DeleteTask(k) /\ UNCHANGED inTask
  /\ UNCHANGED <<life, round, again, inQueue, workQueue, callee, userT, tickTime>>

Emptied == Deleting /\ workQueue = << >> /\ delayedQueue = << >>

ReloadForSecondHalf ==
  /\ Emptied /\ ~again
  /\ again' = TRUE /\ didDelete' = FALSE
  /\ workQueue' = inQueue /\ inQueue' = << >>
  /\ UNCHANGED <<life, round, delayedQueue, tasksT, inTask, callee, userT, delayedTask, tickTime>>

RoundEnds ==
  /\ Emptied /\ again
  /\ \/ /\ didDelete /\ round < Rounds
        /\ round' = round + 1 /\ again' = FALSE /\ didDelete' = FALSE
        /\ UNCHANGED life
     \/ /\ ~didDelete \/ round = Rounds
        /\ life' = "gone" /\ round' = 0 /\ again' = FALSE /\ didDelete' = FALSE
  /\ UNCHANGED <<queuesT, tasksT, inTask, callee, userT, delayedTask, tickTime>>

PassTime ==
  /\ tickTime < MaxTime
  /\ tickTime' = tickTime + 1
  /\ UNCHANGED <<life, endT, queuesT, tasksT, inTask, callee, userT, delayedTask>>

-----------------------------------------------------------------------------
LoopWorks == TakeWork \/ DelayWork \/ RunWork \/ RunDelayed
LoopEnds == DeleteWork \/ DeleteDelayed \/ ReloadForSecondHalf \/ RoundEnds

TimerNext == User \/ LoopWorks \/ UserReturns \/ WillDestroy \/ LoopEnds \/ PassTime

TimerSpec == TimerInit /\ [][TimerNext]_timerVars

(* The loop runs, the clock goes on, and the user's code returns.            *)
TimerFairSpec ==
  /\ TimerSpec /\ WF_timerVars(UserReturns) /\ WF_timerVars(PassTime)
  /\ SF_timerVars(TakeWork) /\ SF_timerVars(DelayWork)
  /\ SF_timerVars(RunWork) /\ SF_timerVars(RunDelayed)

-----------------------------------------------------------------------------
Queued == inQueue \o workQueue \o delayedQueue

(* Types; and a task is in one queue at most.                                *)
TimerTypeOK ==
  /\ life \in {"runs", "dies", "gone"} /\ round \in 0..Rounds
  /\ again \in BOOLEAN /\ didDelete \in BOOLEAN
  /\ allocated \subseteq Addresses /\ owners \subseteq allocated /\ existing \subseteq Timers
  /\ timerOf \in [Addresses -> Timers \cup {Nobody}] /\ wait \in [Addresses -> Nat]
  /\ dueAt \in [Addresses -> Nat] /\ tickTime \in 0..MaxTime
  /\ delayedTask \in [Timers -> Addresses \cup {Nobody}] /\ trigger \in [Delaying -> Nat]
  /\ inTask \in allocated \cup {Nobody} /\ callee \in Timers \cup {Nobody}
  /\ ToSet(Queued) \subseteq allocated \ {inTask} /\ IsInjective(Queued)

(* A timer and its task point at each other or not at all, and neither at     *)
(* something that was deleted: not after callbacks that destroy their timer, *)
(* nor with addresses reused, nor when the loop died first (timer.h, .cc).   *)
TimersLinked ==
  /\ TimerTypeOK
  /\ \A t \in Timers : IsRunning(t) =>
       t \in existing /\ delayedTask[t] \in allocated /\ timerOf[delayedTask[t]] = t
  /\ \A k \in allocated : timerOf[k] # Nobody =>
       timerOf[k] \in existing /\ delayedTask[timerOf[k]] = k

(* When ~MessageLoop is over no task is left in a queue, whatever was posted  *)
(* by the destructors of tasks ("deleting a task could result in the addition *)
(* of more tasks"), and no timer waits for a task that was delayed.          *)
LoopEndsClean ==
  life = "gone" =>
    /\ Queued = << >>
    /\ \A t \in Timers : IsRunning(t) => wait[delayedTask[t]] = 0

(* In every state of the loop, and when it is gone.                          *)
TimersSound == TimersLinked /\ LoopEndsClean

(* When a timer is expected to call back: for a DelayTimer, not when its task *)
(* runs.                                                                     *)
Expected == [t \in Timers |->
  IF ~IsRunning(t) THEN Nobody
  ELSE IF t \in Delaying THEN [at |-> trigger[t], every |-> DelayOf[t]]
  ELSE [at |-> dueAt[delayedTask[t]], every |-> wait[delayedTask[t]]]]

Timeouts == INSTANCE Timeout WITH
  Periodic <- Repeating, Idle <- Nobody,
  armed <- Expected,
  calling <- callee,
  open <- (life = "runs"),
  time <- tickTime

(* The timers do what Timeout promises: no callback before its time, after   *)
(* Stop, after the timer's destruction or twice; a DelayTimer is put off by  *)
(* every Reset although its task is not.                                     *)
KeepsTime == Timeouts!Spec

Overdue(t) == life = "runs" /\ Expected[t] # Nobody /\ Expected[t].at < tickTime

(* No timer stays overdue: while the loop lives a timer whose time is over    *)
(* calls back, or is stopped, reset or destroyed before it does.             *)
TimersFire == \A t \in Timers : []<>~Overdue(t)
=============================================================================
