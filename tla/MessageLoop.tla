------------------------------ MODULE MessageLoop ------------------------------
(***************************************************************************)
(* MessageLoop (chromium/base/message_loop.cc) on MessagePumpDefault: tasks  *)
(* posted by any thread, at once or with a delay, run one at a time by the   *)
(* loop's thread.  A task may run the loop again from within; such a nested  *)
(* Run defers the tasks that are not nestable.  stack has one frame per Run  *)
(* on the call stack, with the place of its MessagePumpDefault::Run in "at". *)
(* keep_running_ is false only between pump_->Quit() in DoIdleWork and the   *)
(* test behind it, which are one step here.                                  *)
(***************************************************************************)
EXTENDS Integers, SequencesExt

CONSTANTS
  Tasks,        \* the tasks; each is posted once
  Nestable,     \* those posted as nestable
  Delays,       \* the delay_ms each may be posted with
  Nesters,      \* the tasks that may run the loop again
  MaxDepth,     \* bound on Runs on the stack
  MaxNow        \* bound on the clock

ASSUME TaskAssumption  ==
  /\ Nestable \subseteq Tasks /\ Delays \in [Tasks -> SUBSET Nat]
  /\ Tasks \cap {"work", "delayed", "idle", "wait"} = {}
ASSUME UseAssumption   == Nesters \subseteq Tasks
ASSUME BoundAssumption == MaxDepth \in Nat \ {0} /\ MaxNow \in Nat

VARIABLES
  incoming,   \* incoming_queue_
  work,       \* work_queue_
  delayed,    \* delayed_work_queue_, the next task first
  deferred,   \* deferred_non_nestable_work_queue_
  due,        \* delayed_run_time of the tasks, Null for the null time
  stack,      \* the Runs on the stack, outermost first
  allowed,    \* nestable_tasks_allowed_
  event,      \* event_ of the pump is signaled
  waking,     \* posters between the queue's lock and ScheduleWork
  next,       \* delayed_work_time_ of the pump
  now,        \* the clock
  posted,     \* history: the tasks in the order they were posted
  ran,        \* history: the tasks in the order they were started
  nested      \* history: tasks that ran the loop again

vars == <<incoming, work, delayed, deferred, due, stack, allowed, event, waking, next, now, posted, ran, nested>>

queues == <<incoming, work, delayed, deferred>>
env    == <<due, waking, now, posted, nested>>

Null == -1

Depth == Len(stack)
Top   == stack[Depth]
At(p) == Depth > 0 /\ Top.at = p

(* The top frame goes on at p.                                               *)
GoTo(p) == stack' = [stack EXCEPT ![Depth].at = p, ![Depth].left = FALSE]

Init ==
  /\ incoming = << >> /\ work = << >> /\ delayed = << >> /\ deferred = << >>
  /\ due = [t \in Tasks |-> Null]
  /\ stack = << >> /\ allowed = TRUE
  /\ event = FALSE /\ waking = 0 /\ next = Null /\ now = 0
  /\ posted = << >> /\ ran = << >> /\ nested = {}

Frame(all, may) ==
  [at |-> "work", quit |-> all, did |-> FALSE, granted |-> may, back |-> "work", left |-> FALSE]

-----------------------------------------------------------------------------
(* PostTask_Helper, on any thread: a thread that finds the queue empty wakes *)
(* the pump when it has left the lock.                                       *)
PostTask(t) ==
  /\ ~Contains(posted, t)
  /\ posted' = Append(posted, t)
  /\ \E ms \in Delays[t] : due' = [due EXCEPT ![t] = IF ms > 0 THEN now + ms ELSE Null]
  /\ incoming' = Append(incoming, t)
  /\ waking' = IF incoming = << >> THEN waking + 1 ELSE waking
  /\ UNCHANGED <<work, delayed, deferred, stack, allowed, event, next, now, ran, nested>>

ScheduleWork ==
  /\ waking > 0
  /\ waking' = waking - 1
  /\ event' = TRUE
  /\ UNCHANGED <<queues, due, stack, allowed, next, now, posted, ran, nested>>

Tick ==
  /\ now < MaxNow
  /\ now' = now + 1
  /\ UNCHANGED <<queues, due, stack, allowed, event, waking, next, posted, ran, nested>>

-----------------------------------------------------------------------------
(* RunTask up to task->Run(), called from the pump's top frame, which goes   *)
(* on at "back" when the task has returned.                                  *)
RunTask(t, back) ==
  /\ stack' = [stack EXCEPT ![Depth].at = t, ![Depth].did = FALSE, ![Depth].back = back,
                         ![Depth].left = FALSE]
  /\ allowed' = FALSE
  /\ ran' = Append(ran, t)

(* The test of DeferOrRunPendingTask.                                       *)
RunNow(t) == t \in Nestable \/ Depth = 1

(* Mutant of AddedToDelayed: the sequence numbers are compared the wrong way.*)
AddedBeforeEquals(t) ==
  LET sooner == {n \in DOMAIN delayed : due[delayed[n]] < due[t]}
  IN  InsertAt(delayed, 1 + Cardinality(sooner), t)

(* AddToDelayedWorkQueue: by time, and tasks for the same time in the order  *)
(* they come, which is what sequence_num is for.                             *)
AddedToDelayed(t) ==
  LET sooner == {n \in DOMAIN delayed : due[delayed[n]] <= due[t]}
  IN  InsertAt(delayed, 1 + Cardinality(sooner), t)

-----------------------------------------------------------------------------
(* DoWork may not run tasks now.                                             *)
DoWorkRefused ==
  /\ At("work") /\ ~allowed
  /\ GoTo("delayed")
  /\ UNCHANGED <<queues, allowed, event, next, ran, env>>

(* "Acquire all we can from the inter-thread queue", when work_queue_ is empty.*)
ReloadWorkQueue ==
  /\ At("work") /\ allowed
  /\ work = << >> /\ incoming # << >>
  /\ work' = incoming /\ incoming' = << >>
  /\ UNCHANGED <<delayed, deferred, stack, allowed, event, next, ran, env>>

(* DoWork with a delayed task: "If we changed the topmost task, then it is   *)
(* time to re-schedule."                                                     *)
DoWorkDelays ==
  /\ At("work") /\ allowed /\ work # << >>
  /\ LET t == Head(work)
     IN
     /\ due[t] # Null
     /\ work' = Tail(work)
     /\ delayed' = AddedToDelayed(t)
     /\ next' = IF Head(delayed') = t THEN due[t] ELSE next
  /\ UNCHANGED <<incoming, deferred, stack, allowed, event, ran, env>>

DoWorkRuns ==
  /\ At("work") /\ allowed /\ work # << >>
  /\ due[Head(work)] = Null /\ RunNow(Head(work))
  /\ work' = Tail(work)
  /\ RunTask(Head(work), "delayed")
  /\ UNCHANGED <<incoming, delayed, deferred, event, next, env>>

DoWorkDefers ==
  /\ At("work") /\ allowed /\ work # << >>
  /\ due[Head(work)] = Null /\ ~RunNow(Head(work))
  /\ work' = Tail(work)
  /\ deferred' = Append(deferred, Head(work))
  /\ UNCHANGED <<incoming, delayed, stack, allowed, event, next, ran, env>>

DoWorkEnds ==
  /\ At("work") /\ allowed
  /\ work = << >> /\ incoming = << >>
  /\ GoTo("delayed")
  /\ UNCHANGED <<queues, allowed, event, next, ran, env>>

-----------------------------------------------------------------------------
(* Whether a delayed task is left that the top frame could run now.          *)
LeavesDue == allowed /\ \E t \in ToSet(delayed') : RunNow(t) /\ due[t] <= now

(* The pump after DoDelayedWork returned false: "continue" if DoWork worked. *)
AfterDelayed ==
  stack' = [stack EXCEPT ![Depth].at = IF Top.did THEN "work" ELSE "idle",
                         ![Depth].did = FALSE, ![Depth].left = ~Top.did /\ LeavesDue]

(* DoDelayedWork with nothing that may run, or nothing that is due.          *)
DoDelayedWorkNone ==
  /\ At("delayed") /\ (~allowed \/ delayed = << >>)
  /\ next' = Null
  /\ UNCHANGED <<queues, allowed, event, ran, env>>
  /\ AfterDelayed

DoDelayedWorkEarly ==
  /\ At("delayed") /\ allowed /\ delayed # << >>
  /\ due[Head(delayed)] > now
  /\ next' = due[Head(delayed)]
  /\ UNCHANGED <<queues, allowed, event, ran, env>>
  /\ AfterDelayed

(* DoDelayedWork with a task that is due: it is run or deferred, and where it*)
(* is the last one the time is left as it was.                               *)
DoDelayedWork ==
  /\ At("delayed") /\ allowed /\ delayed # << >>
  /\ due[Head(delayed)] <= now
  /\ delayed' = Tail(delayed)
  /\ next' = IF delayed' = << >> THEN next ELSE due[Head(delayed')]
  /\ \/ /\ RunNow(Head(delayed))
        /\ RunTask(Head(delayed), "work")
        /\ UNCHANGED deferred
     \/ /\ ~RunNow(Head(delayed))
        /\ deferred' = Append(deferred, Head(delayed))
        /\ AfterDelayed
        /\ UNCHANGED <<allowed, ran>>
  /\ UNCHANGED <<incoming, work, event, env>>

-----------------------------------------------------------------------------
(* ProcessNextDelayedNonNestableTask finds a task.                           *)
DoIdleWorkRuns ==
  /\ At("idle") /\ Depth = 1 /\ deferred # << >>
  /\ deferred' = Tail(deferred)
  /\ RunTask(Head(deferred), "work")
  /\ UNCHANGED <<incoming, work, delayed, event, next, env>>

IdleWorkDone == At("idle") /\ (Depth > 1 \/ deferred = << >>)

(* Mutant of QuitsWhenIdle: Quit does not wait for the deferred tasks.       *)
QuitsAtOnce ==
  /\ At("idle") /\ Top.quit
  /\ stack' = Front(stack)
  /\ allowed' = (Depth = 1)
  /\ UNCHANGED <<queues, event, next, ran, env>>

(* DoIdleWork quits the pump, and Run returns: to its caller, or to the task *)
(* that called it, which sets nestable_tasks_allowed_ as it was before.      *)
QuitsWhenIdle ==
  /\ IdleWorkDone /\ Top.quit
  /\ stack' = Front(stack)
  /\ allowed' = (Depth = 1)
  /\ UNCHANGED <<queues, event, next, ran, env>>

(* The pump sleeps, unless it is past the time of the next delayed task.     *)
Sleep ==
  /\ IdleWorkDone /\ ~Top.quit
  /\ \/ /\ next # Null /\ next <= now
        /\ next' = Null
        /\ GoTo("work")
     \/ /\ next = Null \/ next > now
        /\ UNCHANGED next
        /\ GoTo("wait")
  /\ UNCHANGED <<queues, allowed, event, ran, env>>

WakeUp ==
  /\ At("wait")
  /\ \/ event
     \/ next # Null /\ next <= now
  /\ event' = FALSE
  /\ GoTo("work")
  /\ UNCHANGED <<queues, allowed, next, ran, env>>

-----------------------------------------------------------------------------
(* Run and RunAllPending called by the owner of the loop.                    *)
Run ==
  /\ Depth = 0
  /\ \E all \in BOOLEAN : stack' = <<Frame(all, TRUE)>>
  /\ UNCHANGED <<queues, allowed, event, next, ran, env>>

InTask == Depth > 0 /\ Top.at \in Tasks

(* MessageLoop::Quit, by a task.                                             *)
Quit ==
  /\ InTask /\ ~Top.quit
  /\ stack' = [stack EXCEPT ![Depth].quit = TRUE]
  /\ UNCHANGED <<queues, allowed, event, next, ran, env>>

(* A task runs the loop again, once: with SetNestableTasksAllowed(true), which*)
(* schedules work, or, for RunAllPending, also without.                      *)
NestedRun ==
  /\ InTask /\ Depth < MaxDepth
  /\ Top.at \in Nesters \ nested
  /\ nested' = nested \cup {Top.at}
  /\ \E all, may \in BOOLEAN :
       /\ all \/ may
       /\ stack' = Append(stack, Frame(all, may))
       /\ allowed' = (allowed \/ may)
       /\ event' = (event \/ may)
  /\ UNCHANGED <<queues, next, ran, due, waking, now, posted>>

(* Mutant of TaskReturns: RunTask leaves nestable_tasks_allowed_ false.      *)
TaskReturnsDisallowing ==
  /\ InTask
  /\ GoTo(Top.back)
  /\ UNCHANGED <<queues, allowed, event, next, ran, env>>

(* The rest of RunTask.                                                      *)
TaskReturns ==
  /\ InTask
  /\ stack' = [stack EXCEPT ![Depth].at = Top.back, ![Depth].did = Top.back = "delayed",
                         ![Depth].back = "work"]
  /\ allowed' = TRUE
  /\ UNCHANGED <<queues, event, next, ran, env>>

-----------------------------------------------------------------------------
Pump ==
  \/ DoWorkRefused \/ ReloadWorkQueue \/ DoWorkDelays \/ DoWorkRuns \/ DoWorkDefers \/ DoWorkEnds
  \/ DoDelayedWorkNone \/ DoDelayedWorkEarly \/ DoDelayedWork
  \/ DoIdleWorkRuns \/ QuitsWhenIdle \/ Sleep \/ WakeUp

User == Run \/ Quit \/ NestedRun \/ TaskReturns

Next ==
  \/ Pump \/ User \/ ScheduleWork \/ Tick
  \/ \E t \in Tasks : PostTask(t)

Spec == Init /\ [][Next]_vars

(* The threads run, time goes on, tasks return, and the loop is run again    *)
(* after a Quit.                                                             *)
FairSpec ==
  /\ Spec /\ WF_vars(Pump) /\ WF_vars(ScheduleWork) /\ WF_vars(Tick)
  /\ WF_vars(TaskReturns) /\ WF_vars(Run)

-----------------------------------------------------------------------------
Places == {"work", "delayed", "idle", "wait"} \cup Tasks

Frames == [at : Places, quit : BOOLEAN, did : BOOLEAN, granted : BOOLEAN,
           back : {"work", "delayed"}, left : BOOLEAN]

(* Types; a task is in one place: a queue, on the stack, or it is done.      *)
TypeOK ==
  /\ stack \in Seq(Frames) /\ Depth <= MaxDepth
  /\ due \in [Tasks -> Nat \cup {Null}] /\ next \in Nat \cup {Null} /\ now \in Nat
  /\ allowed \in BOOLEAN /\ event \in BOOLEAN /\ waking \in Nat /\ nested \subseteq Tasks
  /\ ToSet(posted) \subseteq Tasks /\ IsInjective(posted)
  /\ IsInjective(incoming \o work \o delayed \o deferred \o ran)
  /\ ToSet(incoming \o work \o delayed \o deferred \o ran) = ToSet(posted)

(* "if a task is being processed, a second task cannot start until the first *)
(* task is finished", unless the first one allowed it; and then none that is *)
(* not nestable is dispatched "from a nested invocation of MessageLoop::Run".*)
Reentrancy ==
  \A n \in 2..Depth : stack[n].at \in Tasks => stack[n].granted /\ stack[n].at \in Nestable

(* Of two tasks the second was posted later, is not for an earlier time, and *)
(* has been started, but the first has not.                                  *)
Overtakes(t, s) ==
  /\ \E m, n \in DOMAIN posted : m < n /\ posted[m] = s /\ posted[n] = t
  /\ due[s] <= due[t]
  /\ Contains(ran, t) /\ ~Contains(ran, s)

AtOnce == {t \in Tasks : due[t] = Null}

(* "With the PostTask variant, tasks are invoked in FIFO order", also across *)
(* nested Runs; so are delayed ones for the same time, which "are called     *)
(* after at least approximately 'delay_ms' have elapsed".                    *)
InTimeAndOrder ==
  /\ \A s, t \in Nestable \cap AtOnce : ~Overtakes(t, s)
  /\ \A s, t \in Nestable \ AtOnce : ~Overtakes(t, s)
  /\ \A t \in ToSet(ran) : due[t] <= now

(* A pump goes to sleep only with nothing to do: whatever is posted wakes it,*)
(* and no delayed task is due before it wakes up.                            *)
NeverOversleeps ==
  At("wait") =>
    /\ allowed /\ work = << >> /\ ~Top.quit
    /\ incoming # << >> => event \/ waking > 0
    /\ delayed # << >> => next # Null /\ next <= due[Head(delayed)]
    /\ Depth = 1 => deferred = << >>

(* "Signals the Run method to return after it is done processing all pending *)
(* messages": a Run that returns leaves no task it could have run but those  *)
(* that came last.                                                           *)
QuitDrains ==
  [][Depth > 0 /\ stack' = Front(stack) =>
       /\ allowed => work = << >>
       /\ Depth = 1 => deferred = << >>]_vars

(* "Return as soon as all items that can be run are taken care of"           *)
(* (RunAllPending): no task was due, when DoDelayedWork looked, that the Run   *)
(* could have run.                                                           *)
PendingTaken == [][Depth > 0 /\ stack' = Front(stack) => ~Top.left]_vars

(* A Run that returns leaves behind nothing that it should have run.          *)
RunsDrain == QuitDrains /\ PendingTaken

(* Every task posted is started, if its time comes while the clock runs and  *)
(* no nested Run goes on for ever.                                           *)
AllRun ==
  []<>(Depth <= 1) =>
    \A t \in Tasks : Contains(posted, t) /\ due[t] <= MaxNow ~> Contains(ran, t)

(* In every state: each task in one place, none entered without leave, too    *)
(* early or before one posted earlier, and a pump that sleeps can be woken    *)
(* for all there is to do.                                                   *)
LoopSound == TypeOK /\ Reentrancy /\ InTimeAndOrder /\ NeverOversleeps
=============================================================================
