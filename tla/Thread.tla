-------------------------------- MODULE Thread ---------------------------------
(***************************************************************************)
(* base::Thread (chromium/base/thread.cc): objects that start an OS thread   *)
(* with a message loop on it, and stop it.  An OS thread is the main one or  *)
(* the one of a Thread object; it runs tasks, which may themselves start and *)
(* stop other Thread objects.  Of the loop the model keeps the queue, and    *)
(* that a Quit takes effect when the queue is empty (message_loop.cc).       *)
(***************************************************************************)
EXTENDS Integers, Sequences

CONSTANTS
  Threads,     \* Thread objects, and the OS threads they start
  Main,        \* the OS thread that is there from the start
  Owner,       \* the OS thread that starts and stops a Thread object
  SoonStopped, \* objects for which StopSoon is called
  EagerStop,   \* whether Stop may follow StopSoon before the thread has ended
  MaxStarts,   \* bound on Start of an object
  MaxTasks     \* bound on the tasks posted to a thread

ASSUME OwnerAssumption == Main \notin Threads /\ Owner \in [Threads -> Threads \cup {Main}]
ASSUME UseAssumption   == SoonStopped \subseteq Threads /\ EagerStop \in BOOLEAN
ASSUME BoundAssumption == MaxStarts \in Nat /\ MaxTasks \in Nat

VARIABLES
  startup,   \* startup_data_: NULL, on the stack of a Start, or left over from one
  loop,      \* whether message_loop_ is set
  id,        \* whether thread_id_ is set
  event,     \* StartupData::event
  worker,    \* where ThreadMain is on the object's OS thread
  queue,     \* tasks of the message loop
  quit,      \* quit_received of the message loop
  properly,  \* lazy_tls_bool of each OS thread
  pc,        \* the owner's call on the object in progress
  soon,      \* history: StopSoon was called since Start
  starts,    \* history: calls of Start
  posted     \* history: tasks posted since Start

vars == <<startup, loop, id, event, worker, queue, quit, properly, pc, soon, starts, posted>>

object  == <<startup, loop, id, event>>
history == <<soon, starts, posted>>

Init ==
  /\ startup = [t \in Threads |-> "null"]
  /\ loop = [t \in Threads |-> FALSE] /\ id = [t \in Threads |-> FALSE]
  /\ event = [t \in Threads |-> FALSE]
  /\ worker = [t \in Threads |-> "none"]
  /\ queue = [t \in Threads |-> << >>] /\ quit = [t \in Threads |-> FALSE]
  /\ properly = [u \in Threads \cup {Main} |-> FALSE]
  /\ pc = [t \in Threads |-> "idle"]
  /\ soon = [t \in Threads |-> FALSE]
  /\ starts = [t \in Threads |-> 0] /\ posted = [t \in Threads |-> 0]

(* The message loop is a local of ThreadMain.                                *)
LoopAlive(t) == worker[t] \in {"starting", "looping", "task", "cleanup", "leaving"}

(* User code runs on u: on Main always, elsewhere in tasks and in CleanUp,   *)
(* unless it is in one of the calls below.                                   *)
UserRuns(u) ==
  /\ u # Main => worker[u] \in {"task", "cleanup"}
  /\ \A t \in Threads : Owner[t] = u => pc[t] = "idle"

(* A thread that starts others before it is told to quit.                    *)
MayStart(u) == worker[u] = "task" /\ ~quit[u]

-----------------------------------------------------------------------------
(* StartWithOptions up to the wait; the flag it clears is that of the        *)
(* calling thread.  Creation of the thread may fail.                         *)
Start(t) ==
  /\ UserRuns(Owner[t])
  /\ Owner[t] # Main => MayStart(Owner[t])
  /\ startup[t] = "null" /\ starts[t] < MaxStarts
  /\ starts' = [starts EXCEPT ![t] = @ + 1]
  /\ soon' = [soon EXCEPT ![t] = FALSE] /\ posted' = [posted EXCEPT ![t] = 0]
  /\ \/ /\ properly' = [properly EXCEPT ![Owner[t]] = FALSE, ![t] = FALSE]
        /\ startup' = [startup EXCEPT ![t] = "stack"]
        /\ worker' = [worker EXCEPT ![t] = "created"]
        /\ pc' = [pc EXCEPT ![t] = "waiting"]
     \/ /\ properly' = [properly EXCEPT ![Owner[t]] = FALSE]
        /\ UNCHANGED <<startup, worker, pc>>
  /\ UNCHANGED <<loop, id, event, queue, quit>>

(* Mutant of StartReturns: nobody waits.                                     *)
StartReturnsAtOnce(t) ==
  /\ pc[t] = "waiting"
  /\ startup' = [startup EXCEPT ![t] = "gone"]
  /\ pc' = [pc EXCEPT ![t] = "idle"]
  /\ UNCHANGED <<loop, id, event, worker, queue, quit, properly, history>>

(* The wait ends and StartWithOptions returns: startup_data_ now points to   *)
(* where startup_data was.                                                   *)
StartReturns(t) ==
  /\ pc[t] = "waiting"
  /\ event[t]
  /\ event' = [event EXCEPT ![t] = FALSE]
  /\ startup' = [startup EXCEPT ![t] = "gone"]
  /\ pc' = [pc EXCEPT ![t] = "idle"]
  /\ UNCHANGED <<loop, id, worker, queue, quit, properly, history>>

(* message_loop()->PostTask: by the owner, until it calls StopSoon, or by a  *)
(* task of the thread itself.                                                *)
PostTask(t) ==
  /\ \/ UserRuns(Owner[t]) /\ loop[t] /\ ~soon[t]
     \/ UserRuns(t) /\ worker[t] = "task"
  /\ posted[t] < MaxTasks
  /\ queue' = [queue EXCEPT ![t] = Append(@, "task")]
  /\ posted' = [posted EXCEPT ![t] = @ + 1]
  /\ UNCHANGED <<object, worker, quit, properly, pc, soon, starts>>

(* StopSoon, to the test of message_loop_.  It is called once.               *)
StopSoon(t) ==
  /\ UserRuns(Owner[t])
  /\ t \in SoonStopped /\ ~soon[t] /\ loop[t]
  /\ pc' = [pc EXCEPT ![t] = "post soon"]
  /\ soon' = [soon EXCEPT ![t] = TRUE]
  /\ UNCHANGED <<object, worker, queue, quit, properly, starts, posted>>

(* Mutant of Stop: nothing is posted.                                       *)
StopSilently(t) ==
  /\ UserRuns(Owner[t])
  /\ startup[t] # "null"
  /\ soon[t] /\ ~EagerStop => worker[t] = "ended"
  /\ pc' = [pc EXCEPT ![t] = "joining"]
  /\ UNCHANGED <<object, worker, queue, quit, properly, history>>

(* Stop, to the test of message_loop_.                                       *)
Stop(t) ==
  /\ UserRuns(Owner[t])
  /\ startup[t] # "null"
  /\ soon[t] /\ ~EagerStop => worker[t] = "ended"
  /\ pc' = [pc EXCEPT ![t] = IF loop[t] THEN "post quit" ELSE "joining"]
  /\ UNCHANGED <<object, worker, queue, quit, properly, history>>

(* message_loop_->PostTask(new ThreadQuitTask), in Stop and in StopSoon.     *)
PostQuit(t) ==
  /\ pc[t] \in {"post quit", "post soon"}
  /\ queue' = [queue EXCEPT ![t] = Append(@, "quit")]
  /\ pc' = [pc EXCEPT ![t] = IF @ = "post quit" THEN "joining" ELSE "idle"]
  /\ UNCHANGED <<object, worker, quit, properly, history>>

(* The rest of Stop.                                                         *)
Join(t) ==
  /\ pc[t] = "joining"
  /\ worker[t] = "ended"
  /\ startup' = [startup EXCEPT ![t] = "null"] /\ loop' = [loop EXCEPT ![t] = FALSE]
  /\ worker' = [worker EXCEPT ![t] = "none"]
  /\ pc' = [pc EXCEPT ![t] = "idle"]
  /\ UNCHANGED <<id, event, queue, quit, properly, history>>

-----------------------------------------------------------------------------
(* ThreadMain: the loop is made with the options of startup_data_.           *)
ThreadMain(t) ==
  /\ worker[t] = "created"
  /\ loop' = [loop EXCEPT ![t] = TRUE] /\ id' = [id EXCEPT ![t] = TRUE]
  /\ queue' = [queue EXCEPT ![t] = << >>] /\ quit' = [quit EXCEPT ![t] = FALSE]
  /\ worker' = [worker EXCEPT ![t] = "starting"]
  /\ UNCHANGED <<startup, event, properly, pc, history>>

(* startup_data_->event.Signal().                                            *)
SignalStarted(t) ==
  /\ worker[t] = "starting"
  /\ event' = [event EXCEPT ![t] = TRUE]
  /\ worker' = [worker EXCEPT ![t] = "looping"]
  /\ UNCHANGED <<startup, loop, id, queue, quit, properly, pc, history>>

RunTask(t) ==
  /\ worker[t] = "looping"
  /\ queue[t] # << >> /\ Head(queue[t]) = "task"
  /\ queue' = [queue EXCEPT ![t] = Tail(@)]
  /\ worker' = [worker EXCEPT ![t] = "task"]
  /\ UNCHANGED <<object, quit, properly, pc, history>>

TaskReturns(t) ==
  /\ worker[t] = "task" /\ UserRuns(t)
  /\ worker' = [worker EXCEPT ![t] = "looping"]
  /\ UNCHANGED <<object, queue, quit, properly, pc, history>>

ThreadQuitTask(t) ==
  /\ worker[t] = "looping"
  /\ queue[t] # << >> /\ Head(queue[t]) = "quit"
  /\ queue' = [queue EXCEPT ![t] = Tail(@)]
  /\ quit' = [quit EXCEPT ![t] = TRUE]
  /\ properly' = [properly EXCEPT ![t] = TRUE]
  /\ UNCHANGED <<object, worker, pc, history>>

(* Mutant of LoopQuits: the loop is left with tasks in the queue.            *)
LoopQuitsEarly(t) ==
  /\ worker[t] = "looping"
  /\ quit[t]
  /\ worker' = [worker EXCEPT ![t] = "cleanup"]
  /\ UNCHANGED <<object, queue, quit, properly, pc, history>>

(* The loop finds nothing to do and was told to quit; CleanUp is called.     *)
LoopQuits(t) ==
  /\ worker[t] = "looping"
  /\ queue[t] = << >> /\ quit[t]
  /\ worker' = [worker EXCEPT ![t] = "cleanup"]
  /\ UNCHANGED <<object, queue, quit, properly, pc, history>>

(* CleanUp returns; by then it has stopped the threads that this one owns.   *)
CleanUpReturns(t) ==
  /\ worker[t] = "cleanup" /\ UserRuns(t)
  /\ \A s \in Threads : Owner[s] = t => startup[s] = "null"
  /\ worker' = [worker EXCEPT ![t] = "leaving"]
  /\ loop' = [loop EXCEPT ![t] = FALSE]
  /\ UNCHANGED <<startup, id, event, queue, quit, properly, pc, history>>

(* thread_id_ is cleared, the loop is destroyed and the OS thread ends.      *)
ThreadEnds(t) ==
  /\ worker[t] = "leaving"
  /\ id' = [id EXCEPT ![t] = FALSE]
  /\ worker' = [worker EXCEPT ![t] = "ended"]
  /\ UNCHANGED <<startup, loop, event, queue, quit, properly, pc, history>>

-----------------------------------------------------------------------------
Call(t) == Start(t) \/ PostTask(t) \/ StopSoon(t) \/ Stop(t)

CallStep(t) == StartReturns(t) \/ PostQuit(t) \/ Join(t)

WorkerStep(t) ==
  \/ ThreadMain(t) \/ SignalStarted(t) \/ RunTask(t) \/ ThreadQuitTask(t)
  \/ LoopQuits(t) \/ ThreadEnds(t)

UserReturns(t) == TaskReturns(t) \/ CleanUpReturns(t)

Next == \E t \in Threads : Call(t) \/ CallStep(t) \/ WorkerStep(t) \/ UserReturns(t)

Spec == Init /\ [][Next]_vars

(* OS threads run, and user code returns: tasks end, and an owner stops what *)
(* it has started before it is gone.                                         *)
Fairness ==
  \A t \in Threads : /\ WF_vars(CallStep(t)) /\ WF_vars(WorkerStep(t))
                     /\ SF_vars(UserReturns(t))
                     /\ SF_vars(Owner[t] # Main /\ Stop(t))

FairSpec == Spec /\ Fairness

-----------------------------------------------------------------------------
Workers == {"none", "created", "starting", "looping", "task", "cleanup", "leaving", "ended"}
Calls   == {"idle", "waiting", "post soon", "post quit", "joining"}

(* "After this method returns, the Thread object is completely reset and may *)
(* be used as if it were newly constructed" (Stop).                          *)
StoppedIsReset ==
  \A t \in Threads :
    startup[t] = "null" => /\ ~loop[t] /\ ~id[t] /\ ~event[t]
                           /\ pc[t] = "idle" /\ worker[t] = "none"

(* "Upon successful return, the message_loop() getter will return non-null": *)
(* until it is told to stop, a thread that was started has its loop.         *)
StartedHasLoop ==
  \A t \in Threads : startup[t] = "gone" /\ pc[t] = "idle" /\ ~soon[t] => loop[t] /\ id[t]

(* Types; the OS thread is there exactly while startup_data_ says so,        *)
(* and an object that is stopped or started has the state its header promises.*)
TypeOK ==
  /\ startup \in [Threads -> {"null", "stack", "gone"}]
  /\ \A t \in Threads : startup[t] = "null" <=> worker[t] = "none"
  /\ loop \in [Threads -> BOOLEAN] /\ id \in [Threads -> BOOLEAN]
  /\ event \in [Threads -> BOOLEAN] /\ quit \in [Threads -> BOOLEAN]
  /\ worker \in [Threads -> Workers] /\ pc \in [Threads -> Calls]
  /\ queue \in [Threads -> Seq({"task", "quit"})]
  /\ properly \in [Threads \cup {Main} -> BOOLEAN]
  /\ soon \in [Threads -> BOOLEAN]
  /\ starts \in [Threads -> Nat] /\ posted \in [Threads -> Nat]
  /\ StoppedIsReset /\ StartedHasLoop

(* ThreadMain uses startup_data_ only while Start, on whose stack it is, is  *)
(* waiting: "startup_data_ can't be touched anymore since the starting       *)
(* thread is now unlocked".                                                  *)
StartupDataInUse ==
  \A t \in Threads : worker[t] \in {"created", "starting"} => startup[t] = "stack"

(* Who is about to post to the loop posts to a loop that is alive; "StopSoon *)
(* may have already been called" (Stop), which is why message_loop_ is       *)
(* tested.                                                                   *)
PostToLiveLoop ==
  \A t \in Threads : /\ pc[t] \in {"post quit", "post soon"} => LoopAlive(t)
                     /\ loop[t] => LoopAlive(t)

(* "All pending tasks queued on the thread's message loop will run to        *)
(* completion before the thread is terminated."                              *)
PendingTasksRun ==
  \A t \in Threads : worker[t] \in {"leaving", "ended"} =>
    \A n \in DOMAIN queue[t] : queue[t][n] # "task"

(* "Assert that MessageLoop::Quit was called by ThreadQuitTask."             *)
QuitProperly == [][\A t \in Threads : CleanUpReturns(t) => properly[t]]_vars

(* Start and Stop return.                                                    *)
CallsReturn == \A t \in Threads : pc[t] # "idle" ~> pc[t] = "idle"

(* In every state: the object is as its header promises, its start-up data   *)
(* outlive their use, and posts go to live loops.                            *)
ThreadSound == TypeOK /\ StartupDataInUse /\ PostToLiveLoop

(* Threads end as they were told to, and Start and Stop do not wait for ever. *)
ThreadsStop == QuitProperly /\ CallsReturn
=============================================================================
