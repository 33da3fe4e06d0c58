----------------------------- MODULE ObjectWatcher -----------------------------
(***************************************************************************)
(* base::ObjectWatcher (chromium/base/object_watcher.cc): tells a delegate   *)
(* on the origin thread that a Windows object was signaled.  A wait thread   *)
(* of the system runs DoneWaiting, which posts the Watch, a heap object and  *)
(* a task in one, to the origin thread's message loop.  The model follows    *)
(* one ObjectWatcher, its watches one after the other, and the two threads.  *)
(***************************************************************************)
EXTENDS Integers, Sequences, FiniteSets

CONSTANTS
  Watches,   \* the Watch objects there is memory for; bounds StartWatching
  None       \* NULL

ASSUME NoneAssumption    == None \notin Watches
ASSUME WatchesAssumption == IsFiniteSet(Watches)

VARIABLES
  heap,        \* Watch objects: unused, live or freed
  watcher,     \* Watch::watcher is not NULL
  did_signal,  \* Watch::did_signal
  watch,       \* ObjectWatcher::watch_
  alive,       \* the ObjectWatcher exists
  observing,   \* it is a destruction observer of the loop
  wait,        \* the system's wait for a Watch, and where its callback is
  queue,       \* Watches posted to the origin loop
  running,     \* Watch that the loop runs
  pc,          \* where the origin thread is
  ret,         \* where StopWatching returns to
  awaited      \* history: the Watch whose signal the user waits for

watcherVars == <<heap, watcher, did_signal, watch, alive, observing, wait, queue, running, pc, ret, awaited>>

memory == <<heap, watcher, did_signal>>

WatcherInit ==
  /\ heap = [w \in Watches |-> "unused"]
  /\ watcher = [w \in Watches |-> FALSE] /\ did_signal = [w \in Watches |-> FALSE]
  /\ watch = None /\ alive = TRUE /\ observing = FALSE
  /\ wait = [w \in Watches |-> "none"]
  /\ queue = << >> /\ running = None
  /\ pc = "loop" /\ ret = "loop" /\ awaited = None

-----------------------------------------------------------------------------
(* StartWatching up to and with RegisterWaitForSingleObject.                 *)
StartWatching(w) ==
  /\ pc = "user" /\ alive /\ watch = None
  /\ heap[w] = "unused"
  /\ watcher' = [watcher EXCEPT ![w] = TRUE] /\ did_signal' = [did_signal EXCEPT ![w] = FALSE]
  /\ \/ /\ heap' = [heap EXCEPT ![w] = "live"]
        /\ wait' = [wait EXCEPT ![w] = "registered"]
        /\ awaited' = w
        /\ pc' = "registered"
     \/ /\ heap' = [heap EXCEPT ![w] = "freed"]
        /\ UNCHANGED <<wait, awaited, pc>>
  /\ UNCHANGED <<watch, alive, observing, queue, running, ret>>

(* The rest of StartWatching, in which the wait may already be over.         *)
Watching ==
  /\ pc = "registered"
  /\ watch' = awaited /\ observing' = TRUE
  /\ pc' = "user"
  /\ UNCHANGED <<memory, alive, wait, queue, running, ret, awaited>>

(* Mutants of Unregistered: the wait thread is not waited for; the Watch is  *)
(* left armed.                                                               *)
UnregisteredAtOnce ==
  /\ watcher' = [watcher EXCEPT ![watch] = FALSE]
  /\ heap' = IF did_signal[watch] THEN heap ELSE [heap EXCEPT ![watch] = "freed"]
  /\ watch' = None /\ observing' = FALSE

UnregisteredArmed ==
  /\ wait[watch] \in {"registered", "over"}
  /\ UNCHANGED watcher
  /\ heap' = IF did_signal[watch] THEN heap ELSE [heap EXCEPT ![watch] = "freed"]
  /\ watch' = None /\ observing' = FALSE

(* StopWatching once UnregisterWaitEx returns, which it does when DoneWaiting*)
(* has returned or will never be called.                                     *)
Unregistered ==
  /\ wait[watch] \in {"registered", "over"}
  /\ watcher' = [watcher EXCEPT ![watch] = FALSE]
  /\ heap' = IF did_signal[watch] THEN heap ELSE [heap EXCEPT ![watch] = "freed"]
  /\ watch' = None /\ observing' = FALSE

StopReturns ==
  /\ pc = "stop"
  /\ pc' = ret
  /\ \/ /\ watch = None
        /\ UNCHANGED <<heap, watcher, watch, observing, wait>>
     \/ /\ watch # None
        /\ Unregistered
        /\ wait' = [wait EXCEPT ![watch] = IF @ = "registered" THEN "over" ELSE @]
  /\ UNCHANGED <<did_signal, alive, queue, running, ret, awaited>>

(* StopWatching called by the user.                                          *)
StopWatching ==
  /\ pc = "user" /\ alive
  /\ pc' = "stop" /\ ret' = "user"
  /\ awaited' = None
  /\ UNCHANGED <<memory, watch, alive, observing, wait, queue, running>>

(* ~ObjectWatcher.                                                           *)
Destroy ==
  /\ pc = "user" /\ alive
  /\ alive' = FALSE
  /\ pc' = "stop" /\ ret' = "user"
  /\ awaited' = None
  /\ UNCHANGED <<memory, watch, observing, wait, queue, running>>

-----------------------------------------------------------------------------
(* The loop runs some task of the user.                                      *)
RunUserTask ==
  /\ pc = "loop"
  /\ pc' = "user"
  /\ UNCHANGED <<memory, watch, alive, observing, wait, queue, running, ret, awaited>>

(* Watch::Run up to its call of StopWatching; without a watcher it returns,  *)
(* and the loop deletes it.                                                  *)
RunWatch ==
  /\ pc = "loop" /\ queue # << >>
  /\ queue' = Tail(queue)
  /\ \/ /\ watcher[Head(queue)]
        /\ running' = Head(queue)
        /\ pc' = "stop" /\ ret' = "notify"
        /\ UNCHANGED heap
     \/ /\ ~watcher[Head(queue)]
        /\ heap' = [heap EXCEPT ![Head(queue)] = "freed"]
        /\ UNCHANGED <<running, pc, ret>>
  /\ UNCHANGED <<watcher, did_signal, watch, alive, observing, wait, awaited>>

(* delegate->OnObjectSignaled, in which the user may do as in any task.      *)
Notify ==
  /\ pc = "notify"
  /\ pc' = "user"
  /\ awaited' = None
  /\ UNCHANGED <<memory, watch, alive, observing, wait, queue, running, ret>>

(* A task returns, and the loop deletes it.                                  *)
TaskReturns ==
  /\ pc = "user"
  /\ pc' = "loop"
  /\ running' = None
  /\ heap' = IF running = None THEN heap ELSE [heap EXCEPT ![running] = "freed"]
  /\ UNCHANGED <<watcher, did_signal, watch, alive, observing, wait, queue, ret, awaited>>

(* ~MessageLoop calls WillDestroyCurrentMessageLoop of its observers; tasks  *)
(* left in the queue are not run.                                            *)
DestroyLoop ==
  /\ pc = "loop"
  /\ \/ observing /\ pc' = "stop" /\ ret' = "gone" /\ awaited' = None
     \/ ~observing /\ pc' = "gone" /\ UNCHANGED <<ret, awaited>>
  /\ UNCHANGED <<memory, watch, alive, observing, wait, queue, running>>

-----------------------------------------------------------------------------
(* The object is signaled: the wait thread calls DoneWaiting, once.          *)
Signaled(w) ==
  /\ wait[w] = "registered"
  /\ wait' = [wait EXCEPT ![w] = "called"]
  /\ UNCHANGED <<memory, watch, alive, observing, queue, running, pc, ret, awaited>>

DoneWaiting(w) ==
  /\ wait[w] = "called"
  /\ did_signal' = [did_signal EXCEPT ![w] = TRUE]
  /\ wait' = [wait EXCEPT ![w] = "marked"]
  /\ UNCHANGED <<heap, watcher, watch, alive, observing, queue, running, pc, ret, awaited>>

(* Mutant of PostWatch: the task is handed over while the loop is idle.      *)
PostWatchWaiting(w) ==
  /\ wait[w] = "marked" /\ pc = "loop"
  /\ queue' = Append(queue, w)
  /\ wait' = [wait EXCEPT ![w] = "posted"]
  /\ UNCHANGED <<memory, watch, alive, observing, running, pc, ret, awaited>>

(* origin_loop->PostTask(watch), up to where its lock is released.           *)
PostWatch(w) ==
  /\ wait[w] = "marked"
  /\ queue' = Append(queue, w)
  /\ wait' = [wait EXCEPT ![w] = "posted"]
  /\ UNCHANGED <<memory, watch, alive, observing, running, pc, ret, awaited>>

(* PostTask has woken the loop, and DoneWaiting returns.                     *)
DoneReturns(w) ==
  /\ wait[w] = "posted"
  /\ wait' = [wait EXCEPT ![w] = "over"]
  /\ UNCHANGED <<memory, watch, alive, observing, queue, running, pc, ret, awaited>>

-----------------------------------------------------------------------------
Origin == Watching \/ StopReturns \/ Notify \/ TaskReturns

User ==
  \/ \E w \in Watches : StartWatching(w)
  \/ StopWatching \/ Destroy \/ RunUserTask \/ DestroyLoop

WaitThread(w) == DoneWaiting(w) \/ PostWatch(w) \/ DoneReturns(w)

WatcherNext == Origin \/ User \/ RunWatch \/ \E w \in Watches : Signaled(w) \/ WaitThread(w)

WatcherSpec == WatcherInit /\ [][WatcherNext]_watcherVars

(* Both threads run, and the loop serves its queue among the user's tasks.   *)
WatcherFairSpec ==
  /\ WatcherSpec /\ WF_watcherVars(Origin) /\ SF_watcherVars(TaskReturns) /\ SF_watcherVars(RunWatch)
  /\ \A w \in Watches : WF_watcherVars(WaitThread(w))

-----------------------------------------------------------------------------
(* WatcherTypes; every Watch is posted once at most.                                *)
TypeOK ==
  /\ heap \in [Watches -> {"unused", "live", "freed"}]
  /\ watcher \in [Watches -> BOOLEAN] /\ did_signal \in [Watches -> BOOLEAN]
  /\ {watch, running, awaited} \subseteq Watches \cup {None}
  /\ alive \in BOOLEAN /\ observing \in BOOLEAN
  /\ wait \in [Watches -> {"none", "registered", "called", "marked", "posted", "over"}]
  /\ queue \in Seq(Watches) /\ Len(queue) <= Cardinality(Watches)
  /\ pc \in {"loop", "user", "registered", "stop", "notify", "gone"}
  /\ ret \in {"loop", "user", "notify", "gone"}

Pending == IF running = None THEN queue ELSE <<running>> \o queue

(* Nothing is used after it is gone.  While DoneWaiting is in progress its   *)
(* Watch is there and so is the loop it posts to ("prevent the wait thread   *)
(* from trying to access a dead message loop"); a Watch that is posted or    *)
(* being run is there, and there once, for either the loop deletes it or     *)
(* StopWatching does; and the loop has no destroyed ObjectWatcher for an     *)
(* observer.                                                                 *)
NothingDangles ==
  /\ \A w \in Watches : wait[w] \in {"called", "marked", "posted"} => heap[w] = "live" /\ pc # "gone"
  /\ \A n \in DOMAIN Pending : heap[Pending[n]] = "live"
  /\ \A m, n \in DOMAIN Pending : Pending[m] = Pending[n] => m = n
  /\ observing => alive \/ pc = "stop"

(* No Watch is lost before the loop goes: a live one is watch_, or posted, or*)
(* being run, or being registered.                                           *)
NoLeak ==
  \A w \in Watches : heap[w] = "live" =>
    \/ w \in {watch, running} \/ \E n \in DOMAIN queue : queue[n] = w
    \/ pc = "registered" /\ awaited = w
    \/ pc = "gone"

(* "the associated delegate is not notified" after StopWatching, and         *)
(* "any in-flight notification is suppressed" when the ObjectWatcher is gone:*)
(* OnObjectSignaled is called only for the Watch that the user waits for.    *)
NotifiesAwaited == pc = "notify" => awaited = running /\ awaited # None /\ alive

(* "When the object is signaled, the given delegate is notified", unless     *)
(* watching was stopped.                                                     *)
SignalAnswered == \A w \in Watches : awaited = w /\ wait[w] = "called" ~> awaited # w

(* StopWatching returns: waiting for DoneWaiting is no deadlock.             *)
StopEnds == pc = "stop" ~> pc # "stop"

(* In every state: each Watch that is used is there, and each that is there  *)
(* will be freed.                                                            *)
WatchesSound == TypeOK /\ NothingDangles /\ NoLeak

(* Waiting ends: for a signal, and in StopWatching.                          *)
WaitsEnd == SignalAnswered /\ StopEnds
=============================================================================
