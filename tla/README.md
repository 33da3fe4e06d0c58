# varlib in TLA+

varlib is a collection of C and C++ code for Windows: a message loop of its own
(`src/common`), a copy of Chromium's `base` library as of 2009
(`src/chromium/base`), container libraries (`src/datastruct`), and small
utilities (`src/string`, `src/util`, `src/dbug`).  This directory holds models
of the parts whose correctness depends on the order in which things happen, or
on links between nodes that many functions keep up together; the TLC runs that
check them; and proofs about the loops, the timers, the threads and the
observers.

## 1. The system

### Components that are modelled

**MiniLoop** (`common/mini_loop.cpp`, `.h`, `common/pump.cpp`,
`common/waitable_event.cpp`).
State: `incoming_job_` (under a lock), `work_job_`, the priority queue
`delayed_job_`, `next_seq_num`, the chain of `RunState`s, and in the pump
`keep_running_`, `delayed_work_time_` and an auto-reset event.
Operations: `PostJob`, `PostDelayJob` (any thread); `Run` (may nest), `Quit`
(the loop's thread).
Hard: the event is signalled outside the lock and only by the poster that finds
the queue empty; one set of queues and one `keep_running_` serve all nested
Runs; the time to sleep is handed over through a variable that several methods
write; ticks are ints that wrap.
Correct when: no wake-up is lost, no job is dropped, repeated, overtaken or put
off, nobody sleeps past a due time, a Run that is told to quit returns.

**MessageLoop and MessagePumpDefault** (`chromium/base/message_loop.cc`,
`message_pump_default.cc`).
The loop MiniLoop was derived from, with two more things: tasks that must not
run in a nested loop (`deferred_non_nestable_work_queue_`) and a flag that says
whether tasks may run at all (`nestable_tasks_allowed_`).
Operations: `PostTask` and three variants (any thread), `Run`, `RunAllPending`,
`Quit`, `SetNestableTasksAllowed`, the destructor.
Hard: a task moves through up to four queues; what `DoWork`, `DoDelayedWork` and
`DoIdleWork` return decides whether the pump goes round, quits or sleeps.
Correct when: each task runs once, in time and in order, not within another
without leave; the pump does not sleep on work.

**MessagePumpForUI and MessagePumpForIO** (`chromium/base/message_pump_win.cc`, `.h`).
State: `have_work_` (any thread), `delayed_work_time_`, the frames of nested
Runs; the Windows queue and timer of the thread, or the completion port and
`completed_io_`.
Operations: `ScheduleWork` (any thread), `Run`, `Quit`, the window procedure
with `HandleWorkMessage` and `HandleTimerMessage`, `ProcessPumpReplacementMessage`;
`RegisterIOHandler`, `WaitForIOCompletion` with a filter.
Hard: a native modal loop serves the queue without the pump, which gets its
turns by a message of its own; this one is taken out, its flag reset and another
one posted in three steps, while other threads post; completions that nobody
waits for are put aside, in waits within waits, while their files are destroyed.
Correct when: there is one wake-up if and only if the flag says so; no task is
slept on; each completion is delivered once, in order, with a context that is
still there.

**Timer** (`chromium/base/timer.cc`, `.h`).
State: `delayed_task_` of each timer, `timer_` and `delay_` of each task,
`trigger_time_` of a DelayTimer.
Operations: `Start`, `Stop`, `Reset`, destruction, the task's `Run` and
destructor, and `~MessageLoop` with its rounds of `DeletePendingTasks`.
Hard: timer and task point at each other, either may go first, within the
callback of the other, and addresses are reused; `DelayTimer::Reset` does not
touch a task that comes too early and relies on `Check`.
Correct when: both pointers agree and lead to something that exists; the timers
implement a timeout.

**Thread** (`chromium/base/thread.cc`).
State: `startup_data_`, `thread_`, `thread_id_`, `message_loop_`, and a
thread-local flag.  `Start` hands data on its stack to the new thread and waits
for an event; `Stop` posts a `ThreadQuitTask` and joins; `StopSoon` only posts.
Hard: `message_loop_` is written by one thread and read by another without a
lock; Threads own Threads.
Correct when: start-up data outlive their use, posts go to live loops, pending
tasks run, calls return.

**ObjectWatcher** (`chromium/base/object_watcher.cc`).
Registers a wait with the system.  The system's wait thread runs `DoneWaiting`,
which posts the `Watch` (heap object and task in one) to the origin thread.
Hard: signal, `StopWatching`, the destructor and the end of the loop race; who
deletes the Watch depends on a flag written by the other thread.
Correct when: each Watch that is used is there and is freed once; a stopped one
never notifies.

**ObserverList** and **ObserverListThreadSafe**
(`common/observer_list..h`, `chromium/base/observer_list.h`,
`observer_list_threadsafe.h`).
A vector whose slots are nulled while notifications run and compacted by the
last of them; and a map from message loops to such lists, with notifications
posted as tasks.
Hard: observers add, remove and notify from within notifications; a list is
found under a lock and used after it was released.
Correct when: who stays registered is told once; lists live while in use.

**Lazy initialisation** (`chromium/base/singleton.h`, `lazy_instance.cc`, `.h`,
`at_exit.cc`, `thread_local.h`) and **thread local storage**
(`thread_local_storage_win.cc`).
State: `instance_` or `state_` per object, the stacks of `AtExitManager`s,
`slot_` of each `ThreadLocalPointer`; `tls_key_`, `tls_max_`,
`tls_destructors_`, a table per thread.
Operations: `Singleton::get`, `LazyInstance::Pointer`, `RegisterCallback`,
`ProcessCallbacksNow`, the managers' lives; `Slot::Initialize`, `Get`, `Set`,
`Free`, `ThreadExit`.
Hard: threads race to be the first, in constructors that make other objects;
between the store of an object and the registration of its destructor others
can use it; the manager keeps `lock_`, which a registration takes, while it runs
the destructors; two threads may each allocate an index for the tables.
Correct when: one object, used while it is alive, destroyed once and before
what it uses; nobody spins for ever; no value or index is lost.

**dict** (`datastruct/dict.c`).
A chained hash table that grows by moving one bucket per call from a first to a
second table.  No concurrency: any sequence of legal calls has to keep what was
put in, also with iterators (which hold off the moving) under way.
Correct when: it is a map, and its iterators return each key that stays, once.

**libavl** (`datastruct/tree/avl`): twelve libraries, four ways to link nodes
(children only, threads, threads on the right side, parents) times three ways to
balance them (not at all, AVL, red-black).
State: nodes with links, tags, balance factors or colours; traversers with
stacks and generations.
Operations: `probe`/`insert`, `find`, `delete`, all of `t_*`, `copy`, `destroy`,
`balance`.
Hard: rebalancing and threads disagree about who is an absent child; traversers
must survive changes they do not see; a stack may overflow in the middle; a copy
may fail anywhere.
Correct when: the nodes in order are the items, the rules of each balance hold,
traversers lead to the neighbours, a copy is the same tree, and what is left of
a failed one is freed.

**STX B+ tree** (`datastruct/tree/btree/stx/btree.h`).
State: inner nodes with keys and kids, chained leaves, counts.
Operations: searches and iterators, `insert`, `erase_one`, `erase`,
`erase_iter`, copies, `dump` and `restore`.
Hard: equal keys over several leaves; underflow is repaired by merging with or
shifting from either neighbour on each level, with the separating key of a
shortened leaf on its way up.
Correct when: `verify` holds, searches find all and only what is there.

### Components without a model

`PROJECT.json` lists all of them with the reason.  With state that could be
modelled: reference counts and RevocableStore, tracked objects, time's
roll-over, adlist, hash.c, the BSD list and tree macros, strbuf, Pickle, md5's
block buffer, the option parsers, dbug's frames.  Without behaviour worth a
model: strings and conversions, wrappers around Windows calls (files,
processes, registry, sockets), logging and debugging aids, vendored code,
libavl's document generators, MFC samples.

### How they interact

| who | calls | whom |
|---|---|---|
| any thread | `PostTask` → queue under lock → `ScheduleWork` | MessageLoop, its pump (MiniLoop likewise) |
| pump | `DoWork`, `DoDelayedWork`, `DoIdleWork` | MessageLoop as its delegate |
| Windows | window procedure; completion port | MessagePumpForUI; MessagePumpForIO |
| Thread | runs a MessageLoop on its stack, quits it by a task | MessageLoop |
| ObjectWatcher | is a task and a destruction observer | MessageLoop |
| ObserverListThreadSafe | posts `NotifyWrapper` to every loop in its map | MessageLoop, ObserverList |
| Timer | posts its task as a delayed one | MessageLoop |
| MessageLoop | keeps the loop of each thread in a `ThreadLocalPointer` held by a `LazyInstance` | lazy initialisation, thread local storage |
| task, observer, delegate | may call back into all of the above | |

## 2. Modules

| module | models | kind |
|---|---|---|
| `MiniLoop` | common's loop, pump and event | detailed |
| `JobQueue` | what a loop promises to those who post | abstract, no code of its own |
| `MessageLoop` | Chromium's loop on `MessagePumpDefault` | detailed |
| `PumpTasks` | what the Windows pumps share: the stack of calls, `have_work_`, and what they see of their MessageLoop | shared |
| `UIPump` | the pump for windows, the Windows queue | extends `PumpTasks` |
| `IOPump` | the pump for IO, the completion port, files that use it | extends `PumpTasks` |
| `Timer` | the three timers on the queues of a loop, to its end | detailed |
| `Timeout` | what a set of timers promises | abstract, no code of its own |
| `Thread` | Thread objects, their OS threads, their owners | detailed |
| `ObjectWatcher` | one ObjectWatcher, origin thread and wait thread | detailed |
| `ObserverSlots` | the vector of an ObserverList: pure operators | shared |
| `ObserverList` | nested notifications on one thread | extends `ObserverSlots` |
| `ObserverListThreadSafe` | lists per thread, tasks between threads | extends `ObserverSlots` |
| `Observers` | either of the two | composition |
| `ThreadCalls` | threads in the midst of nested calls, native thread local storage | shared, external |
| `LazyObjects` | Singleton, LazyInstance, AtExitManager, ThreadLocalPointer | extends `ThreadCalls` |
| `ThreadLocalSlots` | ThreadLocalStorage | extends `ThreadCalls` |
| `Statics` | the same threads using both, up to the end of `main()` | composition |
| `Dict` | the hash table and its iterators | detailed |
| `DictMap` | the map a dict promises to be | abstract, no code of its own |
| `TreeNodes` | libavl's nodes: rotations, insertion, deletion, retracing | pure operators |
| `TreeWhole` | balancing, copying, destroying | extends `TreeNodes` |
| `TreeTable` | a table with its traversers | extends `TreeWhole` |
| `LibavlPlain`, `LibavlThreaded`, `LibavlRightThreaded`, `LibavlParents` | the functions of the twelve libraries by their names | extend `TreeTable` |
| `Libavl` | any one of the twelve, and what all promise | composition |
| `BTreeNodes` | the B+ tree's algorithms | pure operators |
| `BTree` | a tree under every sequence of calls | extends `BTreeNodes` |
| `SequenceFacts` | which elements a sequence has, how often and in which order, when it grows, shrinks or is filtered | lemmas |
| `MiniLoopProofs`, `MessageLoopProofs`, `TimerProofs`, `ObserversProofs`, `DictProofs` | theorems about the module in the name | proofs |
| `ThreadProofs` | theorems about `Thread`, and about `Statics`, which threads share | proofs |
| `WindowsProofs` | theorems about `UIPump`, `IOPump` and `ObjectWatcher` | proofs |
| `MC...` | hash functions, owners, homes and scopes for TLC | configuration |

Names follow the code: `MessageLoop!DoDelayedWork` is the branch of
`MessageLoop::DoDelayedWork` that takes a task, `DoDelayedWorkEarly` and
`DoDelayedWorkNone` are its early returns.  `PROJECT.json` ("map") gives the
lines behind every definition.  Operators introduced as "Mutant of ..." are
not part of a specification: each is a bug the code could have had, and is
there to show that the property named for it in `PROJECT.json` notices.

**Granularity.** A critical section is one step.  What only one thread can
observe is joined to the step before it; what another thread can observe, or
interrupt, is a step of its own.  So `PostTask` is a step up to where the lock
is released, and `ScheduleWork` another one.  In the containers, which run on one
thread, a call is a step.

**MiniLoop.** `call[t]` is thread t's `PostJob_Helper` in progress, `pc` the
place in `MiniPumpDefault::Run` of the innermost Run, `depth`, `quit` and
`running` the chain of `RunState`s.  The clock is unbounded (to `MaxClock`),
ticks are the clock modulo `TickMod` read as a signed number, as the code does
with `GetTickCount`.  `delayed_work_time_` starts with any value of `Garbage`,
for the constructor leaves it uninitialised.  `fate`, `asked`, `number` and
`pushed` are history.

**MessageLoop.** `stack` has a frame per Run, with the place of its pump in
`at`; a task that runs is such a place.  `back` is where the pump goes on after
the task, `did` is `did_work`, `left` history: a task was due that the Run could
have run.  `NestedRun` is the idiom of the callers in the repository:
`SetNestableTasksAllowed(true)`, `Run`, and the old value again; or
`RunAllPending` without.  A nested `Run` without the permission would never
return on this pump, and is left out.

**UIPump.** `stack` holds the frames of the pump's thread: "run" for a `Run`,
"handle" for a turn that `kMsgHaveWork` gives, "replace" for
`ProcessPumpReplacementMessage`, frames for the window procedure, a task, and a
native loop.  Each access to `have_work_` and each call to Windows is a step,
for other threads post in between.  Tasks are "now" or "later"; of the delayed
ones only whether they are due is kept.

**IOPump.** An item of the port is the file it is for and its number; a file's
record counts what was started, is in flight, completed and delivered, and its
contexts.  Files use the pump as `message_pump_win.h:230-296` tells users to.

**Timer.** Tasks are addresses, which are reused; the queues are those of
`MessageLoop` (`inQueue`, `workQueue`, `delayedQueue`).  User code runs within
`inTask`.  `life`, `round` and `again` are the destructor of the loop.

**Thread.** `worker[t]` is where `ThreadMain` is, `pc[t]` the call in progress
on the object.  The message loop is its queue, and a quit flag that takes
effect when the queue is empty, as `MessageLoop` shows it does.  Users are as
the header asks: an object is started and stopped by one thread, and who owns a
Thread stops it before it ends.

**ObjectWatcher.** `wait[w]` follows the system's wait for a Watch through
`DoneWaiting`; `pc` and `ret` place the origin thread.  `UnregisterWaitEx` with
`INVALID_HANDLE_VALUE` returns when the callback has returned or will not come.

**ObserverListThreadSafe.** `pc[t]` is between the locked and the unlocked half
of `AddObserver` and `RemoveObserver`.  Addresses (`Lists`) are reused.

**Statics.** `calls[t]` is the stack of the calls thread t is in, each with its
function, its object and the place it has come to.  `main()` creates and destroys
the managers.  A thread holds `lock_` as long as a "callbacks" frame is on its
stack (`Holds`), and `Register` needs that nobody does; elsewhere a critical
section is one step.  A thread that ends is replaced by a new one with its name.
`Budgets` bounds what user code may call.

**Dict.** `DictMap` sees its calls and replies, and of each iterator the keys
that were there all along and those returned.

**Trees.** A node is named by the key of its item; `Anchor` is the table seen as
a node, as the code casts it.  An operator of `TreeNodes` is what several
libraries do alike, with the differences as its cases, so its lines are those of
one of them and the functions of each library are mapped in their own module.
The scopes of `MCTrees` choose the library at the start.  `Unfinished` is a copy
of which some step failed, with the links that nothing was written to as
`Garbage` and those that lead out of the tree; `Recovered` follows the three
kinds of `copy_error_recovery`, and destroying that comes to `Garbage` if a link
was overlooked.  A table with parent links has no param, any other has one.

**BTree.** No function looks at the data, so the pairs in a state carry none; in
each state the invariant numbers them and tries every call on the numbered tree.

## 3. Runs

Runs check deadlock unless the system may stop: loops that nobody runs, threads
nobody starts, watchers of a loop that is gone, programs that have ended and
trees whose scope is used up do stop, and those configurations say
`CHECK_DEADLOCK FALSE`.

| run | instance | shows |
|---|---|---|
| `mini_loop` | 2 jobs, 2 posters (one of which may call `PostDelayJob` with 0), delays 1 and 2, clock to 2, Runs nested twice | wake-ups, sleeping times, refinement of `JobQueue`, no job lost, every job runs, every quit returns |
| `message_loop` | 2 nestable tasks and 1 that is not, delays 0 and 1, Runs nested twice | tasks once, in order, in time, not reentered without leave; no sleep on work; a Run leaves nothing it should have run; all run |
| `ui_pump` | 1 other poster, 2 tasks of which 1 may be delayed, 1 input, 4 frames | a `kMsgHaveWork` if and only if `have_work_`; nothing slept on; tasks run, in native loops too |
| `io_pump` | 3 files, 3 operations, 1 poster, 1 task, 1 delayed one | completions once and in order, contexts there; no task slept on; everything served |
| `timer` | a repeating, a one-shot and a delay timer, 3 addresses, delays 0, 1 and 2, clock to 2, 1 task that owns an object, 2 rounds of the destructor | pointers agree, the loop ends clean, refinement of `Timeout`, timers fire |
| `thread` | a owned by main, b by a, 2 starts each, 2 tasks each | start-up hand-over, posts to live loops, pending tasks run, threads end properly, calls return |
| `object_watcher` | 3 watches | nothing dangles or leaks, only the awaited Watch notifies, waiting ends |
| `observers` | 3 observers, 4 slots; one list, three notifications deep, both types; or 2 threads, 2 addresses, 1 task per loop | nobody missed or told twice; lists live exactly while in use, only registered observers called, notifications arrive |
| `statics` | 3 threads; a `ThreadLocalPointer`, a `LazyInstance` using it, a leaky Singleton; 2 slots; 2 managers | one live object for each user, destroyed in order; slots keep values, indexes are neither leaked nor shared; calls end |
| `dict` | 2 keys that collide in a table of 2 and part in a table of 4, 2 values, 1 iterator, first size 1 | structure, refinement of `DictMap`, the migration ends |
| `trees` | each library with up to 7 keys and 1 traverser, and 3 or 4 keys and 2 traversers; a stack of 3 | shape and balance, traversers, balance/copy/destroy |
| `btree` | leaves of 4 and inner nodes of 2 slots, 3 keys, 12 pairs | `verify` and searches; what each call does to the numbered pairs |

**Why the bounds are enough.**  Two jobs and two posters are what a lost
wake-up takes: one poster that found the queue empty and has not signalled
yet, one that relies on it.  A clock to 2 with delays 1 and 2 has jobs due
together, one after the other, and in the past.  Two levels of Run have all
that deeper ones have: an inner pump that works on the queues of an outer one
in the middle of its round; only a single observer list needs three, for the
middle iterator has both an outer and an inner one.  Four frames of the UI pump
hold a Run, a task in it, a native loop in that and a turn of the pump there,
with a further Run from the task it runs.  Three files with three operations
are a wait within a wait while a third file's items are put aside.  Three
addresses let a timer's old task wait in the queue while its new one is posted
and a third is reused; two rounds of the destructor are one that makes work for
another.  Two addresses let a list be deleted and another one appear in its
place.  Two starts of a thread show what the first leaves behind.  Three
watches are one that is posted, one that is watched and one that is started
from the notification.  Three threads are two that race and a third that gets
what one of them has just stored; `MCBudgets` gives four mixes of calls.  For
the dict two keys are enough to have a bucket with a chain, a key that moves
and one that does not, and a first size of 1 makes additions expand the table.
Seven keys make a complete tree of three levels, from which a deletion can
shorten it on both sides of the root, and AVL trees of four; with a stack of 3,
`BST_MAX_HEIGHT`, unbalanced trees overflow it.  Twelve pairs make B+ trees of
three levels, in which an erase merges or shifts leaves and inner nodes with
either neighbour, and four equal pairs fill more than one leaf.

**Fairness.**  `WF` for what a thread does by itself (threads are scheduled,
locks are held briefly), for the clock, and for a task's return.  Never for
posting, quitting, nesting, starting, or user input.  In `statics` each thread
that can step does, and a thread that yields while it spins is run again.  Some
assumptions are stronger:

- `SF` for `NotifyWrapper` and its parts, for `RunWatch`, and for the loop's
  steps in `timer`: the loop is a queue and gets to each of its tasks although
  other tasks come in between (those are other actions of the model and disable
  this one for a while).  The models of the loops show that it does.
- `SF` in `ui_pump` for the return of user code and the end of a native loop:
  dialogs are closed.
- `SF` in `dict` for a lookup while nobody iterates: the comment the property
  quotes says "while it is actively used".  Without it no rehashing would end.
- `SF` in `thread` for an owner's `Stop`, which the header demands of it.
- `AllRun` of `message_loop` assumes in addition that nested Runs end, and that
  the loop is run again after a Quit.

**Restrictions on users** are constants where a run can lift them:
`EmptiesEarly`, `Reentrant`, `EagerStop`, `Overtaking`, `Nesters`,
`ZeroDelayCallers`, `TickMod`, `Lazy`, and the `param` in `Scopes`.  Those that
are not:

- Callbacks of an AtExitManager are processed by `main()` while the other
  threads are idle, as `at_exit.h` asks; a LazyInstance is not used after that,
  for its `state_` then still says there is an object.
- Objects do not use each other in a circle.
- No slot is freed while a thread exits (`ThreadExit` reads a destructor twice),
  and no more are initialised than fit: the code only asserts that, and a failed
  `Initialize` would leave `tls_max_` behind the end of the tables.
- A traverser is initialised again when its item is deleted.
- A B+ tree's leaves have four slots or more: one emptied by an erase before it
  is merged would hand on the key before its first.

## 4. Proofs

TLAPS checks the theorems below for every value of the constants: any sets of
tasks, threads, timers or observers, any delays and depths, any bound on the
clock.  Each safety theorem is proved from an inductive invariant, which TLC
checked on the run's instance before it was proved.  The invariants that the
runs check are not inductive by themselves: they say what must not go wrong, and
the inductive ones say what every step leaves behind so that it does not.

`SequenceFacts` has the lemmas that all of them use.  Queues are reasoned about by
three facts about them: who is `Within`, that it has `NoRepeats`, and who comes
`Before` whom; each operation of the code on a queue (append, take the head,
insert by time, swap in another queue) has a lemma that says what it does to
the three.

### MiniLoop (`MiniLoopProofs`)

| theorem | says | assumes |
|---|---|---|
| `TypeCorrect` | `[]TypeOK` | |
| `WakeupsKept` | `[]NoLostWakeup` | |
| `PumpDrains` | `[]RunAssertion` and `[]IdleImpliesDrained` | |
| `QueuesKept` | the invariant `LoopInv` below | `NoWrap` |
| `NeverOversleeps` | `[]NoOversleep` | `NoWrap` |
| `JobsConserved` | `[]Conservation`: a pending job is in one place of one queue | `NoWrap` |
| `DueJobsRun` | `Spec => PastDueRuns`: a delayed job that is due is not put off | `NoWrap` |
| `LoopKeepsPromise` | `Spec => KeepsPromise`: MiniLoop implements JobQueue | `NoWrap` |

`NoWrap` is `2 * MaxClock < TickMod`: the machine has been up for less than half
the range of the tick counter.  Without it `NeverOversleeps`, `DueJobsRun` and
`LoopKeepsPromise` are false (section 5, item 1).

`NoLostWakeup` is inductive together with the types: the thread that finds
`incoming_job_` empty is the one that will signal, and the event is reset only
on the way back to `DoWork`.  `IdleImpliesDrained` needs that `keep_running_` is
false only at the end of a Run (`StoppedAtExit`).

The refinement needs an invariant, for the code orders jobs by position and
sequence number, while `JobQueue` orders them by acceptance:

- `CallInv`: a job on its way to the queue carries the time it asked for, and
  no two threads carry the same one;
- `EntryInv`: the queues hold exactly the pending jobs, with the time they
  asked for;
- `OrderInv`: all of `delayed_job_` was accepted before all of `work_job_`, and
  that before all of `incoming_job_`; within each by position or sequence
  number;
- `RunningInv`: nested Runs execute different jobs.

`LoopInv` is these and `TypeOK`.  `SleepInv` adds what `delayed_work_time_` says
between `DoDelayedWork` and the wait.  `KTimeIsClock` (under `NoWrap`) turns
comparisons of ticks into comparisons of times, and `TopFirst` shows that the
priority queue has a top, from the well-ordering of the naturals.  `JobsConserved`
needs no more than the order of posting: a job in two places would come before
itself.

### MessageLoop (`MessageLoopProofs`)

| theorem | says | assumes |
|---|---|---|
| `LoopStaysSound` | `[]LoopSound` | |
| `QuitsDrained` | a Run returns only when it has run all it was given to run at once, the outermost also what was deferred | |
| `RunsLeaveNothing` | `RunsDrain`: and no delayed task that was due when it looked | `NoneDeferredLate` |

`NoneDeferredLate` says that nobody calls `PostNonNestableDelayedTask` with a
delay.  Nobody in the repository does; with such a task `RunsDrain` is false
(section 5, item 5).

`LoopSound` speaks of what ran and of a pump that sleeps.  The invariant says
where each task is (`Placed`: in one queue, and what that says of its time and
of whether it may be there), in which order the queues are relative to the
order of posting (`InOrder`, which has to say what becomes of the order when
delayed tasks move from `work` to `delayed`), what the frames of nested Runs
know of `nestable_tasks_allowed_` (`Framed`), and what a pump has seen to by the
time it comes to each place (`Searched`, `Timed`, `Waits`).  `Punctual` adds, for
the last theorem, that no frame has left a due task.

### Timer (`TimerProofs`)

| theorem | says |
|---|---|
| `TimersStaySound` | `[]TimersSound` |
| `TimersKeepTime` | `TimerSpec => KeepsTime`: Timer implements Timeout |

Assumed is `TimerAssumption`, by which `DeletePendingTasks` has two rounds or more;
`~MessageLoop` has a hundred (`message_loop.cc:118`).  The invariant is that the
two pointers are inverse to each other (`Linked`), that a task is in one queue,
runs, or was dropped (`Placed`), and how far the destructor of the loop has come
(`Ending`): no task that owns an object is posted any more, so that the first
round deletes all of them and the second what they posted.  For the refinement
the time a timer is armed for is a function of its task's due time, or of
`trigger_time_`, and each step of the code is the step of `Timeout` that is
named in its lemma, or a stutter: so `DelayFor` may leave a task as it is.

### Thread and what threads share (`ThreadProofs`)

| theorem | says | assumes |
|---|---|---|
| `ThreadStaysSound` | `[]ThreadSound` | `~EagerStop` |
| `TasksRunFirst` | `[]PendingTasksRun` | `~EagerStop` |
| `QuitsProperly` | `QuitProperly` | `~EagerStop` |
| `StaticsStaySound` | `StaticsSpec => []StaticsSound` | `~Overtaking` |
| `LastMadeFirstDestroyed` | `StaticsSpec => []DestroyedInOrder` | `~Overtaking` |

`EagerStop` lets an owner call `Stop` while a loop that `StopSoon` told to quit is
still there or just gone; then `ThreadSound` is false (section 5, item 4).  The
invariant relates the place in `ThreadMain` to the place in the owner's call and
to each field (`Phase`), and says that a loop ends only when it was told to, with
nothing posted behind the quit task (`Quitting`).

`~Overtaking` says that callbacks are not processed while some object is
registered below the one that it uses; otherwise its destructor makes that one
again and comes for the `lock_` its thread holds, or finds it destroyed, and
`StaticsSound` is false (section 5, item 6).  Threads, objects, who uses whom and
which are LazyInstances, slots, values and native indexes are arbitrary, as long
as objects and slots are finitely many and no objects use each other in a circle.

`StaticsInv` begins with the stacks of calls (`StacksOK`): which call may make
which, so that the innermost one is known from the kind of call, and that the
objects a stack constructs or destroys are lower in the order of use (`Rank`) the
further it goes down.  Hence no object is handled twice on a stack.  `ObjectsInv`
says the same of all stacks: an object under construction, on its way to the
manager or under destruction is handled at one place of one stack (`OneSite`);
what `cell` and `life` can be there (`FitsIn`); that an object is in a manager,
once, exactly when it lives, is not leaky and is not handled (`Placed`,
`PlacedOnce`); and that what an object found registered is still there, below it
(`Ordered`), which is why it outlives it.  `NativeInv` gives each allocated index
one holder, and says that an index which a thread is about to give to the
storage has no values yet: `tls_key_` may change from none to that index without
any thread seeming to have a table.  `LockInv` is about those who hold `lock_`:
while callbacks are processed nobody gets further than the load of an object
that is there (`CallsFree`), since what an object uses lives as long as it does
(`UsedAlive`) and is registered below it or with a manager below its own
(`UsedBelow`), and so it stays until the last callback has run (`InTurn`).
`SlotsInv` follows a slot from its
initialisation through its number (`NumbersOK`: unique among slots that are ready
or about to be, and below `tls_max_`, which leaves room for those that have
begun) to the values (`TablesOK`: nothing is behind `tls_max_` or at a number not
yet ready, so a new slot starts with NULL); and an exiting thread's progress
(`ExitOK`).  Most steps leave most of this alone; the lemmas say so once, for the
stacks of other threads (`OnlyOf`), for calls about objects (`ObjectMoved`) and
for calls about slots (`SlotMoved`, `SlotQuiet`).

### The Windows pumps and ObjectWatcher (`WindowsProofs`)

| theorem | says |
|---|---|
| `WakeupsStaySound` | `UISpec => []WakeupsSound` |
| `CompletionsStaySound` | `IOSpec => []CompletionsSound` |
| `NobodySleepsOnTasks` | `IOSpec => []NoTaskSleptOn` |
| `WatchesStaySound` | `WatcherSpec => []WatchesSound` |
| `OnlyAwaitedNotified` | `WatcherSpec => []NotifiesAwaited` |

They hold for any depth of nested calls, any number of tasks, input messages
and operations, and any files, posters and Watches, as long as posters and
Watches are finitely many.

Both pumps are woken by a single sign (`OneSign`): `have_work_` is set exactly
when the sign is in the queue, or about to be posted by the one thread that set
the flag, or was taken and the flag is not reset yet; and never two of these.
The lemmas about it say what posting, taking and resetting do, for kMsgHaveWork
in the Windows queue and for the pump's own item in the port alike.  `QueuesOK`
and its lemmas say what `DoWork` leaves in the delegate's queues.

`UIInv` needs to know what frames may be below others (`UIStack`): a native loop
or a handler may be on top of a task at any depth, but what asks for a
replacement is always on top, and a loop that has found no task has called
nobody since, or a task only.  That is why `Taken` and `Quiet` can look at the
top frame alone.  While the top frame is quiet, `UIAlert` says that work left
over is work somebody will signal; `UITimed` says the same of delayed work and
`delayed_work_time_`, from the moment `DoDelayedWork` returned.  Tasks that
may not run (`nestable`) ask for nothing; the code that allows them again is on
top of every loop, and the loop looks at its queues anew when it returns.

`IOInv` has the same parts, `IOStack` with the one loop at the bottom, and
`DelayKnown` in every state: no nested loop clears `delayed_work_time_` here.  `IOFiles` is about the items: the numbers of a file's items in
`completed_io_` and the port together are those between `done` and `completed`,
each once and in order (`ItemsOf`), and a file's record is one of those its
owner can bring about (`FileOK`).  A destructor that waits for its file is the
hard case: an item may be taken from the middle of `completed_io_`, where it is
the first of its file, or from the port, when there is none of its file before
it, and put behind all the others that wait.

The invariant of ObjectWatcher (`WatcherInv`) follows one Watch through both
threads (`Life`): whoever still has it, by `watch_`, the system's registration,
the queue or the stack, finds it there, and `watcher` and `did_signal` tell
`StopWatching` and `Run` apart.

### Observer lists (`ObserversProofs`)

| theorem | says | assumes |
|---|---|---|
| `SingleStaysSound` | `[]SingleSound` | |
| `EachIsToldOnce` | `EachToldOnce` | |
| `ListsStaySound` | `[]ListsSound` | `OneReentrant` |
| `OnlyRegisteredCalled` | `OnlyRegistered` | `OneReentrant` |

`OneReentrant` says that of the observers of one thread at most one is removed
from within a notification; with more the list may be deleted while it is in use
(section 5, item 3).

The invariant of a single list says how each notification under way fits the
slots (`NoteFits`): whom it has told is behind its index, who has been there all
along is behind it or ahead.  `Compact`, which the recursive function `Kept`
models, keeps this; what `Kept` computes is proved by the least counterexample
over the length (`NatMin`), with `KeptUpTo` as the function built so far.  For the
lists per thread the invariant says which addresses are in use by whom
(`LiveInUse`, `ListsApart`) and what the half-done `AddObserver` and
`RemoveObserver` of a thread may rely on after they released the lock
(`CallFits`).

### Dict (`DictProofs`)

| theorem | says | assumes |
|---|---|---|
| `TableStaysSound` | `[]TableSound` | `~EmptiesEarly` |
| `DictIsAMap` | `Spec => IsAMap`: Dict implements DictMap | `~EmptiesEarly` |

Keys, hash function, sizes and iterators are arbitrary, infinitely many of them
included.  `~EmptiesEarly` says that callers release their iterators before they
empty the dict; otherwise `TableSound` is false (section 5, item 2).

`TableSound` is not inductive: that the scan for the next bucket ends needs that
`used` counts what is in the table, and that `dictNext` keeps its promise needs
to know what an iterator has still to return.  `DictInv` is built from the chains
up:

- `TableFits`: each entry is in the chain its hash says, each key at most once,
  and `used` is the number of keys;
- `DictFits`: no key is in both tables, the buckets behind `rehashidx` are empty,
  and there is a second table exactly while rehashing;
- `IterFits`: for an iterator that stands on an entry, what is `ToCome` (the saved
  successor and those chained after it, later buckets, the second table) has not
  been returned, and every key present all along was returned or is to come.

The lemmas about a chain say what an entry pushed, removed or assigned does to
the value of each key; those about a table what it does to `TableFits`; moving a
bucket and swapping the tables keep `Map`, and while `iterators` is not 0 neither
happens.  `MapStep` then has one lemma per call: it keeps `DictInv` and is the
step of `DictMap` it replies to, or a stutter.  What the functions `Filled`,
`RehashRounds` and `NextPower` compute is proved by the least counterexample, as for
`Kept`.

### Only model-checked

- Liveness: the prover has no rule for fairness, nor for ENABLED.
- libavl and the B+ tree: their operators are recursive over trees.  Induction
  over data needs theorems with an operator as a parameter, which none of the
  provers at hand can instantiate.
- `Migrates` of the dict, `TasksRun`, `EverythingServed` and `WaitsEnd` are liveness.

## 5. Seen while modelling

**Where the code does not keep what its comments say.**  The runs leave
these cases out; with the change in brackets TLC shows a counterexample.

1. Due times are compared as ints (`mini_loop.cpp:90`, `pump.cpp:46`).  Around
   the wrap of the tick counter (24.9 days) a job that is due is not run, and the
   pump spins.  [`TickMod = 4` in `MiniLoop.cfg` violates `KeepsPromise`]
2. `dictEmpty` sets `iterators` to 0 (`dict.c:596`).  An iterator released later
   makes it -1; the next one that starts does not hold off the moving of
   buckets.  [`EmptiesEarly = TRUE` in `Dict.cfg`, with keys k1 and k2:
   `TableSound`]
3. When all observers of a thread are removed in one notification, `size()` still
   counts the nulled slots, the list stays in the map, and `NotifyWrapper`
   deletes it (`observer_list_threadsafe.h:101`).  [`Reentrant = {oA, oB, oC}` in
   `Observers.cfg`: `ListsSound`]
4. `Stop` after `StopSoon` tests `message_loop_` and then posts to a loop that may
   be gone (`thread.cc:105`).  [`EagerStop = TRUE` in `Thread.cfg`:
   `ThreadSound`]
5. `DoDelayedWork` reports no work when it defers a task (`message_loop.cc:447`),
   and a nested `RunAllPending` returns with a task left that it could run.
   [`Delays <- MCDelayed` in `MessageLoop.cfg`: `RunsDrain`]
6. Between the store of `instance_` and the registration of its destructor
   (`singleton.h:143`; likewise `lazy_instance.cc:31`) another thread can get the
   object, construct one that uses it and register that first.  The used one is
   then destroyed first, and the destructor of the other gets it again.  If it
   has a LazyInstance it is used after its destruction.  A Singleton is made
   anew, and to register it the thread acquires the `lock_` (`at_exit.cc:46`) that
   ProcessCallbacksNow holds all the while it runs callbacks (`at_exit.cc:57`).
   "We do not allow this", says `lock_impl_win.cc:8`, and stops a debug build
   there (`:53`); in a release build the critical section lets its owner in once
   more.  [`Overtaking = TRUE` in `Statics.cfg`: `StaticsSound`, and `CallsEnd`, as
   the model's thread waits for itself; with `Lazy = {z, p}` also `StaticsSound`]
7. A `kMsgHaveWork` or WM_TIMER that a native loop takes before the first Run, or
   between two, is used up without a turn for the pump (`HandleWorkMessage` and
   `HandleTimerMessage` return when there is no `state_`).  If then the first
   message of a Run opens another native loop, tasks wait until that ends, though
   "MessageLoop extends that bare-bones message pump to also service Tasks"
   (`message_pump_win.h:151`).  [the invariant that in a native loop within a Run
   `Runnable => Notified`, in `UIPump.cfg`]
8. After a failed allocation or copy of an item `copy_error_recovery` of pbst,
   pavl and prb climbs from node to parent until there is none (`pbst.c:453`,
   `pavl.c:668`, `prb.c:714`).  The parent of the new root is `&new->pbst_root`
   taken for a node, and the field in the place of that node's parent is
   `pbst_param` (`pbst.h:57`).  If the table has a param the user's data is read
   as a node, and its second word may be set to NULL, though the copy is said to
   be destroyed and NULL returned (`pbst.c:468`).  The same happens when the first
   allocation of all fails.  [`param |-> user` for the "parents" scopes in
   `MCTrees`: `WholeTree`]

**By reading the code for the models:**

- `PostDelayJob` with a delay that is not positive calls itself with 0, the same
  case (`mini_loop.h:42`).  The model lets such a call never end.
- `dictRehash` returns 1 after the step that moved the last key; its comment
  says 1 means "there are still keys to move" (`dict.c:203`, `:242`).  Called
  while an iterator is in the table (`dict.c:207`) it moves buckets away under it.
- `NotifyWrapper` recognises a deleted list by its address
  (`observer_list_threadsafe.h:171`).  A list made later at the same address
  gets notifications posted before it was there.
- `StartWithOptions` clears the flag of the calling thread, not of the one it
  starts (`thread.cc:79`).  A thread that starts another after its own
  `ThreadQuitTask` fails its check on leaving.  In the model threads do not.
- A task that is not nestable and was deferred is overtaken by one posted later
  that is met in the outermost loop (`message_loop.cc:320`, `:202`): deferred
  tasks wait for idle time.  `InTimeAndOrder` is about nestable tasks.
- On Windows `DeletePendingTasks` drops tasks that were never delayed without
  deleting them (`message_loop.cc:353`); `message_loop.h:330` says they are.  A
  timer whose task went that way believes it is running.
- When a copy of a tree fails, the nodes above the one in hand have no item yet.
  `copy_error_recovery` gives the partial tree to `destroy`, which passes what is
  in those nodes to the user's function (`avl.c:762`; also bst, rb, pbst, pavl,
  prb); the comment at `avl.c:722` says "each item in the new tree so far".  In
  `HandedOver` they are `Garbage`, which `WholeTree` leaves aside.
- `restore` of a B+ tree returns true for an image that ends within the nodes
  (`btree.h:3659`), with a broken tree; and the test meant to end `erase_iter`'s
  scan of equal keys is never true, so that the scan does not stop early.
- From the first slot of an inner node, an erase takes for `myleft` the last but
  one kid of the left neighbour (`btree.h:2603`, `:2905`), which has one kid more
  than `slotuse`.  `BTreeSound` holds with that.

## 6. Not modelled

Left out of modelled components: MessageLoop's task and destruction observers,
structured exceptions, histograms and the dispatcher of the UI loop (its
destructor is in `Timer`); of the UI pump, messages that are sent, which
`PeekMessage` dispatches by itself, `PumpOutPendingPaintMessages`, observers of
messages, the `WaitMessage` that keeps `WaitForWork` from spinning while a child
window of another thread has captured the mouse (`message_pump_win.cc:277`), and
tasks that are not nestable; `WaitMany` and manual-reset events;
the destruction of a MiniLoop, which the code does not define, and of an
ObserverListThreadSafe; failure of `UnregisterWaitEx` (asserted not to happen);
failing allocations outside libavl; dict's statistics; `replace` in libavl, for
items are known by their keys; B+ trees without duplicates, their comparison
and `swap`.

What some runs and properties do not reach: with `TickMod = 16` the ticks of
`MiniLoop` do not wrap, so `KeepsPromise` and `JobsRun` meet only the edge at
which a job is due exactly now (section 5, item 1 is the wrap); `Timeout` lets a
timer be disarmed at any time, so a timer that stops itself without a cause would
still implement it; inner nodes with two slots shift one key at a time.

The definitions cover an eighth of the lines.  Most of the rest has no
behaviour to model: two document generators and a grammar tool that came with
libavl (8 000 lines), MFC controls of another program, vendored code, string
conversion, wrappers around Windows calls.

## 7. Plan

To model, most valuable first:

1. **Reference counts** and RevocableStore: the last `Release` against an
   `AddRef`; tasks bound to an object that dies.
2. **tree.h** (red-black and splay trees), **adlist** and **hash.c** against set
   and sequence.
3. **time_win.cc**: the roll-over of `timeGetTime`; **strbuf**, **md5**'s
   buffering and the option parsers against reference definitions;
   **tracked_objects**: the list of threads that only grows.

To prove: what remains is liveness and the trees, out of the provers' reach
(section 4).
