------------------------------- MODULE MiniLoop -------------------------------
(***************************************************************************)
(* MiniLoop (common/mini_loop.cpp) pumped by MiniPumpDefault               *)
(* (common/pump.cpp) over an auto-reset WaitableEvent.                     *)
(*                                                                         *)
(* One thread, Loop, calls Run(); it and the other Threads call            *)
(* PostJob/PostDelayJob.  A step of the model is what a thread does        *)
(* between two points where another thread can observe it: the critical    *)
(* sections over incoming_job_ are one step each, and everything that only *)
(* the loop's thread can see is joined to the step that precedes it.       *)
(***************************************************************************)
EXTENDS Integers, Sequences, FiniteSets

CONSTANTS
  Jobs,              \* the Job objects; each is posted at most once (RunJob deletes it)
  Posters,           \* threads other than the loop's that post jobs
  Loop,              \* the thread that calls Run
  Delays,            \* the positive delays passed to PostDelayJob, in ticks
  ZeroDelayCallers,  \* threads that call PostDelayJob with a delay that is not positive
  MaxDepth,          \* bound on nested calls of Run
  MaxClock,          \* bound on the clock, and on the times jobs are asked to run at
  TickMod,           \* number of values of the tick counter, 2^32 in the code
  Garbage,           \* the values delayed_work_time_ may have before it is assigned
  NoJob

Threads == Posters \cup {Loop}

ASSUME LoopAssumption     == Loop \notin Posters
ASSUME DelaysAssumption   == Delays \subseteq Nat \ {0}
ASSUME DepthAssumption    == MaxDepth \in Nat \ {0}
ASSUME ClockAssumption    == MaxClock \in Nat
ASSUME TickModAssumption  == TickMod \in Nat \ {0} /\ TickMod % 2 = 0
ASSUME CallersAssumption  == ZeroDelayCallers \subseteq Threads
ASSUME GarbageAssumption  == Garbage \subseteq Int
ASSUME NoJobAssumption    == NoJob \notin Jobs

VARIABLES
  clock,        \* ticks since boot, what GetTickCount would return unbounded
  incoming,     \* incoming_job_, guarded by incoming_job_lock_
  work,         \* work_job_
  delayed,      \* delayed_job_, the priority queue, as the set of its elements
  nextSeq,      \* next_seq_num
  signaled,     \* the state of MiniPumpDefault::event_
  keepRunning,  \* keep_running_
  delayedTime,  \* delayed_work_time_
  call,         \* per thread: its call of PostJob_Helper in progress
  pc,           \* where the loop's thread is in the innermost Run
  didWork,      \* did_work of the innermost MiniPumpDefault::Run
  deadline,     \* when the TimedWait in progress gives up
  depth,        \* state_->run_depth, 0 when state_ is NULL
  quit,         \* per depth: quit_received of that RunState
  running,      \* per depth: the job that Run is executing
  caller,       \* per depth: which delegate method is executing it
  fate,         \* history: how far each job has come
  asked,        \* history: the clock each job asked to be delayed to, 0 for no delay
  number,       \* history: the rank of each job among those pushed
  pushed        \* history: how many jobs were pushed

queueVars == <<incoming, work, delayed, nextSeq>>
pumpVars  == <<signaled, keepRunning, delayedTime>>
runVars   == <<pc, didWork, deadline, depth, quit, running, caller>>
jobVars   == <<fate, asked, number, pushed>>
vars      == <<clock, queueVars, pumpVars, call, runVars, jobVars>>

Depths == 1..MaxDepth

-----------------------------------------------------------------------------
(* The tick counter is an int: the value of GetTickCount modulo 2^32, read   *)
(* as a signed number.                                                       *)
Int32(n) == LET m == n % TickMod IN IF 2 * m >= TickMod THEN m - TickMod ELSE m

kTime == Int32(clock)

(* Mutant: the heap is a max heap, the largest due time comes first.         *)
BeforeLargest(e, f) == e.due > f.due \/ (e.due = f.due /\ e.seq <= f.seq)

(* operator< of PendingJob: the earlier due time first, then the earlier     *)
(* sequence number; Top is the element the priority queue serves next.       *)
Before(e, f) == e.due < f.due \/ (e.due = f.due /\ e.seq <= f.seq)

Top(queue) == CHOOSE e \in queue : \A f \in queue : Before(e, f)

(* Mutant: >= instead of > in DoDelayedWork.                                 *)
TopIsPast == delayed # {} /\ Top(delayed).due < kTime

TopIsDue == delayed # {} /\ Top(delayed).due <= kTime

(* Where the pump's loop goes next: it leaves when keep_running_ is false.   *)
Checked(next) == IF keepRunning THEN next ELSE "exit"

NoCall == [pc |-> "idle", job |-> NoJob, due |-> 0]

Init ==
  /\ clock = 0
  /\ incoming = << >> /\ work = << >> /\ delayed = {} /\ nextSeq = 0
  /\ signaled = FALSE /\ keepRunning = TRUE /\ delayedTime \in Garbage
  /\ call = [t \in Threads |-> NoCall]
  /\ pc = "out" /\ didWork = FALSE /\ deadline = 0 /\ depth = 0
  /\ quit = [d \in Depths |-> FALSE]
  /\ running = [d \in Depths |-> NoJob]
  /\ caller = [d \in Depths |-> "DoWork"]
  /\ fate = [j \in Jobs |-> "new"]
  /\ asked = [j \in Jobs |-> 0]
  /\ number = [j \in Jobs |-> 0] /\ pushed = 0

Tick ==
  /\ clock < MaxClock
  /\ clock' = clock + 1
  /\ UNCHANGED <<queueVars, pumpVars, call, runVars, jobVars>>

-----------------------------------------------------------------------------
(* Posting.  Any thread may post; the loop's thread posts from the job it is *)
(* running, or while it is outside Run.                                      *)
MayCall(t) ==
  /\ call[t].pc = "idle"
  /\ t = Loop => pc \in {"out", "job"}

(* PostJob(job): PostJob_Helper with no delay, up to the lock.               *)
PostJob(t, j) ==
  /\ MayCall(t)
  /\ fate[j] = "new"
  /\ call' = [call EXCEPT ![t] = [pc |-> "push", job |-> j, due |-> 0]]
  /\ fate' = [fate EXCEPT ![j] = "posting"]
  /\ UNCHANGED <<clock, queueVars, pumpVars, runVars, asked, number, pushed>>

(* PostDelayJob(job, d) with d > 0: the due tick is computed before the lock *)
(* is taken, in an int.                                                      *)
PostDelayJob(t, j, d) ==
  /\ clock + d <= MaxClock
  /\ MayCall(t)
  /\ fate[j] = "new"
  /\ call' = [call EXCEPT ![t] = [pc |-> "push", job |-> j, due |-> Int32(kTime + d)]]
  /\ fate' = [fate EXCEPT ![j] = "posting"]
  /\ asked' = [asked EXCEPT ![j] = clock + d]
  /\ UNCHANGED <<clock, queueVars, pumpVars, runVars, number, pushed>>

(* PostDelayJob(job, d) with d <= 0 calls PostDelayJob(job, 0), that is      *)
(* itself, without end: the call never reaches PostJob_Helper.               *)
PostDelayJobNow(t, j) ==
  /\ t \in ZeroDelayCallers
  /\ MayCall(t)
  /\ fate[j] = "new"
  /\ call' = [call EXCEPT ![t] = [pc |-> "recurse", job |-> j, due |-> 0]]
  /\ fate' = [fate EXCEPT ![j] = "posting"]
  /\ UNCHANGED <<clock, queueVars, pumpVars, runVars, asked, number, pushed>>

(* Mutant: is_empty is read after the push, nobody signals.                  *)
PushSilently(t) ==
  /\ call[t].pc = "push"
  /\ incoming' = Append(incoming, [job |-> call[t].job, due |-> call[t].due])
  /\ call' = [call EXCEPT ![t] = NoCall]
  /\ fate' = [fate EXCEPT ![call[t].job] = "queued"]
  /\ pushed' = pushed + 1
  /\ number' = [number EXCEPT ![call[t].job] = pushed']
  /\ UNCHANGED <<clock, work, delayed, nextSeq, pumpVars, runVars, asked>>

(* The critical section of PostJob_Helper: only the thread that finds the    *)
(* queue empty goes on to wake the pump.                                     *)
Push(t) ==
  /\ call[t].pc = "push"
  /\ incoming' = Append(incoming, [job |-> call[t].job, due |-> call[t].due])
  /\ call' = [call EXCEPT ![t] = IF incoming = << >>
                                 THEN [@ EXCEPT !.pc = "signal"]
                                 ELSE NoCall]
  /\ fate' = [fate EXCEPT ![call[t].job] = "queued"]
  /\ pushed' = pushed + 1
  /\ number' = [number EXCEPT ![call[t].job] = pushed']
  /\ UNCHANGED <<clock, work, delayed, nextSeq, pumpVars, runVars, asked>>

(* MiniPumpDefault::ScheduleWork, outside the lock.                          *)
ScheduleWork(t) ==
  /\ call[t].pc = "signal"
  /\ signaled' = TRUE
  /\ call' = [call EXCEPT ![t] = NoCall]
  /\ UNCHANGED <<clock, queueVars, keepRunning, delayedTime, runVars, jobVars>>

-----------------------------------------------------------------------------
(* Run, from outside or from the job being executed.                         *)
Run ==
  /\ pc \in {"out", "job"}
  /\ call[Loop].pc = "idle"
  /\ depth < MaxDepth
  /\ depth' = depth + 1
  /\ quit' = [quit EXCEPT ![depth + 1] = FALSE]
  /\ pc' = "DoWork"
  /\ UNCHANGED <<clock, queueVars, pumpVars, call, didWork, deadline, running, caller, jobVars>>

(* Quit, from the job being executed: only the innermost RunState is told.   *)
Quit ==
  /\ pc = "job"
  /\ call[Loop].pc = "idle"
  /\ quit' = [quit EXCEPT ![depth] = TRUE]
  /\ UNCHANGED <<clock, queueVars, pumpVars, call, pc, didWork, deadline, depth,
                 running, caller, jobVars>>

(* RunJob, up to job->Run().                                                 *)
StartJob(j, method) ==
  /\ pc' = "job"
  /\ running' = [running EXCEPT ![depth] = j]
  /\ caller' = [caller EXCEPT ![depth] = method]
  /\ fate' = [fate EXCEPT ![j] = "running"]
  /\ UNCHANGED <<asked, number, pushed>>

(* Mutant: the value DoWork or DoDelayedWork returns is lost.                *)
JobReturnFalse ==
  /\ pc = "job"
  /\ call[Loop].pc = "idle"
  /\ didWork' = FALSE
  /\ pc' = Checked(IF caller[depth] = "DoWork" THEN "DoDelayedWork" ELSE "DoWork")
  /\ fate' = [fate EXCEPT ![running[depth]] = "done"]
  /\ running' = [running EXCEPT ![depth] = NoJob]
  /\ UNCHANGED <<clock, queueVars, pumpVars, call, deadline, depth, quit, caller,
                 asked, number, pushed>>

(* The job returns and is deleted; DoWork or DoDelayedWork returns true.     *)
JobReturn ==
  /\ pc = "job"
  /\ call[Loop].pc = "idle"
  /\ didWork' = TRUE
  /\ pc' = Checked(IF caller[depth] = "DoWork" THEN "DoDelayedWork" ELSE "DoWork")
  /\ fate' = [fate EXCEPT ![running[depth]] = "done"]
  /\ running' = [running EXCEPT ![depth] = NoJob]
  /\ UNCHANGED <<clock, queueVars, pumpVars, call, deadline, depth, quit, caller,
                 asked, number, pushed>>

(* Mutant: the queue is replaced whether or not work_job_ is empty.          *)
ReloadAlways ==
  /\ pc = "DoWork"
  /\ work' = incoming
  /\ incoming' = << >>
  /\ IF incoming = << >>
     THEN pc' = Checked("DoDelayedWork") /\ didWork' = FALSE
     ELSE UNCHANGED <<pc, didWork>>
  /\ UNCHANGED <<clock, delayed, nextSeq, pumpVars, call, deadline, depth, quit,
                 running, caller, jobVars>>

(* DoWork: ReloadWorkQueue swaps the queues under the lock when work_job_ is *)
(* empty; with nothing to do DoWork returns false.                           *)
ReloadWorkQueue ==
  /\ pc = "DoWork"
  /\ work = << >>
  /\ work' = incoming
  /\ incoming' = << >>
  /\ IF incoming = << >>
     THEN pc' = Checked("DoDelayedWork") /\ didWork' = FALSE
     ELSE UNCHANGED <<pc, didWork>>
  /\ UNCHANGED <<clock, delayed, nextSeq, pumpVars, call, deadline, depth, quit,
                 running, caller, jobVars>>

(* DoWork: the front of work_job_ is run.                                    *)
DoWork ==
  /\ pc = "DoWork"
  /\ work # << >>
  /\ Head(work).due <= 0
  /\ work' = Tail(work)
  /\ StartJob(Head(work).job, "DoWork")
  /\ UNCHANGED <<clock, incoming, delayed, nextSeq, pumpVars, call, didWork, deadline,
                 depth, quit>>

(* DoWork: the front of work_job_ has a due tick and is moved to the delayed *)
(* queue; the pump is told when it became the top.                           *)
AddToDelayedWorkQueue ==
  /\ pc = "DoWork"
  /\ work # << >>
  /\ Head(work).due > 0
  /\ LET entry == [job |-> Head(work).job, due |-> Head(work).due, seq |-> nextSeq]
     IN  /\ delayed' = delayed \cup {entry}
         /\ delayedTime' = IF Top(delayed').job = entry.job THEN entry.due ELSE delayedTime
  /\ work' = Tail(work)
  /\ nextSeq' = nextSeq + 1
  /\ UNCHANGED <<clock, incoming, signaled, keepRunning, call, runVars, jobVars>>

(* DoDelayedWork: nothing is delayed, or the top is not due yet.             *)
DoDelayedWorkLater ==
  /\ pc = "DoDelayedWork"
  /\ ~TopIsDue
  /\ delayedTime' = IF delayed = {} THEN 0 ELSE Top(delayed).due
  /\ pc' = Checked(IF didWork THEN "DoWork" ELSE "DoIdleWork")
  /\ UNCHANGED <<clock, queueVars, signaled, keepRunning, call, didWork, deadline, depth,
                 quit, running, caller, jobVars>>

(* DoDelayedWork: the top is due and is run.                                 *)
DoDelayedWork ==
  /\ pc = "DoDelayedWork"
  /\ TopIsDue
  /\ delayed' = delayed \ {Top(delayed)}
  /\ delayedTime' = IF delayed' = {} THEN delayedTime ELSE Top(delayed').due
  /\ StartJob(Top(delayed).job, "DoDelayedWork")
  /\ UNCHANGED <<clock, incoming, work, nextSeq, signaled, keepRunning, call, didWork,
                 deadline, depth, quit>>

(* Mutant: keep_running_ is not looked at after DoIdleWork.                  *)
DoIdleWorkUnchecked ==
  /\ pc = "DoIdleWork"
  /\ keepRunning' = (keepRunning /\ ~quit[depth])
  /\ pc' = "sleep"
  /\ UNCHANGED <<clock, queueVars, signaled, delayedTime, call, didWork, deadline, depth,
                 quit, running, caller, jobVars>>

(* DoIdleWork: a Run that was told to quit stops the pump.                   *)
DoIdleWork ==
  /\ pc = "DoIdleWork"
  /\ keepRunning' = (keepRunning /\ ~quit[depth])
  /\ pc' = IF keepRunning' THEN "sleep" ELSE "exit"
  /\ UNCHANGED <<clock, queueVars, signaled, delayedTime, call, didWork, deadline, depth,
                 quit, running, caller, jobVars>>

(* The pump decides how long to sleep.                                       *)
Sleep ==
  LET delay == Int32(delayedTime - kTime)
  IN
  /\ pc = "sleep"
  /\ \/ /\ delayedTime = 0
        /\ pc' = "Wait"
        /\ UNCHANGED <<deadline, delayedTime>>
     \/ /\ delayedTime # 0
        /\ delay > 0
        /\ pc' = "TimedWait"
        /\ deadline' = clock + delay
        /\ UNCHANGED delayedTime
     \/ /\ delayedTime # 0
        /\ delay <= 0
        /\ pc' = "DoWork"
        /\ delayedTime' = kTime
        /\ UNCHANGED deadline
  /\ UNCHANGED <<clock, queueVars, signaled, keepRunning, call, didWork, depth, quit,
                 running, caller, jobVars>>

(* Wait and TimedWait return when the event is signaled, and reset it.       *)
WakeUp ==
  /\ pc \in {"Wait", "TimedWait"}
  /\ signaled
  /\ signaled' = FALSE
  /\ pc' = "DoWork"
  /\ UNCHANGED <<clock, queueVars, keepRunning, delayedTime, call, didWork, deadline, depth,
                 quit, running, caller, jobVars>>

(* TimedWait times out.                                                      *)
TimeOut ==
  /\ pc = "TimedWait"
  /\ ~signaled
  /\ clock >= deadline
  /\ pc' = "DoWork"
  /\ UNCHANGED <<clock, queueVars, pumpVars, call, didWork, deadline, depth, quit,
                 running, caller, jobVars>>

(* Mutant: a nested Run returns as if it were the outermost.                 *)
ExitRunToOutside ==
  /\ pc = "exit"
  /\ keepRunning' = TRUE
  /\ depth' = depth - 1
  /\ pc' = "out"
  /\ UNCHANGED <<clock, queueVars, signaled, delayedTime, call, didWork, deadline, quit,
                 running, caller, jobVars>>

(* The pump's Run returns, and ~AutoRunState restores the outer RunState.    *)
ExitRun ==
  /\ pc = "exit"
  /\ keepRunning' = TRUE
  /\ depth' = depth - 1
  /\ pc' = IF depth = 1 THEN "out" ELSE "job"
  /\ UNCHANGED <<clock, queueVars, signaled, delayedTime, call, didWork, deadline, quit,
                 running, caller, jobVars>>

-----------------------------------------------------------------------------
Post(t) ==
  \E j \in Jobs : \/ PostJob(t, j)
                  \/ \E d \in Delays : PostDelayJob(t, j, d)
                  \/ PostDelayJobNow(t, j)

(* What the loop's thread does on its own, without choosing to.              *)
LoopStep ==
  \/ JobReturn \/ ReloadWorkQueue \/ DoWork \/ AddToDelayedWorkQueue
  \/ DoDelayedWorkLater \/ DoDelayedWork \/ DoIdleWork \/ Sleep
  \/ WakeUp \/ TimeOut \/ ExitRun

Next ==
  \/ Tick
  \/ \E t \in Threads : Post(t) \/ Push(t) \/ ScheduleWork(t)
  \/ Run \/ Quit \/ LoopStep

(* Threads are scheduled, jobs return, time passes; nobody has to post, to   *)
(* call Run or to call Quit.                                                 *)
Fairness ==
  /\ WF_vars(Tick)
  /\ WF_vars(LoopStep)
  /\ \A t \in Threads : WF_vars(Push(t) \/ ScheduleWork(t))

Spec     == Init /\ [][Next]_vars
FairSpec == Spec /\ Fairness
-----------------------------------------------------------------------------
(* Every variable has its type, and the jobs in the queues are jobs.         *)
Fates  == {"new", "posting", "queued", "running", "done"}
Pcs    == {"out", "DoWork", "DoDelayedWork", "DoIdleWork", "sleep", "Wait", "TimedWait",
           "job", "exit"}
Entry  == [job : Jobs, due : Int]
Parked == [job : Jobs, due : Nat \ {0}, seq : Nat]

TypeOK ==
  /\ clock \in 0..MaxClock
  /\ incoming \in Seq(Entry) /\ work \in Seq(Entry)
  /\ delayed \subseteq Parked /\ nextSeq \in Nat
  /\ signaled \in BOOLEAN /\ keepRunning \in BOOLEAN /\ delayedTime \in Int
  /\ call \in [Threads -> [pc : {"idle", "push", "signal", "recurse"},
                           job : Jobs \cup {NoJob}, due : Int]]
  /\ \A t \in Threads : call[t].pc = "push" => call[t].job \in Jobs
  /\ pc \in Pcs /\ didWork \in BOOLEAN /\ deadline \in Int
  /\ depth \in 0..MaxDepth /\ (pc = "out" <=> depth = 0)
  /\ quit \in [Depths -> BOOLEAN]
  /\ running \in [Depths -> Jobs \cup {NoJob}]
  /\ caller \in [Depths -> {"DoWork", "DoDelayedWork"}]
  /\ fate \in [Jobs -> Fates]
  /\ asked \in [Jobs -> 0..MaxClock]
  /\ number \in [Jobs -> Nat] /\ pushed \in Nat

(* The pump has found nothing to run in this round and is about to sleep, or *)
(* sleeps.                                                                   *)
Committed ==
  \/ pc = "DoDelayedWork" /\ ~didWork
  \/ pc \in {"DoIdleWork", "sleep", "Wait", "TimedWait"}

(* No wake-up is lost: while the pump is about to sleep or sleeps, a job in  *)
(* incoming_job_ has the event set, or a thread on its way to set it.  Only  *)
(* the thread that pushes onto the empty queue signals, and it does so after *)
(* leaving the lock (PostJob_Helper), while the loop swaps the queue.        *)
NoLostWakeup ==
  Committed /\ incoming # << >> => signaled \/ \E t \in Threads : call[t].pc = "signal"

(* The pump does not go to sleep on a job it has already taken from          *)
(* incoming_job_, not even when jobs run nested loops that share work_job_.  *)
IdleImpliesDrained == Committed => work = << >>

(* The pump does not oversleep: it waits without limit only when nothing is  *)
(* delayed, and otherwise no longer than to the earliest delayed job;        *)
(* delayed_work_time_ is written by DoWork and DoDelayedWork at every depth  *)
(* of Run, and read once per round.                                          *)
NoOversleep ==
  /\ pc = "Wait" => delayed = {}
  /\ pc = "TimedWait" => \A e \in delayed : deadline <= asked[e.job]

(* The assertion at the head of MiniPumpDefault::Run: keep_running_ is one   *)
(* flag for all depths, so a nested Run must not leave it cleared.           *)
RunAssertion == pc \in {"out", "job"} => keepRunning

(* Every pending job is in exactly one place of one queue: none is dropped   *)
(* or handed over twice by the swap, the move to the delayed queue, or the   *)
(* nested Runs that interleave them.                                         *)
Places(j) ==
  {<<"incoming", i>> : i \in {i \in DOMAIN incoming : incoming[i].job = j}} \cup
  {<<"work", i>> : i \in {i \in DOMAIN work : work[i].job = j}} \cup
  {<<"delayed", e.seq>> : e \in {e \in delayed : e.job = j}}

Conservation ==
  \A j \in Jobs : Cardinality(Places(j)) = IF fate[j] = "queued" THEN 1 ELSE 0

(* When a delayed job is due the pump does not put it off: DoDelayedWork     *)
(* runs a job.                                                               *)
PastDueRuns ==
  [][pc = "DoDelayedWork" /\ pc' # pc /\ (\E e \in delayed : asked[e.job] <= clock)
     => pc' = "job"]_vars

(* The loop is a JobQueue: what it starts is due, and is started in the      *)
(* order of posting except for jobs that asked for a later time.             *)
Promise == INSTANCE JobQueue
KeepsPromise == Promise!Spec

(* A job that was pushed is run, unless the loop is left: the sleeping pump  *)
(* is woken for it, and its delay passes.                                    *)
QueuedJobsRun ==
  \A j \in Jobs : fate[j] = "queued" ~> (fate[j] # "queued" \/ pc = "out")

(* A Run that is told to quit returns, unless a job starts a nested Run: the *)
(* pump does not sleep with quit_received set.                               *)
QuitReturns == \A d \in Depths : (depth = d /\ quit[d]) ~> (depth # d)

(* No pending job is lost or doubled; jobs are run in the end, and delayed   *)
(* ones when the pump first looks after they are due.                        *)
JobsRun == []Conservation /\ PastDueRuns /\ QueuedJobsRun
=============================================================================
