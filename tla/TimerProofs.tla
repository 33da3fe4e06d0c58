----------------------------- MODULE TimerProofs ------------------------------
(***************************************************************************)
(* Proofs about Timer, for any timers, delays and addresses, and any bounds. *)
(***************************************************************************)
EXTENDS Timer, SequenceFacts

USE DEF queuesT, tasksT, endT, userT

-----------------------------------------------------------------------------
Types ==
  /\ life \in {"runs", "dies", "gone"} /\ round \in 0..Rounds
  /\ again \in BOOLEAN /\ didDelete \in BOOLEAN
  /\ inQueue \in Seq(Addresses) /\ workQueue \in Seq(Addresses) /\ delayedQueue \in Seq(Addresses)
  /\ allocated \subseteq Addresses /\ owners \subseteq allocated /\ existing \subseteq Timers
  /\ timerOf \in [Addresses -> Timers \cup {Nobody}] /\ wait \in [Addresses -> Nat]
  /\ dueAt \in [Addresses -> Nat] /\ tickTime \in 0..MaxTime
  /\ delayedTask \in [Timers -> Addresses \cup {Nobody}] /\ trigger \in [Delaying -> Nat]
  /\ inTask \in allocated \cup {Nobody} /\ callee \in Timers \cup {Nobody}

(* The pointers of a timer and of its task.                                  *)
TimerLinked(t) ==
  delayedTask[t] # Nobody =>
    t \in existing /\ delayedTask[t] \in allocated /\ timerOf[delayedTask[t]] = t

TaskLinked(k) ==
  timerOf[k] # Nobody =>
    k \in allocated /\ timerOf[k] \in existing /\ delayedTask[timerOf[k]] = k

Linked == (\A t \in Timers : TimerLinked(t)) /\ (\A k \in Addresses : TaskLinked(k))

(* What is known of a task by what it is: one that owns an object has no     *)
(* timer, nor has the one that runs; none is due later than its delay says.  *)
Described(k) ==
  /\ k \in owners \/ k = inTask => timerOf[k] = Nobody
  /\ k \in owners => wait[k] = 1
  /\ dueAt[k] <= tickTime + wait[k]

(* A task is in one queue, or it runs, or it was dropped, not being delayed. *)
Placed(k) ==
  /\ Within(k, inQueue) =>
       k \in allocated /\ k # inTask /\ ~Within(k, workQueue) /\ ~Within(k, delayedQueue)
  /\ Within(k, workQueue) => k \in allocated /\ k # inTask /\ ~Within(k, delayedQueue)
  /\ Within(k, delayedQueue) => k \in allocated /\ k # inTask
  /\ k \in allocated =>
       \/ Within(k, inQueue) \/ Within(k, workQueue) \/ Within(k, delayedQueue)
       \/ k = inTask \/ wait[k] = 0

Once == NoRepeats(inQueue) /\ NoRepeats(workQueue) /\ NoRepeats(delayedQueue)

Tasks == Once /\ (inTask = Nobody => callee = Nobody)
              /\ \A k \in Addresses : Described(k) /\ Placed(k)

(* The end of the loop: no task that owns an object is posted any more, so    *)
(* that the first round deletes all of them, and the second all they posted. *)
Ending ==
  /\ life = "dies" /\ inTask # Nobody => inTask \in owners /\ didDelete
  /\ life = "dies" /\ (again \/ round # 1) => \A k \in owners : ~Within(k, inQueue)
  /\ life = "dies" /\ round # 1 => owners = {}
  /\ life = "dies" /\ again /\ (~didDelete \/ round # 1) => inQueue = << >>
  /\ life = "gone" => /\ inQueue = << >> /\ workQueue = << >> /\ delayedQueue = << >>
                      /\ inTask = Nobody

IInv == Types /\ Linked /\ Tasks /\ Ending

-----------------------------------------------------------------------------
LEMMA InitIInv == TimerInit => IInv
<1> SUFFICES ASSUME TimerInit PROVE IInv
  OBVIOUS
<1>1. << >> \in Seq(Addresses)
  OBVIOUS
<1>2. Types
  <2>1. round \in 0..Rounds /\ tickTime \in 0..MaxTime
    BY TimerAssumption DEF TimerInit
  <2>2. /\ inQueue \in Seq(Addresses) /\ workQueue \in Seq(Addresses)
        /\ delayedQueue \in Seq(Addresses)
    BY <1>1 DEF TimerInit
  <2>3. QED BY <2>1, <2>2 DEF TimerInit, Types
<1>3. Linked
  BY DEF TimerInit, Linked, TimerLinked, TaskLinked
<1>4. Tasks
  BY WithinEmpty DEF TimerInit, Tasks, Once, Described, Placed
<1>5. Ending
  BY DEF TimerInit, Ending
<1>6. QED BY <1>2, <1>3, <1>4, <1>5 DEF IInv

-----------------------------------------------------------------------------
(* What AddToDelayedWorkQueue does to the queue.                             *)
LEMMA AddingToDelayed ==
  ASSUME Types, NEW k \in Addresses
  PROVE  LET q == AddToDelayed(k)
         IN  /\ q \in Seq(Addresses)
             /\ \A x : Within(x, q) <=> Within(x, delayedQueue) \/ x = k
             /\ NoRepeats(delayedQueue) /\ ~Within(k, delayedQueue) => NoRepeats(q)
<1> DEFINE sooner == {n \in DOMAIN delayedQueue : dueAt[delayedQueue[n]] <= dueAt[k]}
<1>1. delayedQueue \in Seq(Addresses) /\ Len(delayedQueue) \in Nat
      /\ DOMAIN delayedQueue = 1..Len(delayedQueue)
  BY DEF Types
<1>2. /\ IsFiniteSet(1..Len(delayedQueue))
      /\ Cardinality(1..Len(delayedQueue)) = Len(delayedQueue)
  <2>1. 1 \in Int /\ Len(delayedQueue) \in Int
    BY <1>1
  <2>2. /\ IsFiniteSet(1..Len(delayedQueue))
        /\ Cardinality(1..Len(delayedQueue)) =
             IF 1 > Len(delayedQueue) THEN 0 ELSE Len(delayedQueue) - 1 + 1
    BY <2>1, FS_Interval, Zenon
  <2>3. QED BY <2>2, <1>1
<1>3. sooner \subseteq 1..Len(delayedQueue)
  BY <1>1
<1> HIDE DEF sooner
<1>4. Cardinality(sooner) \in Nat /\ Cardinality(sooner) <= Len(delayedQueue)
  BY <1>2, <1>3, FS_Subset, FS_CardinalityType
<1>5. 1 + Cardinality(sooner) \in 1..Len(delayedQueue) + 1
  BY <1>1, <1>4
<1>6. AddToDelayed(k) = InsertAt(delayedQueue, 1 + Cardinality(sooner), k)
  BY DEF AddToDelayed, sooner
<1> DEFINE i == 1 + Cardinality(sooner)
<1>7. AddToDelayed(k) = PutIn(delayedQueue, i, k)
  BY <1>6 DEF InsertAt, PutIn
<1>8. i \in 1..Len(delayedQueue) + 1
  BY <1>5
<1> HIDE DEF i
<1>9. QED BY <1>1, <1>7, <1>8, Inserting

(* What InitiateDelayedTask does; k is the new task.                         *)
Initiated(t, ms, k) ==
  /\ k \in Addresses \ allocated /\ allocated' = allocated \cup {k} /\ owners' = owners
  /\ timerOf' \in [Addresses -> Timers \cup {Nobody}] /\ timerOf'[k] = t
  /\ \A j \in Addresses : j # k =>
       timerOf'[j] = IF j = delayedTask[t] THEN Nobody ELSE timerOf[j]
  /\ delayedTask' \in [Timers -> Addresses \cup {Nobody}] /\ delayedTask'[t] = k
  /\ \A u \in Timers : u # t => delayedTask'[u] = delayedTask[u]
  /\ wait' \in [Addresses -> Nat] /\ wait'[k] = ms
  /\ \A j \in Addresses : j # k => wait'[j] = wait[j]
  /\ dueAt' \in [Addresses -> Nat] /\ dueAt'[k] = tickTime + ms
  /\ \A j \in Addresses : j # k => dueAt'[j] = dueAt[j]
  /\ inQueue' \in Seq(Addresses) /\ inQueue' # << >> /\ NoRepeats(inQueue')
  /\ \A j : Within(j, inQueue') <=> Within(j, inQueue) \/ j = k

LEMMA Initiating ==
  ASSUME IInv, NEW t \in Timers, NEW ms \in Nat, InitiateDelayedTask(t, ms)
  PROVE  \E k \in Addresses : Initiated(t, ms, k)
<1>1. PICK k \in Available :
        /\ allocated' = allocated \cup {k} /\ timerOf' = TasksOf(t, k)
        /\ delayedTask' = [delayedTask EXCEPT ![t] = k]
        /\ wait' = [wait EXCEPT ![k] = ms] /\ dueAt' = [dueAt EXCEPT ![k] = tickTime + ms]
        /\ inQueue' = Append(inQueue, k) /\ owners' = owners
  BY DEF InitiateDelayedTask, NewTask
<1>2. Types /\ Once /\ k \in Addresses \ allocated /\ Placed(k) /\ tickTime + ms \in Nat
  BY <1>1 DEF IInv, Types, Tasks, Available
<1>3. /\ timerOf' \in [Addresses -> Timers \cup {Nobody}] /\ timerOf'[k] = t
      /\ \A j \in Addresses : j # k =>
           timerOf'[j] = IF j = delayedTask[t] THEN Nobody ELSE timerOf[j]
  BY <1>1, <1>2 DEF Types, TasksOf, Orphaned
<1>4. /\ delayedTask' \in [Timers -> Addresses \cup {Nobody}] /\ delayedTask'[t] = k
      /\ \A u \in Timers : u # t => delayedTask'[u] = delayedTask[u]
  BY <1>1, <1>2 DEF Types
<1>5. /\ wait' \in [Addresses -> Nat] /\ wait'[k] = ms
      /\ \A j \in Addresses : j # k => wait'[j] = wait[j]
      /\ dueAt' \in [Addresses -> Nat] /\ dueAt'[k] = tickTime + ms
      /\ \A j \in Addresses : j # k => dueAt'[j] = dueAt[j]
  BY <1>1, <1>2 DEF Types
<1>6. /\ inQueue' \in Seq(Addresses) /\ inQueue' # << >> /\ NoRepeats(inQueue')
      /\ \A j : Within(j, inQueue') <=> Within(j, inQueue) \/ j = k
  <2>1. inQueue \in Seq(Addresses) /\ NoRepeats(inQueue) /\ ~Within(k, inQueue)
    BY <1>2 DEF Types, Once, Placed
  <2>2. /\ Append(inQueue, k) \in Seq(Addresses) /\ Append(inQueue, k) # << >>
        /\ NoRepeats(Append(inQueue, k))
        /\ \A j : Within(j, Append(inQueue, k)) <=> Within(j, inQueue) \/ j = k
    BY <2>1, <1>2, Appending
  <2>3. QED BY <2>2, <1>1
<1>7. QED BY <1>1, <1>2, <1>3, <1>4, <1>5, <1>6 DEF Initiated

(* What ClearBaseTimer and ~TimerTask do.                                    *)
Cleared(k) ==
  /\ timerOf' \in [Addresses -> Timers \cup {Nobody}] /\ timerOf'[k] = Nobody
  /\ \A j \in Addresses : j # k => timerOf'[j] = timerOf[j]
  /\ delayedTask' \in [Timers -> Addresses \cup {Nobody}]
  /\ \A u \in Timers :
       delayedTask'[u] = IF delayedTask[u] = k THEN Nobody ELSE delayedTask[u]

LEMMA Clearing ==
  ASSUME IInv, NEW k \in Addresses, ClearBaseTimer(k)
  PROVE  Cleared(k)
<1>1. /\ timerOf' \in [Addresses -> Timers \cup {Nobody}] /\ timerOf'[k] = Nobody
      /\ \A j \in Addresses : j # k => timerOf'[j] = timerOf[j]
  BY DEF ClearBaseTimer, IInv, Types
<1>2. \A u \in Timers : delayedTask[u] = k => timerOf[k] = u
  BY TimerAssumption DEF IInv, Linked, TimerLinked
<1>3. /\ delayedTask' \in [Timers -> Addresses \cup {Nobody}]
      /\ \A u \in Timers :
           delayedTask'[u] = IF delayedTask[u] = k THEN Nobody ELSE delayedTask[u]
  BY <1>2 DEF ClearBaseTimer, ClearedTimers, IInv, Types
<1>4. QED BY <1>1, <1>3 DEF Cleared

Deleted(k) ==
  /\ Cleared(k) /\ allocated' = allocated \ {k} /\ owners' = owners \ {k}
  /\ wait' \in [Addresses -> Nat] /\ dueAt' \in [Addresses -> Nat]
  /\ wait'[k] = 0 /\ dueAt'[k] = 0
  /\ \A j \in Addresses : j # k => wait'[j] = wait[j] /\ dueAt'[j] = dueAt[j]

LEMMA DeletingTask ==
  ASSUME IInv, NEW k \in Addresses, DeleteTask(k)
  PROVE  Deleted(k)
<1>1. Cleared(k)
  BY Clearing DEF DeleteTask
<1>2. QED BY <1>1 DEF DeleteTask, Deleted, IInv, Types

-----------------------------------------------------------------------------
(* Pointers still agree when a timer has got a new task,                     *)
LEMMA InitiatedLinked ==
  ASSUME IInv, NEW t \in existing, NEW ms \in Nat, NEW k \in Addresses, Initiated(t, ms, k),
         existing' = existing
  PROVE  Linked'
<1>1. Types /\ Linked /\ t \in Timers /\ Nobody \notin Addresses /\ Nobody \notin Timers
  BY TimerAssumption DEF IInv, Types
<1>2. ASSUME NEW u \in Timers PROVE TimerLinked(u)'
  <2>1. CASE u = t
    BY <1>1, <2>1 DEF Initiated, TimerLinked
  <2>2. CASE u # t
    <3>1. delayedTask'[u] = delayedTask[u] /\ TimerLinked(u) /\ TimerLinked(t)
      BY <1>1, <2>2 DEF Initiated, Linked
    <3>2. SUFFICES ASSUME delayedTask[u] # Nobody PROVE TimerLinked(u)'
      BY <3>1 DEF TimerLinked
    <3>3. /\ delayedTask[u] \in allocated /\ timerOf[delayedTask[u]] = u /\ u \in existing
          /\ delayedTask[u] # delayedTask[t] /\ delayedTask[u] # k
      BY <3>1, <3>2, <2>2 DEF TimerLinked, Initiated
    <3>4. delayedTask[u] \in Addresses
      BY <1>1, <3>3 DEF Types
    <3>5. timerOf'[delayedTask[u]] = u
      BY <3>3, <3>4 DEF Initiated
    <3>6. QED BY <3>1, <3>3, <3>5 DEF TimerLinked, Initiated
  <2>3. QED BY <2>1, <2>2
<1>3. ASSUME NEW j \in Addresses PROVE TaskLinked(j)'
  <2>1. CASE j = k
    BY <1>1, <2>1 DEF Initiated, TaskLinked
  <2>2. CASE j # k
    <3>1. TaskLinked(j) /\ timerOf'[j] = IF j = delayedTask[t] THEN Nobody ELSE timerOf[j]
      BY <1>1, <2>2 DEF Initiated, Linked
    <3>2. SUFFICES ASSUME timerOf'[j] # Nobody PROVE TaskLinked(j)'
      BY DEF TaskLinked
    <3>3. /\ timerOf'[j] = timerOf[j] /\ j # delayedTask[t]
          /\ j \in allocated /\ timerOf[j] \in existing /\ delayedTask[timerOf[j]] = j
      BY <3>1, <3>2 DEF TaskLinked
    <3>4. timerOf[j] # t /\ timerOf[j] \in Timers
      BY <3>3, <1>1 DEF Types
    <3>5. delayedTask'[timerOf[j]] = j
      BY <3>3, <3>4 DEF Initiated
    <3>6. QED BY <3>3, <3>5 DEF TaskLinked, Initiated
  <2>3. QED BY <2>1, <2>2
<1>4. QED BY <1>2, <1>3 DEF Linked

(* and when a task has lost its timer.                                       *)
LEMMA ClearedLinked ==
  ASSUME IInv, NEW k \in Addresses, Cleared(k),
         existing' = existing, allocated' = allocated \/ allocated' = allocated \ {k}
  PROVE  Linked'
<1>1. Types /\ Linked /\ Nobody \notin Addresses /\ Nobody \notin Timers
  BY TimerAssumption DEF IInv, Types
<1>2. ASSUME NEW u \in Timers PROVE TimerLinked(u)'
  <2>1. TimerLinked(u) /\ delayedTask'[u] = IF delayedTask[u] = k THEN Nobody ELSE delayedTask[u]
    BY <1>1 DEF Linked, Cleared
  <2>2. SUFFICES ASSUME delayedTask'[u] # Nobody PROVE TimerLinked(u)'
    BY DEF TimerLinked
  <2>3. /\ delayedTask'[u] = delayedTask[u] /\ delayedTask[u] # k
        /\ u \in existing /\ delayedTask[u] \in allocated /\ timerOf[delayedTask[u]] = u
    BY <2>1, <2>2 DEF TimerLinked
  <2>4. delayedTask[u] \in Addresses
    BY <2>3, <1>1 DEF Types
  <2>5. timerOf'[delayedTask[u]] = u
    BY <2>3, <2>4 DEF Cleared
  <2>6. QED BY <2>3, <2>5 DEF TimerLinked
<1>3. ASSUME NEW j \in Addresses PROVE TaskLinked(j)'
  <2>1. CASE j = k
    BY <2>1 DEF Cleared, TaskLinked
  <2>2. CASE j # k
    <3>1. TaskLinked(j) /\ timerOf'[j] = timerOf[j]
      BY <1>1, <2>2 DEF Linked, Cleared
    <3>2. SUFFICES ASSUME timerOf'[j] # Nobody PROVE TaskLinked(j)'
      BY DEF TaskLinked
    <3>3. j \in allocated /\ timerOf[j] \in existing /\ delayedTask[timerOf[j]] = j
      BY <3>1, <3>2 DEF TaskLinked
    <3>4. timerOf[j] \in Timers
      BY <3>3, <1>1 DEF Types
    <3>5. delayedTask'[timerOf[j]] = j
      BY <3>3, <3>4, <2>2 DEF Cleared
    <3>6. QED BY <3>1, <3>3, <3>5, <2>2 DEF TaskLinked
  <2>3. QED BY <2>1, <2>2
<1>4. QED BY <1>2, <1>3 DEF Linked

-----------------------------------------------------------------------------
(* The queues but for x, and with Nobody for x the queues as they were.      *)
TakenOut(x) ==
  /\ workQueue' \in Seq(Addresses) /\ delayedQueue' \in Seq(Addresses)
  /\ NoRepeats(workQueue') /\ NoRepeats(delayedQueue')
  /\ \A j \in Addresses : Within(j, workQueue') <=> Within(j, workQueue) /\ j # x
  /\ \A j \in Addresses : Within(j, delayedQueue') <=> Within(j, delayedQueue) /\ j # x

LEMMA NoneTakenOut ==
  ASSUME IInv, UNCHANGED <<workQueue, delayedQueue>>
  PROVE  TakenOut(Nobody)
  BY TimerAssumption DEF IInv, Types, Tasks, Once, TakenOut

(* x is the task that starts to run, or Nobody.                              *)
Runs(x) ==
  \/ x = Nobody /\ inTask' = inTask
  \/ /\ x \in Addresses /\ inTask = Nobody /\ inTask' = x
     /\ Within(x, workQueue) \/ Within(x, delayedQueue)

LEMMA InitiatedTasks ==
  ASSUME IInv, NEW t \in existing, NEW ms \in Nat, NEW k \in Addresses, Initiated(t, ms, k),
         tickTime' = tickTime, NEW x, TakenOut(x), Runs(x), x # Nobody => x = delayedTask[t],
         inTask' = Nobody => callee' = Nobody
  PROVE  Tasks'
<1>1. Types /\ Tasks /\ Nobody \notin Addresses
  BY TimerAssumption DEF IInv
<1>2. Once'
  BY DEF Once, TakenOut, Initiated
<1>3. ASSUME NEW j \in Addresses PROVE Described(j)'
  <2>1. Described(j)
    BY <1>1 DEF Tasks
  <2>2. CASE j = k
    <3>1. j \notin owners' /\ j # inTask'
      <4>1. j \notin allocated /\ owners \subseteq allocated /\ inTask \in allocated \cup {Nobody}
        BY <2>2, <1>1 DEF Initiated, Types
      <4>2. x # Nobody => x \in allocated
        BY <1>1 DEF Runs, Tasks, Placed
      <4>3. QED BY <4>1, <4>2, <1>1 DEF Initiated, Runs
    <3>2. QED BY <2>2, <3>1, <1>1 DEF Described, Initiated, Types
  <2>3. CASE j # k
    <3>1. /\ timerOf'[j] = IF j = delayedTask[t] THEN Nobody ELSE timerOf[j]
          /\ wait'[j] = wait[j] /\ dueAt'[j] = dueAt[j] /\ owners' = owners
      BY <2>3 DEF Initiated
    <3>2. j = inTask' => j = inTask \/ j = delayedTask[t]
      BY <1>1 DEF Runs
    <3>3. QED BY <2>1, <3>1, <3>2 DEF Described
  <2>4. QED BY <2>2, <2>3
<1>4. ASSUME NEW j \in Addresses PROVE Placed(j)'
  <2>1. Placed(j)
    BY <1>1 DEF Tasks
  <2>2. /\ Within(j, workQueue') <=> Within(j, workQueue) /\ j # x
        /\ Within(j, delayedQueue') <=> Within(j, delayedQueue) /\ j # x
        /\ Within(j, inQueue') <=> Within(j, inQueue) \/ j = k
        /\ allocated' = allocated \cup {k} /\ k \notin allocated
        /\ j # k => wait'[j] = wait[j]
    BY DEF TakenOut, Initiated
  <2>3. j = x => inTask' = j /\ inTask = Nobody /\ (Within(j, workQueue) \/ Within(j, delayedQueue))
    BY <1>1 DEF Runs
  <2>4. j # x => (j = inTask' <=> j = inTask)
    BY <1>1 DEF Runs
  <2>5. inTask \in allocated \cup {Nobody}
    BY <1>1 DEF Types
  <2>6. QED BY <2>1, <2>2, <2>3, <2>4, <2>5, <1>1 DEF Placed
<1>5. QED BY <1>2, <1>3, <1>4 DEF Tasks

(* A timer's task that is about to run has lost it.                          *)
LEMMA ClearedTasks ==
  ASSUME IInv, NEW x \in Addresses, Cleared(x), TakenOut(x), Runs(x),
         UNCHANGED <<tickTime, inQueue, allocated, wait, dueAt, owners>>
  PROVE  Tasks'
<1>1. Types /\ Tasks /\ Nobody \notin Addresses
  BY TimerAssumption DEF IInv
<1>2. Once'
  BY <1>1 DEF Tasks, Once, TakenOut
<1>3. ASSUME NEW j \in Addresses PROVE Described(j)'
  <2>1. Described(j) /\ (j # x => timerOf'[j] = timerOf[j]) /\ timerOf'[x] = Nobody
    BY <1>1 DEF Tasks, Cleared
  <2>2. j = inTask' => j = x
    BY <1>1 DEF Runs
  <2>3. QED BY <2>1, <2>2 DEF Described
<1>4. ASSUME NEW j \in Addresses PROVE Placed(j)'
  <2>1. Placed(j)
    BY <1>1 DEF Tasks
  <2>2. /\ Within(j, workQueue') <=> Within(j, workQueue) /\ j # x
        /\ Within(j, delayedQueue') <=> Within(j, delayedQueue) /\ j # x
    BY DEF TakenOut
  <2>3. inTask' = x /\ inTask = Nobody /\ (Within(x, workQueue) \/ Within(x, delayedQueue))
    BY <1>1 DEF Runs
  <2>4. QED BY <2>1, <2>2, <2>3, <1>1 DEF Placed
<1>5. QED BY <1>1, <1>2, <1>3, <1>4 DEF Tasks, Runs

(* A task is deleted when it has left its queue, or has run.                 *)
LEMMA DeletedTasks ==
  ASSUME IInv, NEW x \in Addresses, Deleted(x), TakenOut(x), ~Within(x, inQueue),
         inTask' = Nobody, inTask \in {x, Nobody}, callee' = Nobody, UNCHANGED <<tickTime, inQueue>>
  PROVE  Tasks'
<1>1. Types /\ Tasks /\ Nobody \notin Addresses
  BY TimerAssumption DEF IInv
<1>2. Once'
  BY <1>1 DEF Tasks, Once, TakenOut
<1>3. ASSUME NEW j \in Addresses PROVE Described(j)'
  <2>1. Described(j) /\ tickTime \in Nat
    BY <1>1, TimerAssumption DEF Tasks, Types
  <2>2. CASE j = x
    BY <2>1, <2>2, <1>1 DEF Described, Deleted, Cleared
  <2>3. CASE j # x
    BY <2>1, <2>3, <1>1 DEF Described, Deleted, Cleared
  <2>4. QED BY <2>2, <2>3
<1>4. ASSUME NEW j \in Addresses PROVE Placed(j)'
  <2>1. Placed(j)
    BY <1>1 DEF Tasks
  <2>2. /\ Within(j, workQueue') <=> Within(j, workQueue) /\ j # x
        /\ Within(j, delayedQueue') <=> Within(j, delayedQueue) /\ j # x
        /\ allocated' = allocated \ {x} /\ (j # x => wait'[j] = wait[j])
    BY DEF TakenOut, Deleted
  <2>3. QED BY <2>1, <2>2, <1>1 DEF Placed
<1>5. QED BY <1>2, <1>3, <1>4 DEF Tasks

-----------------------------------------------------------------------------
LEMMA UserInitiates ==
  ASSUME IInv, NEW t \in existing, NEW ms \in Nat, InitiateDelayedTask(t, ms), InLoop,
         UNCHANGED unmovedByUser, existing' = existing, trigger' \in [Delaying -> Nat]
  PROVE  IInv'
<1>1. Types /\ Tasks /\ Ending /\ t \in Timers /\ UNCHANGED <<workQueue, delayedQueue>>
  BY DEF IInv, Types, unmovedByUser
<1>2. PICK k \in Addresses : Initiated(t, ms, k)
  BY <1>1, Initiating
<1>3. Types'
  <2>1. /\ inQueue' \in Seq(Addresses) /\ workQueue' \in Seq(Addresses)
        /\ delayedQueue' \in Seq(Addresses)
    BY <1>1, <1>2 DEF Types, Initiated
  <2>2. allocated' \subseteq Addresses /\ owners' \subseteq allocated' /\ allocated \subseteq allocated'
    BY <1>1, <1>2 DEF Types, Initiated
  <2>3. QED BY <1>1, <1>2, <2>1, <2>2 DEF Types, Initiated, unmovedByUser
<1>4. Linked'
  BY <1>2, InitiatedLinked
<1>5. Tasks'
  <2>1. TakenOut(Nobody) /\ Runs(Nobody) /\ tickTime' = tickTime
    BY <1>1, NoneTakenOut DEF Runs, unmovedByUser
  <2>2. inTask' = Nobody => callee' = Nobody
    BY <1>1 DEF Tasks, unmovedByUser
  <2>3. QED BY <1>2, <2>1, <2>2, InitiatedTasks
<1>6. Ending'
  <2>1. /\ \A j : Within(j, inQueue') <=> Within(j, inQueue) \/ j = k
        /\ k \notin owners /\ owners' = owners
    BY <1>1, <1>2 DEF Initiated, Types
  <2>2. life # "runs" => inTask # Nobody
    BY DEF InLoop
  <2>3. QED BY <1>1, <2>1, <2>2 DEF Ending, unmovedByUser
<1>7. QED BY <1>3, <1>4, <1>5, <1>6 DEF IInv

(* Stop and the destructor of a timer.                                       *)
LEMMA UserOrphans ==
  ASSUME IInv, NEW t \in Timers,
         timerOf' = Orphaned(t), delayedTask' = [delayedTask EXCEPT ![t] = Nobody],
         existing' = existing \/ existing' = existing \ {t},
         UNCHANGED <<unmovedByUser, inQueue, allocated, wait, dueAt, owners, trigger>>
  PROVE  IInv'
<1>1. Types /\ Linked /\ Tasks /\ Ending /\ Nobody \notin Addresses
  BY TimerAssumption DEF IInv
<1>2. /\ timerOf' \in [Addresses -> Timers \cup {Nobody}]
      /\ \A j \in Addresses : timerOf'[j] = IF j = delayedTask[t] THEN Nobody ELSE timerOf[j]
  BY <1>1 DEF Types, Orphaned
<1>3. /\ delayedTask' \in [Timers -> Addresses \cup {Nobody}] /\ delayedTask'[t] = Nobody
      /\ \A u \in Timers : u # t => delayedTask'[u] = delayedTask[u]
  BY <1>1 DEF Types
<1>4. UNCHANGED <<life, endT, queuesT, allocated, wait, dueAt, owners, inTask, callee, trigger, tickTime>>
  BY DEF unmovedByUser
<1>5. Types'
  BY <1>1, <1>2, <1>3, <1>4 DEF Types
<1>6. Linked'
  <2>1. ASSUME NEW u \in Timers PROVE TimerLinked(u)'
    <3>1. CASE u = t
      BY <1>3, <3>1 DEF TimerLinked
    <3>2. CASE u # t
      <4>1. TimerLinked(u) /\ TimerLinked(t) /\ delayedTask'[u] = delayedTask[u]
        BY <1>1, <1>3, <3>2 DEF Linked
      <4>2. SUFFICES ASSUME delayedTask[u] # Nobody PROVE TimerLinked(u)'
        BY <4>1 DEF TimerLinked
      <4>3. /\ delayedTask[u] \in allocated /\ timerOf[delayedTask[u]] = u /\ u \in existing
            /\ delayedTask[u] # delayedTask[t] /\ delayedTask[u] \in Addresses
        BY <4>1, <4>2, <3>2, <1>1 DEF TimerLinked, Types
      <4>4. QED BY <4>1, <4>3, <3>2, <1>2, <1>4 DEF TimerLinked
    <3>3. QED BY <3>1, <3>2
  <2>2. ASSUME NEW j \in Addresses PROVE TaskLinked(j)'
    <3>1. TaskLinked(j) /\ timerOf'[j] = IF j = delayedTask[t] THEN Nobody ELSE timerOf[j]
      BY <1>1, <1>2 DEF Linked
    <3>2. SUFFICES ASSUME timerOf'[j] # Nobody PROVE TaskLinked(j)'
      BY DEF TaskLinked
    <3>3. /\ timerOf'[j] = timerOf[j] /\ j # delayedTask[t]
          /\ j \in allocated /\ timerOf[j] \in existing /\ delayedTask[timerOf[j]] = j
      BY <3>1, <3>2 DEF TaskLinked
    <3>4. timerOf[j] # t /\ timerOf[j] \in Timers
      BY <3>3, <1>1 DEF Types
    <3>5. delayedTask'[timerOf[j]] = j
      BY <3>3, <3>4, <1>3
    <3>6. QED BY <3>3, <3>4, <3>5, <1>4 DEF TaskLinked
  <2>3. QED BY <2>1, <2>2 DEF Linked
<1>7. Tasks'
  <2>1. ASSUME NEW j \in Addresses PROVE Described(j)' /\ Placed(j)'
    <3>1. Described(j) /\ Placed(j) /\ timerOf'[j] \in {timerOf[j], Nobody}
      BY <1>1, <1>2 DEF Tasks
    <3>2. Described(j)'
      BY <3>1, <1>4 DEF Described
    <3>3. Placed(j)'
      BY <3>1, <1>4 DEF Placed
    <3>4. QED BY <3>2, <3>3
  <2>2. QED BY <2>1, <1>1, <1>4 DEF Tasks, Once
<1>8. Ending'
  BY <1>1, <1>4 DEF Ending
<1>9. QED BY <1>5, <1>6, <1>7, <1>8 DEF IInv

LEMMA StopKeeps ==
  ASSUME IInv, NEW t \in Timers, Stop(t)
  PROVE  IInv'
<1>1. UNCHANGED <<unmovedByUser, inQueue, allocated, wait, dueAt, owners, trigger, existing>>
  BY DEF Stop
<1>2. QED BY <1>1, UserOrphans DEF Stop

LEMMA DestroyTimerKeeps ==
  ASSUME IInv, NEW t \in Timers, DestroyTimer(t)
  PROVE  IInv'
  BY UserOrphans DEF DestroyTimer

LEMMA StartKeeps ==
  ASSUME IInv, NEW t \in Timers, Start(t)
  PROVE  IInv'
<1>1. PICK ms \in Delays : InitiateDelayedTask(t, ms)
  BY DEF Start
<1>2. ms \in Nat /\ t \in existing /\ InLoop /\ trigger \in [Delaying -> Nat]
  BY <1>1, TimerAssumption DEF Start, IInv, Types
<1>3. QED BY <1>1, <1>2, UserInitiates DEF Start

LEMMA ResetKeeps ==
  ASSUME IInv, NEW t \in Timers, Reset(t)
  PROVE  IInv'
<1>1. wait[delayedTask[t]] \in Nat /\ t \in existing /\ InLoop /\ trigger \in [Delaying -> Nat]
  BY DEF Reset, IsRunning, IInv, Types
<1>2. QED BY <1>1, UserInitiates DEF Reset

LEMMA ResetDelayTimerKeeps ==
  ASSUME IInv, NEW t \in Timers, ResetDelayTimer(t)
  PROVE  IInv'
<1>1. Types /\ Linked /\ Tasks /\ Ending /\ t \in Delaying /\ t \in existing /\ DelayOf[t] \in Nat
  BY TimerAssumption DEF IInv, ResetDelayTimer
<1>2. tickTime \in Nat
  BY <1>1, TimerAssumption DEF Types
<1>3. trigger' \in [Delaying -> Nat]
  BY <1>1, <1>2 DEF ResetDelayTimer, DelayFor, Types
<1>4. CASE UNCHANGED <<tasksT, delayedTask, inQueue>>
  <2>1. UNCHANGED <<life, endT, queuesT, tasksT, inTask, callee, existing, delayedTask, tickTime>>
    BY <1>4 DEF ResetDelayTimer, unmovedByUser
  <2>2. Types'
    BY <1>1, <1>3, <2>1 DEF Types
  <2>3. Linked'
    BY <1>1, <2>1 DEF Linked, TimerLinked, TaskLinked
  <2>4. Tasks'
    BY <1>1, <2>1 DEF Tasks, Once, Described, Placed
  <2>5. Ending'
    BY <1>1, <2>1 DEF Ending
  <2>6. QED BY <2>2, <2>3, <2>4, <2>5 DEF IInv
<1>5. CASE InitiateDelayedTask(t, DelayOf[t])
  BY <1>1, <1>3, <1>5, UserInitiates DEF ResetDelayTimer
<1>6. QED BY <1>4, <1>5 DEF ResetDelayTimer, DelayFor

LEMMA PostOwnerKeeps ==
  ASSUME IInv, PostOwner
  PROVE  IInv'
<1>1. Types /\ Linked /\ Tasks /\ Ending /\ Nobody \notin Addresses /\ tickTime \in Nat
  BY TimerAssumption DEF IInv, Types
<1>2. Available # {}
  <2>1. Cardinality(Available) # 0
    BY DEF PostOwner, Affordable
  <2>2. QED BY <2>1, FS_EmptySet
<1>3. PICK k \in Available :
       /\ allocated' = allocated \cup {k} /\ owners' = owners \cup {k}
       /\ timerOf' = [timerOf EXCEPT ![k] = Nobody]
       /\ wait' = [wait EXCEPT ![k] = 1] /\ dueAt' = [dueAt EXCEPT ![k] = tickTime + 1]
       /\ inQueue' = Append(inQueue, k)
  BY <1>2 DEF PostOwner, NewTask
<1>4. /\ UNCHANGED <<life, endT, workQueue, delayedQueue, inTask, callee, existing, trigger, delayedTask, tickTime>>
      /\ life = "runs"
  BY DEF PostOwner, unmovedByUser
<1>5. k \in Addresses /\ k \notin allocated /\ k # inTask
  BY <1>1, <1>3 DEF Available, Types
<1>6. /\ timerOf' \in [Addresses -> Timers \cup {Nobody}] /\ wait' \in [Addresses -> Nat]
      /\ dueAt' \in [Addresses -> Nat]
      /\ timerOf'[k] = Nobody /\ wait'[k] = 1 /\ dueAt'[k] = tickTime + 1
      /\ \A j \in Addresses : j # k =>
           timerOf'[j] = timerOf[j] /\ wait'[j] = wait[j] /\ dueAt'[j] = dueAt[j]
  BY <1>1, <1>3, <1>5 DEF Types
<1>7. ~Within(k, inQueue) /\ ~Within(k, workQueue) /\ ~Within(k, delayedQueue)
  BY <1>1, <1>5 DEF Tasks, Placed
<1>8. /\ inQueue' \in Seq(Addresses) /\ NoRepeats(inQueue')
      /\ \A j : Within(j, inQueue') <=> Within(j, inQueue) \/ j = k
  <2>1. inQueue \in Seq(Addresses) /\ NoRepeats(inQueue)
    BY <1>1 DEF Types, Tasks, Once
  <2>2. /\ Append(inQueue, k) \in Seq(Addresses) /\ NoRepeats(Append(inQueue, k))
        /\ \A j : Within(j, Append(inQueue, k)) <=> Within(j, inQueue) \/ j = k
    BY <2>1, <1>5, <1>7, Appending
  <2>3. QED BY <2>2, <1>3
<1>9. Types'
  <2>1. allocated' \subseteq Addresses /\ owners' \subseteq allocated' /\ inTask' \in allocated' \cup {Nobody}
    BY <1>1, <1>3, <1>4, <1>5 DEF Types
  <2>2. QED BY <1>1, <1>4, <1>6, <1>8, <2>1 DEF Types
<1>10. Linked'
  <2>1. ASSUME NEW u \in Timers PROVE TimerLinked(u)'
    <3>1. TimerLinked(u) /\ delayedTask'[u] = delayedTask[u] /\ existing' = existing
      BY <1>1, <1>4 DEF Linked
    <3>2. delayedTask[u] # Nobody => delayedTask[u] \in allocated /\ delayedTask[u] # k /\ delayedTask[u] \in Addresses
      BY <1>1, <1>5, <3>1 DEF TimerLinked, Types
    <3>3. QED BY <3>1, <3>2, <1>3, <1>6 DEF TimerLinked
  <2>2. ASSUME NEW j \in Addresses PROVE TaskLinked(j)'
    BY <1>1, <1>3, <1>4, <1>6 DEF Linked, TaskLinked
  <2>3. QED BY <2>1, <2>2 DEF Linked
<1>11. Tasks'
  <2>1. ASSUME NEW j \in Addresses PROVE Described(j)' /\ Placed(j)'
    <3>1. Described(j) /\ Placed(j) /\ UNCHANGED <<tickTime, inTask, workQueue, delayedQueue>>
      BY <1>1, <1>4 DEF Tasks
    <3>2. CASE j = k
      <4>1. Described(j)'
        BY <3>1, <3>2, <1>1, <1>6 DEF Described
      <4>2. Placed(j)'
        BY <3>1, <3>2, <1>3, <1>5, <1>7, <1>8 DEF Placed
      <4>3. QED BY <4>1, <4>2
    <3>3. CASE j # k
      <4>1. Described(j)'
        BY <3>1, <3>3, <1>3, <1>6 DEF Described
      <4>2. Placed(j)'
        BY <3>1, <3>3, <1>3, <1>6, <1>8 DEF Placed
      <4>3. QED BY <4>1, <4>2
    <3>4. QED BY <3>2, <3>3
  <2>2. QED BY <2>1, <1>1, <1>4, <1>8 DEF Tasks, Once
<1>12. Ending'
  BY <1>4 DEF Ending
<1>13. QED BY <1>9, <1>10, <1>11, <1>12 DEF IInv

-----------------------------------------------------------------------------
(* A task runs that was the head of a queue.                                 *)
LEMMA RunKeeps ==
  ASSUME IInv, NEW x \in Addresses, Looping, TakenOut(x),
         Within(x, workQueue) \/ Within(x, delayedQueue), RunTimerTask(x)
  PROVE  IInv'
<1>1. /\ Types /\ Linked /\ Tasks /\ Nobody \notin Addresses /\ Nobody \notin Timers
      /\ tickTime \in Nat /\ life = "runs" /\ inTask = Nobody
  BY TimerAssumption DEF IInv, Types, Looping
<1>2. UNCHANGED <<life, endT, existing, tickTime>>
  BY DEF RunTimerTask
<1>3. x \in allocated /\ ~Within(x, inQueue)
  BY <1>1 DEF Tasks, Placed
<1>4. workQueue' \in Seq(Addresses) /\ delayedQueue' \in Seq(Addresses)
  BY DEF TakenOut
<1>5. Ending'
  BY <1>1, <1>2 DEF Ending
<1>6. timerOf[x] # Nobody => timerOf[x] \in existing /\ delayedTask[timerOf[x]] = x
  BY <1>1 DEF Linked, TaskLinked
<1>7. ASSUME NEW t \in existing, NEW ms \in Nat, delayedTask[t] = x, InitiateDelayedTask(t, ms),
             inTask' = x, callee' \in Timers \cup {Nobody}, trigger' = trigger
      PROVE  IInv'
  <2>1. PICK k \in Addresses : Initiated(t, ms, k)
    BY <1>1, <1>7, Initiating DEF Types
  <2>2. Types'
    <3>1. /\ inQueue' \in Seq(Addresses) /\ inTask' \in allocated' \cup {Nobody}
          /\ allocated' \subseteq Addresses /\ owners' \subseteq allocated'
      BY <1>1, <1>3, <1>7, <2>1 DEF Types, Initiated
    <3>2. QED BY <1>1, <1>2, <1>4, <1>7, <2>1, <3>1 DEF Types, Initiated
  <2>3. Linked'
    BY <1>2, <2>1, InitiatedLinked
  <2>4. Tasks'
    <3>1. Runs(x) /\ (inTask' = Nobody => callee' = Nobody)
      BY <1>1, <1>7 DEF Runs
    <3>2. QED BY <1>2, <1>7, <2>1, <3>1, InitiatedTasks
  <2>5. QED BY <1>5, <2>2, <2>3, <2>4 DEF IInv
<1>8. ASSUME ClearBaseTimer(x), inTask' = x, callee' \in Timers \cup {Nobody},
             UNCHANGED <<inQueue, allocated, wait, dueAt, owners, trigger>>
      PROVE  IInv'
  <2>1. Cleared(x) /\ Runs(x)
    BY <1>1, <1>8, Clearing DEF Runs
  <2>2. Types'
    BY <1>1, <1>2, <1>3, <1>4, <1>8, <2>1 DEF Types, Cleared
  <2>3. Linked'
    BY <1>2, <1>8, <2>1, ClearedLinked
  <2>4. Tasks'
    BY <1>2, <1>8, <2>1, ClearedTasks
  <2>5. QED BY <1>5, <2>2, <2>3, <2>4 DEF IInv
<1>9. CASE RunOrphan(x)
  <2>1. /\ Deleted(x) /\ UNCHANGED <<inQueue, inTask, callee, trigger>>
        /\ inTask' = Nobody /\ callee' = Nobody
    BY <1>1, <1>9, DeletingTask DEF RunOrphan, Tasks
  <2>2. Types'
    <3>1. allocated' \subseteq Addresses /\ owners' \subseteq allocated'
      BY <1>1, <2>1 DEF Types, Deleted
    <3>2. QED BY <1>1, <1>2, <1>4, <2>1, <3>1 DEF Types, Deleted, Cleared
  <2>3. Linked'
    BY <1>2, <2>1, ClearedLinked DEF Deleted
  <2>4. Tasks'
    BY <1>1, <1>2, <1>3, <2>1, DeletedTasks
  <2>5. QED BY <1>5, <2>2, <2>3, <2>4 DEF IInv
<1>10. CASE RunRepeating(x)
  <2>1. timerOf[x] \in existing /\ delayedTask[timerOf[x]] = x /\ wait[x] \in Nat
    BY <1>1, <1>6, <1>10, TimerAssumption DEF RunRepeating, Types
  <2>2. inTask' = x /\ callee' \in Timers \cup {Nobody} /\ trigger' = trigger
    BY <1>1, <1>10 DEF RunRepeating, CallMethod, Types
  <2>3. QED BY <1>7, <1>10, <2>1, <2>2 DEF RunRepeating
<1>11. CASE RunOneShot(x)
  <2>1. inTask' = x /\ callee' \in Timers \cup {Nobody}
    BY <1>1, <1>11 DEF RunOneShot, CallMethod, Types
  <2>2. QED BY <1>8, <1>11, <2>1 DEF RunOneShot
<1>12. CASE RunDelaying(x)
  <2> DEFINE t == timerOf[x]
  <2>1. t \in existing /\ delayedTask[t] = x /\ t \in Delaying
    BY <1>1, <1>6, <1>12, TimerAssumption DEF RunDelaying
  <2>2. CASE IsEarly(t) /\ InitiateDelayedTask(t, trigger[t] - tickTime)
             /\ inTask' = x /\ UNCHANGED <<callee, trigger>>
    <3>1. trigger[t] - tickTime \in Nat
      <4>1. trigger[t] \in Nat /\ tickTime < trigger[t]
        BY <1>1, <2>1, <2>2 DEF Types, IsEarly
      <4>2. QED BY <4>1, <1>1
    <3>2. callee' \in Timers \cup {Nobody}
      BY <1>1, <2>2 DEF Types
    <3>3. QED BY <1>7, <2>1, <2>2, <3>1, <3>2
  <2>3. CASE ClearBaseTimer(x) /\ CallMethod(x)
             /\ UNCHANGED <<inQueue, allocated, wait, dueAt, owners, trigger>>
    <3>1. inTask' = x /\ callee' \in Timers \cup {Nobody}
      BY <1>1, <2>3 DEF CallMethod, Types
    <3>2. QED BY <1>8, <2>3, <3>1
  <2>4. QED BY <1>12, <2>2, <2>3 DEF RunDelaying
<1>13. QED BY <1>9, <1>10, <1>11, <1>12 DEF RunTimerTask

(* The head of a queue is in no other one.                                   *)
LEMMA WorkTaken ==
  ASSUME IInv, workQueue # << >>, workQueue' = Tail(workQueue), delayedQueue' = delayedQueue
  PROVE  /\ Head(workQueue) \in Addresses /\ Within(Head(workQueue), workQueue)
         /\ TakenOut(Head(workQueue))
<1>1. /\ workQueue \in Seq(Addresses) /\ delayedQueue \in Seq(Addresses)
      /\ NoRepeats(workQueue) /\ NoRepeats(delayedQueue)
      /\ \A j \in Addresses : Within(j, workQueue) => ~Within(j, delayedQueue)
  BY DEF IInv, Types, Tasks, Once, Placed
<1>2. /\ Head(workQueue) \in Addresses /\ Within(Head(workQueue), workQueue)
      /\ Tail(workQueue) \in Seq(Addresses) /\ NoRepeats(Tail(workQueue))
      /\ ~Within(Head(workQueue), Tail(workQueue))
      /\ \A j : Within(j, workQueue) <=> Within(j, Tail(workQueue)) \/ j = Head(workQueue)
  BY <1>1, TakingHead
<1>3. QED BY <1>1, <1>2 DEF TakenOut

LEMMA DelayedTaken ==
  ASSUME IInv, delayedQueue # << >>, delayedQueue' = Tail(delayedQueue), workQueue' = workQueue
  PROVE  /\ Head(delayedQueue) \in Addresses /\ Within(Head(delayedQueue), delayedQueue)
         /\ TakenOut(Head(delayedQueue))
<1>1. /\ workQueue \in Seq(Addresses) /\ delayedQueue \in Seq(Addresses)
      /\ NoRepeats(workQueue) /\ NoRepeats(delayedQueue)
      /\ \A j \in Addresses : Within(j, workQueue) => ~Within(j, delayedQueue)
  BY DEF IInv, Types, Tasks, Once, Placed
<1>2. /\ Head(delayedQueue) \in Addresses /\ Within(Head(delayedQueue), delayedQueue)
      /\ Tail(delayedQueue) \in Seq(Addresses) /\ NoRepeats(Tail(delayedQueue))
      /\ ~Within(Head(delayedQueue), Tail(delayedQueue))
      /\ \A j : Within(j, delayedQueue) <=> Within(j, Tail(delayedQueue)) \/ j = Head(delayedQueue)
  BY <1>1, TakingHead
<1>3. QED BY <1>1, <1>2 DEF TakenOut

LEMMA RunWorkKeeps ==
  ASSUME IInv, RunWork
  PROVE  IInv'
  BY WorkTaken, RunKeeps DEF RunWork

LEMMA RunDelayedKeeps ==
  ASSUME IInv, RunDelayed
  PROVE  IInv'
  BY DelayedTaken, RunKeeps DEF RunDelayed

LEMMA UserReturnsKeeps ==
  ASSUME IInv, UserReturns
  PROVE  IInv'
<1>1. /\ Types /\ Tasks /\ Ending /\ inTask \in Addresses /\ inTask # Nobody
      /\ UNCHANGED <<life, endT, queuesT, userT, tickTime>> /\ inTask' = Nobody /\ callee' = Nobody
  BY DEF IInv, Types, UserReturns
<1>2. Deleted(inTask)
  BY <1>1, DeletingTask DEF UserReturns
<1>3. Types'
  <2>1. allocated' \subseteq Addresses /\ owners' \subseteq allocated'
    BY <1>1, <1>2 DEF Types, Deleted
  <2>2. QED BY <1>1, <1>2, <2>1 DEF Types, Deleted, Cleared
<1>4. Linked'
  BY <1>1, <1>2, ClearedLinked DEF Deleted
<1>5. Tasks'
  <2>1. ~Within(inTask, inQueue) /\ ~Within(inTask, workQueue) /\ ~Within(inTask, delayedQueue)
    BY <1>1 DEF Tasks, Placed
  <2>2. TakenOut(inTask)
    BY <1>1, <2>1 DEF TakenOut, Types, Tasks, Once
  <2>3. QED BY <1>1, <1>2, <2>1, <2>2, DeletedTasks
<1>6. Ending'
  <2>1. owners' \subseteq owners
    BY <1>2 DEF Deleted
  <2>2. QED BY <1>1, <2>1 DEF Ending
<1>7. QED BY <1>3, <1>4, <1>5, <1>6 DEF IInv

-----------------------------------------------------------------------------
(* Steps that touch nothing but the queues and the loop's own state.         *)
LEMMA QueuesMove ==
  ASSUME IInv,
         UNCHANGED <<tasksT, inTask, callee, userT, delayedTask, tickTime>>,
         life' \in {"runs", "dies", "gone"}, round' \in 0..Rounds,
         again' \in BOOLEAN, didDelete' \in BOOLEAN,
         inQueue' \in Seq(Addresses), workQueue' \in Seq(Addresses), delayedQueue' \in Seq(Addresses),
         Once', \A j \in Addresses : Placed(j)', Ending'
  PROVE  IInv'
<1>1. Types /\ Linked /\ Tasks
  BY DEF IInv
<1>2. Types'
  BY <1>1 DEF Types
<1>3. Linked'
  BY <1>1 DEF Linked, TimerLinked, TaskLinked
<1>4. Tasks'
  BY <1>1 DEF Tasks, Described
<1>5. QED BY <1>2, <1>3, <1>4 DEF IInv

(* ReloadWorkQueue, by the loop and by its destructor.                       *)
LEMMA Reloading ==
  ASSUME IInv, workQueue = << >>, workQueue' = inQueue, inQueue' = << >>,
         UNCHANGED <<delayedQueue, tasksT, inTask>>
  PROVE  /\ inQueue' \in Seq(Addresses) /\ workQueue' \in Seq(Addresses)
         /\ delayedQueue' \in Seq(Addresses)
         /\ Once' /\ \A j \in Addresses : Placed(j)' /\ ~Within(j, inQueue')
<1>1. Types /\ Tasks
  BY DEF IInv
<1>2. Once'
  BY <1>1, WithinEmpty DEF Tasks, Once
<1>3. ASSUME NEW j \in Addresses PROVE Placed(j)' /\ ~Within(j, inQueue')
  <2>1. /\ Placed(j) /\ (Within(j, workQueue') <=> Within(j, inQueue))
        /\ ~Within(j, workQueue) /\ ~Within(j, inQueue')
        /\ (Within(j, delayedQueue') <=> Within(j, delayedQueue))
    BY <1>1, WithinEmpty DEF Tasks
  <2>2. QED BY <2>1 DEF Placed
<1>4. << >> \in Seq(Addresses)
  OBVIOUS
<1>5. QED BY <1>1, <1>2, <1>3, <1>4 DEF Types

LEMMA TakeWorkKeeps ==
  ASSUME IInv, TakeWork
  PROVE  IInv'
<1>1. Types
  BY DEF IInv
<1>2. Ending'
  BY DEF TakeWork, Looping, Ending
<1>3. QED BY <1>1, <1>2, Reloading, QueuesMove DEF TakeWork, Types

(* A delayed task goes from the head of work_queue_ to delayed_work_queue_.  *)
LEMMA DelayingHead ==
  ASSUME IInv, workQueue # << >>, workQueue' = Tail(workQueue),
         delayedQueue' = AddToDelayed(Head(workQueue)), UNCHANGED <<inQueue, tasksT, inTask>>
  PROVE  /\ inQueue' \in Seq(Addresses) /\ workQueue' \in Seq(Addresses)
         /\ delayedQueue' \in Seq(Addresses)
         /\ Once' /\ \A j \in Addresses : Placed(j)'
<1> DEFINE x == Head(workQueue)
<1>1. Types /\ Tasks
  BY DEF IInv
<1>2. /\ x \in Addresses /\ Within(x, workQueue)
      /\ workQueue' \in Seq(Addresses) /\ NoRepeats(workQueue') /\ ~Within(x, workQueue')
      /\ \A j : Within(j, workQueue) <=> Within(j, workQueue') \/ j = x
  BY <1>1, TakingHead DEF Types, Tasks, Once
<1> HIDE DEF x
<1>3. Placed(x)
  BY <1>1, <1>2 DEF Tasks
<1>4. /\ delayedQueue' \in Seq(Addresses) /\ NoRepeats(delayedQueue')
      /\ \A j : Within(j, delayedQueue') <=> Within(j, delayedQueue) \/ j = x
  <2>1. delayedQueue' = AddToDelayed(x)
    BY DEF x
  <2>2. ~Within(x, delayedQueue) /\ NoRepeats(delayedQueue)
    BY <1>1, <1>2, <1>3 DEF Placed, Tasks, Once
  <2>3. QED BY <1>1, <1>2, <2>1, <2>2, AddingToDelayed
<1>5. Once' /\ inQueue' \in Seq(Addresses)
  BY <1>1, <1>2, <1>4 DEF Types, Tasks, Once
<1>6. ASSUME NEW j \in Addresses PROVE Placed(j)'
  <2>1. /\ Placed(j)
        /\ Within(j, workQueue) <=> Within(j, workQueue') \/ j = x
        /\ Within(j, delayedQueue') <=> Within(j, delayedQueue) \/ j = x
        /\ Within(j, inQueue') <=> Within(j, inQueue)
    BY <1>1, <1>2, <1>4 DEF Tasks
  <2>2. QED BY <2>1, <1>2 DEF Placed
<1>7. QED BY <1>2, <1>4, <1>5, <1>6

LEMMA DelayWorkKeeps ==
  ASSUME IInv, DelayWork
  PROVE  IInv'
<1>1. Types
  BY DEF IInv
<1>2. Ending'
  BY DEF DelayWork, Looping, Ending
<1>3. QED BY <1>1, <1>2, DelayingHead, QueuesMove DEF DelayWork, Types

(* The destructor drops a task that was not delayed.                         *)
LEMMA DeleteWorkKeeps ==
  ASSUME IInv, DeleteWork
  PROVE  IInv'
<1>1. /\ Types /\ Tasks /\ Ending /\ workQueue # << >> /\ life = "dies" /\ inTask = Nobody
      /\ UNCHANGED <<life, round, again, inQueue, tasksT, inTask, callee, userT, delayedTask, tickTime>>
      /\ didDelete' = TRUE
  BY DEF IInv, DeleteWork, Deleting
<1>2. Ending'
  BY <1>1 DEF Ending
<1>3. CASE wait[Head(workQueue)] > 0
  <2>1. /\ workQueue' = Tail(workQueue) /\ delayedQueue' = AddToDelayed(Head(workQueue))
    BY <1>3 DEF DeleteWork
  <2>2. QED BY <1>1, <1>2, <2>1, DelayingHead, QueuesMove DEF Types
<1>4. CASE ~(wait[Head(workQueue)] > 0)
  <2> DEFINE x == Head(workQueue)
  <2>1. workQueue' = Tail(workQueue) /\ delayedQueue' = delayedQueue
    BY <1>4 DEF DeleteWork
  <2>2. x \in Addresses /\ Within(x, workQueue) /\ TakenOut(x)
    BY <1>1, <2>1, WorkTaken
  <2>3. wait[x] = 0
    BY <1>1, <1>4, <2>2 DEF Types
  <2> HIDE DEF x
  <2>4. ASSUME NEW j \in Addresses PROVE Placed(j)'
    <3>1. /\ Placed(j)
          /\ Within(j, workQueue') <=> Within(j, workQueue) /\ j # x
          /\ Within(j, delayedQueue') <=> Within(j, delayedQueue) /\ j # x
          /\ Within(j, inQueue') <=> Within(j, inQueue)
      BY <1>1, <2>2 DEF Tasks, TakenOut
    <3>2. Placed(x)
      BY <1>1, <2>2 DEF Tasks
    <3>3. QED BY <3>1, <3>2, <1>1, <2>2, <2>3 DEF Placed
  <2>5. Once'
    BY <1>1, <2>2 DEF Tasks, Once, TakenOut
  <2>6. QED BY <1>1, <1>2, <2>1, <2>2, <2>4, <2>5, QueuesMove DEF Types, TakenOut
<1>5. QED BY <1>3, <1>4

LEMMA DeleteDelayedKeeps ==
  ASSUME IInv, DeleteDelayed
  PROVE  IInv'
<1> DEFINE x == Head(delayedQueue)
<1>1. /\ Types /\ Tasks /\ Ending /\ Nobody \notin Addresses /\ life = "dies" /\ inTask = Nobody
      /\ UNCHANGED <<life, round, again, inQueue, workQueue, callee, userT, tickTime>>
      /\ didDelete' = TRUE /\ delayedQueue # << >> /\ delayedQueue' = Tail(delayedQueue)
  BY TimerAssumption DEF IInv, DeleteDelayed, Deleting
<1>2. x \in Addresses /\ Within(x, delayedQueue) /\ TakenOut(x)
  BY <1>1, DelayedTaken
<1>3. delayedQueue' \in Seq(Addresses) /\ x \in allocated /\ ~Within(x, inQueue) /\ callee' = Nobody
  BY <1>1, <1>2 DEF TakenOut, Tasks, Placed
<1>4. CASE x \in owners /\ inTask' = x /\ UNCHANGED <<tasksT, delayedTask>>
  <2> HIDE DEF x
  <2>1. Types'
    BY <1>1, <1>3, <1>4 DEF Types
  <2>2. Linked'
    BY <1>1, <1>4 DEF IInv, Linked, TimerLinked, TaskLinked
  <2>3. Tasks'
    <3>1. ASSUME NEW j \in Addresses PROVE Described(j)' /\ Placed(j)'
      <4>1. /\ Described(j) /\ Placed(j) /\ Placed(x) /\ Described(x)
            /\ Within(j, workQueue') <=> Within(j, workQueue) /\ j # x
            /\ Within(j, delayedQueue') <=> Within(j, delayedQueue) /\ j # x
            /\ Within(j, inQueue') <=> Within(j, inQueue)
        BY <1>1, <1>2 DEF Tasks, TakenOut
      <4>2. Described(j)'
        BY <4>1, <1>1, <1>4 DEF Described
      <4>3. Placed(j)'
        BY <4>1, <1>1, <1>2, <1>4 DEF Placed
      <4>4. QED BY <4>2, <4>3
    <3>2. Once'
      BY <1>1, <1>2 DEF Tasks, Once, TakenOut
    <3>3. QED BY <3>1, <3>2, <1>3 DEF Tasks
  <2>4. Ending'
    BY <1>1, <1>4 DEF Ending
  <2>5. QED BY <2>1, <2>2, <2>3, <2>4 DEF IInv
<1>5. CASE x \notin owners /\ DeleteTask(x) /\ UNCHANGED inTask
  <2>1. Deleted(x)
    BY <1>2, <1>5, DeletingTask
  <2> HIDE DEF x
  <2>2. Types'
    <3>1. allocated' \subseteq Addresses /\ owners' \subseteq allocated'
      BY <1>1, <2>1 DEF Types, Deleted
    <3>2. QED BY <1>1, <1>3, <1>5, <2>1, <3>1 DEF Types, Deleted, Cleared
  <2>3. Linked'
    BY <1>1, <1>2, <2>1, ClearedLinked DEF Deleted
  <2>4. Tasks'
    BY <1>1, <1>2, <1>3, <1>5, <2>1, DeletedTasks
  <2>5. Ending'
    <3>1. owners' \subseteq owners
      BY <2>1 DEF Deleted
    <3>2. QED BY <1>1, <1>5, <3>1 DEF Ending
  <2>6. QED BY <2>2, <2>3, <2>4, <2>5 DEF IInv
<1>6. QED BY <1>4, <1>5 DEF DeleteDelayed

LEMMA WillDestroyKeeps ==
  ASSUME IInv, WillDestroy
  PROVE  IInv'
<1>1. /\ Types /\ Tasks /\ UNCHANGED queuesT /\ UNCHANGED <<tasksT, inTask>>
      /\ life' = "dies" /\ round' = 1 /\ again' = FALSE /\ didDelete' = FALSE
      /\ inTask = Nobody /\ 1 \in 0..Rounds
  BY TimerAssumption DEF IInv, WillDestroy, Looping
<1>2. Ending'
  BY <1>1 DEF Ending
<1>3. Once' /\ \A j \in Addresses : Placed(j)'
  BY <1>1 DEF Tasks, Once, Placed
<1>4. QED BY <1>1, <1>2, <1>3, QueuesMove DEF WillDestroy, Types

LEMMA ReloadForSecondHalfKeeps ==
  ASSUME IInv, ReloadForSecondHalf
  PROVE  IInv'
<1>1. /\ Types /\ Ending /\ life = "dies" /\ inTask = Nobody /\ workQueue = << >>
      /\ UNCHANGED <<life, round, delayedQueue, tasksT, inTask, callee, userT, delayedTask, tickTime>>
      /\ workQueue' = inQueue /\ inQueue' = << >> /\ again' = TRUE /\ didDelete' = FALSE
      /\ owners \subseteq Addresses
  BY DEF IInv, Types, ReloadForSecondHalf, Emptied, Deleting
<1>2. Ending'
  BY <1>1, WithinEmpty DEF Ending
<1>3. QED BY <1>1, <1>2, Reloading, QueuesMove DEF Types

(* The second round starts without tasks that own anything, and the last one *)
(* leaves nothing in the queues.                                             *)
LEMMA RoundEndsKeeps ==
  ASSUME IInv, RoundEnds
  PROVE  IInv'
<1>1. /\ Types /\ Tasks /\ Ending /\ life = "dies" /\ inTask = Nobody /\ again
      /\ workQueue = << >> /\ delayedQueue = << >> /\ Nobody \notin Addresses
      /\ UNCHANGED queuesT /\ UNCHANGED <<tasksT, inTask, callee, userT, delayedTask, tickTime>>
      /\ again' = FALSE /\ didDelete' = FALSE /\ round \in 0..Rounds
  BY TimerAssumption DEF IInv, Types, RoundEnds, Emptied, Deleting
<1>2. ASSUME NEW k \in owners PROVE FALSE
  <2>1. k \in Addresses /\ k \in allocated /\ k # inTask
    BY <1>1, <1>2 DEF Types
  <2>2. wait[k] = 1 /\ ~Within(k, inQueue) /\ ~Within(k, workQueue) /\ ~Within(k, delayedQueue)
    BY <1>1, <2>1, WithinEmpty DEF Tasks, Described, Ending
  <2>3. QED BY <1>1, <2>1, <2>2 DEF Tasks, Placed
<1>3. Once' /\ \A j \in Addresses : Placed(j)'
  BY <1>1 DEF Tasks, Once, Placed
<1>4. CASE didDelete /\ round < Rounds /\ round' = round + 1 /\ UNCHANGED life
  <2>1. round' \in 0..Rounds
    BY <1>1, <1>4, TimerAssumption
  <2>2. Ending'
    BY <1>1, <1>2, <1>4 DEF Ending
  <2>3. QED BY <1>1, <1>3, <1>4, <2>1, <2>2, QueuesMove DEF Types
<1>5. CASE (~didDelete \/ round = Rounds) /\ life' = "gone" /\ round' = 0
  <2>1. round' \in 0..Rounds /\ (round = Rounds => round # 1)
    BY <1>5, TimerAssumption
  <2>2. inQueue = << >>
    BY <1>1, <1>5, <2>1 DEF Ending
  <2>3. Ending'
    BY <1>1, <1>5, <2>2 DEF Ending
  <2>4. QED BY <1>1, <1>3, <1>5, <2>1, <2>3, QueuesMove DEF Types
<1>6. QED BY <1>4, <1>5 DEF RoundEnds

LEMMA PassTimeKeeps ==
  ASSUME IInv, PassTime
  PROVE  IInv'
<1>1. /\ Types /\ Linked /\ Tasks /\ Ending /\ tickTime \in Nat /\ tickTime' = tickTime + 1
      /\ tickTime' \in 0..MaxTime
      /\ UNCHANGED <<life, endT, queuesT, tasksT, inTask, callee, userT, delayedTask>>
  BY TimerAssumption DEF IInv, Types, PassTime
<1>2. Types'
  BY <1>1 DEF Types
<1>3. Linked'
  BY <1>1 DEF Linked, TimerLinked, TaskLinked
<1>4. Tasks'
  <2>1. ASSUME NEW j \in Addresses PROVE Described(j)' /\ Placed(j)'
    <3>1. Described(j) /\ Placed(j) /\ dueAt[j] \in Nat /\ wait[j] \in Nat
      BY <1>1 DEF Tasks, Types
    <3>2. Described(j)'
      BY <1>1, <3>1 DEF Described
    <3>3. Placed(j)'
      BY <1>1, <3>1 DEF Placed
    <3>4. QED BY <3>2, <3>3
  <2>2. QED BY <2>1, <1>1 DEF Tasks, Once
<1>5. Ending'
  BY <1>1 DEF Ending
<1>6. QED BY <1>2, <1>3, <1>4, <1>5 DEF IInv

-----------------------------------------------------------------------------
LEMMA StepIInv == IInv /\ [TimerNext]_timerVars => IInv'
<1> SUFFICES ASSUME IInv, [TimerNext]_timerVars PROVE IInv'
  OBVIOUS
<1>1. CASE UNCHANGED timerVars
  <2>1. UNCHANGED <<life, endT, queuesT, tasksT, inTask, callee, userT, delayedTask, tickTime>>
    BY <1>1 DEF timerVars
  <2>2. Types' /\ Linked' /\ Tasks' /\ Ending'
    BY <2>1 DEF IInv, Types, Linked, TimerLinked, TaskLinked, Tasks, Once, Described, Placed, Ending
  <2>3. QED BY <2>2 DEF IInv
<1>2. CASE User
  BY <1>2, PostOwnerKeeps, StartKeeps, ResetKeeps, StopKeeps, ResetDelayTimerKeeps,
     DestroyTimerKeeps DEF User
<1>3. CASE LoopWorks
  BY <1>3, TakeWorkKeeps, DelayWorkKeeps, RunWorkKeeps, RunDelayedKeeps DEF LoopWorks
<1>4. CASE UserReturns \/ WillDestroy \/ PassTime
  BY <1>4, UserReturnsKeeps, WillDestroyKeeps, PassTimeKeeps
<1>5. CASE LoopEnds
  BY <1>5, DeleteWorkKeeps, DeleteDelayedKeeps, ReloadForSecondHalfKeeps, RoundEndsKeeps DEF LoopEnds
<1>6. QED BY <1>1, <1>2, <1>3, <1>4, <1>5 DEF TimerNext

-----------------------------------------------------------------------------
(* What the invariant implies.                                               *)
LEMMA IInvSound == IInv => TimersSound
<1> SUFFICES ASSUME IInv PROVE TimersSound
  OBVIOUS
<1>1. Types /\ Linked /\ Tasks /\ Ending /\ Nobody \notin Addresses
  BY TimerAssumption DEF IInv
<1>2. /\ Queued \in Seq(Addresses) /\ NoRepeats(Queued)
      /\ \A x : Within(x, Queued) <=>
           Within(x, inQueue) \/ Within(x, workQueue) \/ Within(x, delayedQueue)
  <2>1. /\ inQueue \in Seq(Addresses) /\ workQueue \in Seq(Addresses)
        /\ delayedQueue \in Seq(Addresses)
        /\ NoRepeats(inQueue) /\ NoRepeats(workQueue) /\ NoRepeats(delayedQueue)
    BY <1>1 DEF Types, Tasks, Once
  <2>2. \A x \in Addresses : /\ Within(x, inQueue) => ~Within(x, workQueue) /\ ~Within(x, delayedQueue)
                             /\ Within(x, workQueue) => ~Within(x, delayedQueue)
    BY <1>1 DEF Tasks, Placed
  <2>3. /\ inQueue \o workQueue \in Seq(Addresses) /\ NoRepeats(inQueue \o workQueue)
        /\ \A x : Within(x, inQueue \o workQueue) <=> Within(x, inQueue) \/ Within(x, workQueue)
    BY <2>1, <2>2, Joining
  <2> DEFINE most == inQueue \o workQueue
  <2> HIDE DEF most
  <2>4. /\ most \in Seq(Addresses) /\ NoRepeats(most)
        /\ \A x : Within(x, most) <=> Within(x, inQueue) \/ Within(x, workQueue)
    BY <2>3 DEF most
  <2>5. /\ most \o delayedQueue \in Seq(Addresses) /\ NoRepeats(most \o delayedQueue)
        /\ \A x : Within(x, most \o delayedQueue) <=> Within(x, most) \/ Within(x, delayedQueue)
    BY <2>1, <2>2, <2>4, Joining
  <2>6. Queued = most \o delayedQueue
    BY DEF Queued, most
  <2>7. QED BY <2>4, <2>5, <2>6
<1>3. ToSet(Queued) \subseteq allocated \ {inTask}
  <2>1. SUFFICES ASSUME NEW n \in DOMAIN Queued PROVE Queued[n] \in allocated \ {inTask}
    BY DEF ToSet
  <2>2. Within(Queued[n], Queued) /\ Queued[n] \in Addresses
    BY <1>2, Domain DEF Within
  <2>3. QED BY <1>1, <1>2, <2>2 DEF Tasks, Placed
<1>4. IsInjective(Queued)
  BY <1>2 DEF NoRepeats, IsInjective
<1>5. TimerTypeOK
  BY <1>1, <1>3, <1>4 DEF TimerTypeOK, Types
<1>6. TimersLinked
  <2>1. \A k \in allocated : k \in Addresses
    BY <1>1 DEF Types
  <2>2. QED BY <1>1, <1>5, <2>1 DEF TimersLinked, Linked, TimerLinked, TaskLinked, IsRunning
<1>7. LoopEndsClean
  <2>1. SUFFICES ASSUME life = "gone"
                 PROVE  /\ Queued = << >>
                        /\ \A t \in Timers : IsRunning(t) => wait[delayedTask[t]] = 0
    BY DEF LoopEndsClean
  <2>2. /\ inQueue = << >> /\ workQueue = << >> /\ delayedQueue = << >> /\ inTask = Nobody
    BY <1>1, <2>1 DEF Ending
  <2>3. Queued = << >>
    BY <2>2 DEF Queued
  <2>4. ASSUME NEW t \in Timers, IsRunning(t) PROVE wait[delayedTask[t]] = 0
    <3>1. delayedTask[t] \in allocated /\ delayedTask[t] \in Addresses /\ delayedTask[t] # Nobody
      BY <1>1, <2>4 DEF Linked, TimerLinked, IsRunning, Types
    <3>2. Placed(delayedTask[t])
      BY <1>1, <3>1 DEF Tasks
    <3>3. QED BY <3>1, <3>2, <2>2, WithinEmpty DEF Placed
  <2>5. QED BY <2>3, <2>4
<1>8. QED BY <1>6, <1>7 DEF TimersSound

LEMMA Invariant == TimerSpec => []IInv
<1>1. TimerInit => IInv
  BY InitIInv
<1>2. IInv /\ [TimerNext]_timerVars => IInv'
  BY StepIInv
<1>3. QED BY <1>1, <1>2, PTL DEF TimerSpec

(* A timer and its task point at each other or not at all, neither at         *)
(* something that was deleted; when the loop is gone its queues are empty and *)
(* only timers whose tasks were not delayed, which ~MessageLoop drops, still  *)
(* have one (timer.h:148-179, timer.cc, message_loop.cc:101-132).            *)
THEOREM TimersStaySound == TimerSpec => []TimersSound
<1>1. IInv => TimersSound
  BY IInvSound
<1>2. QED BY <1>1, Invariant, PTL

-----------------------------------------------------------------------------
(* The refinement: which step of Timeout each step of the code is.           *)
Due(at, every) == [at |-> at, every |-> every]

LEMMA DueType ==
  ASSUME NEW a \in Nat, NEW e \in Nat
  PROVE  /\ Due(a, e) \in Timeouts!Armed /\ Due(a, e) # Nobody
         /\ Due(a, e).at = a /\ Due(a, e).every = e
<1>1. Due(a, e) \in [at : Nat, every : Nat]
  BY DEF Due
<1>2. QED BY <1>1, TimerAssumption DEF Due, Timeouts!Armed

LEMMA DueAgain ==
  ASSUME NEW a, NEW e, NEW b
  PROVE  [Due(a, e) EXCEPT !.at = b] = Due(b, e)
  BY DEF Due

LEMMA ExpectedAt ==
  ASSUME NEW t \in Timers
  PROVE  /\ delayedTask[t] = Nobody => Expected[t] = Nobody
         /\ delayedTask[t] # Nobody /\ t \in Delaying =>
              Expected[t] = Due(trigger[t], DelayOf[t])
         /\ delayedTask[t] # Nobody /\ t \notin Delaying =>
              Expected[t] = Due(dueAt[delayedTask[t]], wait[delayedTask[t]])
  BY DEF Expected, IsRunning, Due

LEMMA ExpectedNext ==
  ASSUME NEW t \in Timers
  PROVE  /\ delayedTask'[t] = Nobody => Expected'[t] = Nobody
         /\ delayedTask'[t] # Nobody /\ t \in Delaying =>
              Expected'[t] = Due(trigger'[t], DelayOf[t])
         /\ delayedTask'[t] # Nobody /\ t \notin Delaying =>
              Expected'[t] = Due(dueAt'[delayedTask'[t]], wait'[delayedTask'[t]])
  BY DEF Expected, IsRunning, Due

LEMMA SameExpectations ==
  ASSUME \A u \in Timers : Expected'[u] = Expected[u]
  PROVE  Expected' = Expected
  BY DEF Expected

LEMMA OtherExpectations ==
  ASSUME NEW t \in Timers, \A u \in Timers : u # t => Expected'[u] = Expected[u], NEW e,
         Expected'[t] = e
  PROVE  Expected' = [Expected EXCEPT ![t] = e]
<1>1. /\ Expected = [u \in Timers |-> Expected[u]]
      /\ Expected' = [u \in Timers |-> Expected'[u]]
  BY DEF Expected
<1>2. QED BY <1>1

(* Who expects something points at a task that exists.                       *)
LEMMA Expecting ==
  ASSUME IInv, NEW t \in Timers
  PROVE  /\ delayedTask[t] # Nobody =>
              delayedTask[t] \in allocated /\ delayedTask[t] \in Addresses /\ t \in existing
         /\ Expected[t] # Nobody <=> delayedTask[t] # Nobody
<1>1. Types /\ TimerLinked(t)
  BY DEF IInv, Linked
<1>2. delayedTask[t] # Nobody => delayedTask[t] \in allocated /\ delayedTask[t] \in Addresses /\ t \in existing
  BY <1>1 DEF TimerLinked, Types
<1>3. \A a, b \in Nat : Due(a, b) # Nobody
  BY DueType
<1>4. /\ t \in Delaying => trigger[t] \in Nat /\ DelayOf[t] \in Nat
      /\ delayedTask[t] # Nobody => dueAt[delayedTask[t]] \in Nat /\ wait[delayedTask[t]] \in Nat
  BY <1>1, <1>2, TimerAssumption DEF Types
<1>5. CASE delayedTask[t] = Nobody
  BY <1>5, ExpectedAt
<1>6. CASE delayedTask[t] # Nobody /\ t \in Delaying
  BY <1>2, <1>3, <1>4, <1>6, ExpectedAt
<1>7. CASE delayedTask[t] # Nobody /\ t \notin Delaying
  BY <1>2, <1>3, <1>4, <1>7, ExpectedAt
<1>8. QED BY <1>5, <1>6, <1>7

LEMMA InitiatedArms ==
  ASSUME IInv, NEW t \in Timers, NEW ms \in Nat, NEW k \in Addresses, Initiated(t, ms, k),
         \A u \in Delaying : u # t => trigger'[u] = trigger[u]
  PROVE  /\ \A u \in Timers : u # t => Expected'[u] = Expected[u]
         /\ Expected'[t] = IF t \in Delaying THEN Due(trigger'[t], DelayOf[t])
                           ELSE Due(tickTime + ms, ms)
<1>1. ASSUME NEW u \in Timers, u # t PROVE Expected'[u] = Expected[u]
  <2>1. delayedTask'[u] = delayedTask[u] /\ k \notin allocated
    BY <1>1 DEF Initiated
  <2>2. delayedTask[u] # Nobody =>
          /\ dueAt'[delayedTask[u]] = dueAt[delayedTask[u]]
          /\ wait'[delayedTask[u]] = wait[delayedTask[u]]
    BY <2>1, Expecting DEF Initiated
  <2>3. QED BY <1>1, <2>1, <2>2, ExpectedAt, ExpectedNext
<1>2. delayedTask'[t] = k /\ k # Nobody /\ dueAt'[k] = tickTime + ms /\ wait'[k] = ms
  BY TimerAssumption DEF Initiated
<1>3. QED BY <1>1, <1>2, ExpectedNext

LEMMA ClearedDisarms ==
  ASSUME IInv, NEW k \in Addresses, Cleared(k), trigger' = trigger,
         \A j \in Addresses : j # k => wait'[j] = wait[j] /\ dueAt'[j] = dueAt[j]
  PROVE  \A u \in Timers :
           Expected'[u] = IF delayedTask[u] = k THEN Nobody ELSE Expected[u]
<1>1. TAKE u \in Timers
<1>2. delayedTask'[u] = IF delayedTask[u] = k THEN Nobody ELSE delayedTask[u]
  BY DEF Cleared
<1>3. CASE delayedTask[u] = k
  BY <1>2, <1>3, ExpectedNext
<1>4. CASE delayedTask[u] # k
  <2>1. delayedTask[u] # Nobody =>
          /\ dueAt'[delayedTask[u]] = dueAt[delayedTask[u]]
          /\ wait'[delayedTask[u]] = wait[delayedTask[u]]
    BY <1>4, Expecting
  <2>2. QED BY <1>2, <1>4, <2>1, ExpectedAt, ExpectedNext
<1>5. QED BY <1>3, <1>4

(* A deleted or orphaned task does not matter to who points elsewhere.       *)
LEMMA StillExpected ==
  ASSUME IInv, UNCHANGED <<delayedTask, trigger>>,
         \A j \in allocated : wait'[j] = wait[j] /\ dueAt'[j] = dueAt[j]
  PROVE  Expected' = Expected
<1>1. ASSUME NEW u \in Timers PROVE Expected'[u] = Expected[u]
  <2>1. delayedTask[u] # Nobody => delayedTask[u] \in allocated
    BY Expecting
  <2>2. QED BY <2>1, ExpectedAt, ExpectedNext
<1>2. QED BY <1>1, SameExpectations

Stutters == UNCHANGED <<Expected, callee, (life = "runs"), tickTime>>

Implements == Timeouts!Next \/ Stutters

LEMMA StartArms ==
  ASSUME IInv, NEW t \in Timers, Start(t) \/ Reset(t)
  PROVE  Timeouts!Arm(t)
<1>1. Types /\ t \notin Delaying /\ tickTime \in Nat
      /\ UNCHANGED unmovedByUser /\ UNCHANGED <<existing, trigger>>
  BY TimerAssumption DEF IInv, Types, Start, Reset
<1>2. PICK ms \in Nat : InitiateDelayedTask(t, ms)
  <2>1. CASE Start(t)
    BY <2>1, TimerAssumption DEF Start
  <2>2. CASE Reset(t)
    BY <1>1, <2>2 DEF Reset, IsRunning, Types
  <2>3. QED BY <2>1, <2>2
<1>3. PICK k \in Addresses : Initiated(t, ms, k)
  BY <1>2, Initiating
<1>4. /\ \A u \in Timers : u # t => Expected'[u] = Expected[u]
      /\ Expected'[t] = Due(tickTime + ms, ms)
  BY <1>1, <1>3, InitiatedArms
<1>5. Expected' = [Expected EXCEPT ![t] = Expected'[t]]
  BY <1>4, OtherExpectations
<1>6. /\ Expected'[t] \in Timeouts!Armed
      /\ Expected'[t].at = tickTime + Expected'[t].every
  <2>1. tickTime + ms \in Nat
    BY <1>1
  <2>2. /\ Due(tickTime + ms, ms) \in Timeouts!Armed
        /\ Due(tickTime + ms, ms).at = tickTime + ms /\ Due(tickTime + ms, ms).every = ms
    BY <2>1, DueType
  <2>3. QED BY <1>4, <2>2
<1>7. QED BY <1>1, <1>5, <1>6 DEF Timeouts!Arm, unmovedByUser

LEMMA ResetDelayTimerArms ==
  ASSUME IInv, NEW t \in Timers, ResetDelayTimer(t)
  PROVE  Timeouts!Arm(t)
<1>1. /\ Types /\ t \in Delaying /\ tickTime \in Nat /\ DelayOf[t] \in Nat
      /\ UNCHANGED unmovedByUser /\ trigger' = [trigger EXCEPT ![t] = tickTime + DelayOf[t]]
  <2>1. t \in Delaying /\ UNCHANGED unmovedByUser
        /\ trigger' = [trigger EXCEPT ![t] = tickTime + DelayOf[t]]
    BY DEF ResetDelayTimer, DelayFor
  <2>2. Types /\ tickTime \in Nat
    BY TimerAssumption DEF IInv, Types
  <2>3. DelayOf[t] \in Nat
    BY <2>1, TimerAssumption
  <2>4. QED BY <2>1, <2>2, <2>3
<1>2. /\ trigger'[t] = tickTime + DelayOf[t]
      /\ \A u \in Delaying : u # t => trigger'[u] = trigger[u]
  BY <1>1 DEF Types
<1>3. /\ \A u \in Timers : u # t => Expected'[u] = Expected[u]
      /\ Expected'[t] = Due(tickTime + DelayOf[t], DelayOf[t])
  <2>1. CASE IsRunning(t) /\ UNCHANGED <<tasksT, delayedTask, inQueue>>
    <3>1. UNCHANGED <<wait, dueAt, delayedTask>> /\ delayedTask[t] # Nobody
      BY <2>1 DEF IsRunning
    <3>2. QED BY <1>1, <1>2, <3>1, ExpectedAt, ExpectedNext
  <2>2. CASE InitiateDelayedTask(t, DelayOf[t])
    <3>1. PICK k \in Addresses : Initiated(t, DelayOf[t], k)
      BY <1>1, <2>2, Initiating
    <3>2. QED BY <1>1, <1>2, <3>1, InitiatedArms
  <2>3. QED BY <2>1, <2>2 DEF ResetDelayTimer, DelayFor
<1>4. Expected' = [Expected EXCEPT ![t] = Expected'[t]]
  BY <1>3, OtherExpectations
<1>5. /\ Expected'[t] \in Timeouts!Armed
      /\ Expected'[t].at = tickTime + Expected'[t].every
  <2> DEFINE d == DelayOf[t]
  <2>1. tickTime + d \in Nat /\ d \in Nat
    BY <1>1
  <2>2. /\ Due(tickTime + d, d) \in Timeouts!Armed
        /\ Due(tickTime + d, d).at = tickTime + d /\ Due(tickTime + d, d).every = d
    BY <2>1, DueType
  <2>3. QED BY <1>3, <2>2
<1>6. QED BY <1>1, <1>4, <1>5 DEF Timeouts!Arm, unmovedByUser

LEMMA StopDisarms ==
  ASSUME IInv, NEW t \in Timers, Stop(t) \/ DestroyTimer(t)
  PROVE  Timeouts!Disarm(t)
<1>1. /\ Types /\ UNCHANGED unmovedByUser /\ UNCHANGED <<wait, dueAt, trigger>>
      /\ delayedTask' = [delayedTask EXCEPT ![t] = Nobody]
  BY DEF IInv, Stop, DestroyTimer
<1>2. /\ Expected'[t] = Nobody
      /\ \A u \in Timers : u # t => Expected'[u] = Expected[u]
  BY <1>1, ExpectedAt, ExpectedNext DEF Types
<1>3. Expected' = [Expected EXCEPT ![t] = Nobody]
  BY <1>2, OtherExpectations
<1>4. QED BY <1>1, <1>3 DEF Timeouts!Disarm, unmovedByUser

LEMMA PostOwnerStutters ==
  ASSUME IInv, PostOwner
  PROVE  Stutters
<1>1. Types /\ UNCHANGED unmovedByUser /\ UNCHANGED <<delayedTask, trigger>>
  BY DEF IInv, PostOwner
<1>2. Available # {}
  <2>1. Cardinality(Available) # 0
    BY DEF PostOwner, Affordable
  <2>2. QED BY <2>1, FS_EmptySet
<1>3. PICK k \in Available :
        wait' = [wait EXCEPT ![k] = 1] /\ dueAt' = [dueAt EXCEPT ![k] = tickTime + 1]
  BY <1>2 DEF PostOwner, NewTask
<1>4. \A j \in allocated : wait'[j] = wait[j] /\ dueAt'[j] = dueAt[j]
  BY <1>1, <1>3 DEF Available, Types
<1>5. QED BY <1>1, <1>4, StillExpected DEF Stutters, unmovedByUser

(* A task that runs fires its timer, unless it has none or is early.         *)
LEMMA RunFires ==
  ASSUME IInv, NEW x \in Addresses, Looping, x \in allocated, dueAt[x] <= tickTime,
         RunTimerTask(x)
  PROVE  Implements
<1>1. /\ Types /\ Linked /\ Tasks /\ Nobody \notin Timers /\ tickTime \in Nat
      /\ life = "runs" /\ inTask = Nobody /\ callee = Nobody
      /\ UNCHANGED <<life, endT, existing, tickTime>>
  BY TimerAssumption DEF IInv, Types, Tasks, Looping, RunTimerTask
<1>2. ASSUME timerOf[x] # Nobody
      PROVE  timerOf[x] \in Timers /\ delayedTask[timerOf[x]] = x /\ x # Nobody
  BY <1>1, <1>2, TimerAssumption DEF Linked, TaskLinked, Types
<1>3. ASSUME NEW t \in Timers, delayedTask[t] = x
      PROVE  timerOf[x] = t
  BY <1>1, <1>3, TimerAssumption DEF Linked, TimerLinked
<1>4. CASE RunOrphan(x)
  <2>1. Deleted(x) /\ UNCHANGED <<callee, trigger>> /\ timerOf[x] = Nobody
    BY <1>4, DeletingTask DEF RunOrphan
  <2>2. \A u \in Timers : Expected'[u] = IF delayedTask[u] = x THEN Nobody ELSE Expected[u]
    BY <2>1, ClearedDisarms DEF Deleted
  <2>3. \A u \in Timers : delayedTask[u] # x
    BY <1>1, <1>3, <2>1
  <2>4. Expected' = Expected
    BY <2>2, <2>3, SameExpectations
  <2>5. QED BY <1>1, <2>1, <2>4 DEF Implements, Stutters
<1>5. CASE RunRepeating(x)
  <2> DEFINE t == timerOf[x]
  <2>1. /\ t \in Timers /\ t \in Repeating /\ t \notin Delaying /\ t # Nobody
        /\ delayedTask[t] = x /\ x # Nobody /\ wait[x] \in Nat
    BY <1>1, <1>2, <1>5, TimerAssumption DEF RunRepeating, Types
  <2>2. PICK k \in Addresses : Initiated(t, wait[x], k)
    BY <1>5, <2>1, Initiating DEF RunRepeating
  <2>3. trigger' = trigger /\ callee' = t
    BY <1>5 DEF RunRepeating, CallMethod
  <2> HIDE DEF t
  <2>4. /\ \A u \in Timers : u # t => Expected'[u] = Expected[u]
        /\ Expected'[t] = Due(tickTime + wait[x], wait[x])
    BY <2>1, <2>2, <2>3, InitiatedArms
  <2>5. Expected[t] = Due(dueAt[x], wait[x])
    BY <2>1, ExpectedAt
  <2>6. Expected'[t] = [Expected[t] EXCEPT !.at = tickTime + Expected[t].every]
    <3>1. dueAt[x] \in Nat
      BY <1>1 DEF Types
    <3>2. Expected[t].every = wait[x]
      BY <2>1, <2>5, <3>1, DueType
    <3>3. QED BY <2>4, <2>5, <3>2, DueAgain
  <2>7. Expected' = [Expected EXCEPT ![t] = [Expected[t] EXCEPT !.at = tickTime + Expected[t].every]]
    BY <2>1, <2>4, <2>6, OtherExpectations
  <2>8. Expected[t] # Nobody /\ Expected[t].at <= tickTime
    <3>1. dueAt[x] \in Nat
      BY <1>1 DEF Types
    <3>2. Expected[t].at = dueAt[x]
      BY <2>1, <2>5, <3>1, DueType
    <3>3. QED BY <2>1, <3>2, Expecting
  <2>9. Timeouts!Fire(t)
    BY <1>1, <2>1, <2>3, <2>7, <2>8 DEF Timeouts!Fire
  <2>10. QED BY <2>1, <2>9 DEF Implements, Timeouts!Next
<1>6. ASSUME timerOf[x] \in Timers \ Repeating, ClearBaseTimer(x), CallMethod(x),
             UNCHANGED <<wait, dueAt, trigger>>,
             timerOf[x] \in Delaying => trigger[timerOf[x]] <= tickTime
      PROVE  Implements
  <2> DEFINE t == timerOf[x]
  <2>1. t \in Timers /\ t \notin Repeating /\ t # Nobody /\ delayedTask[t] = x /\ x # Nobody /\ callee' = t
    BY <1>1, <1>2, <1>6 DEF CallMethod
  <2>2. \A u \in Timers : Expected'[u] = IF delayedTask[u] = x THEN Nobody ELSE Expected[u]
    BY <1>6, Clearing, ClearedDisarms
  <2>3. \A u \in Timers : delayedTask[u] = x => u = t
    BY <1>3
  <2>4. t \in Delaying => trigger[t] <= tickTime
    BY <1>6
  <2> HIDE DEF t
  <2>5. Expected' = [Expected EXCEPT ![t] = Nobody]
    BY <2>1, <2>2, <2>3, OtherExpectations
  <2>6. Expected[t] # Nobody
    BY <2>1, Expecting
  <2>7. Expected[t].at <= tickTime
    <3>1. CASE t \in Delaying
      <4>1. trigger[t] \in Nat /\ DelayOf[t] \in Nat
        BY <1>1, <3>1, TimerAssumption DEF Types
      <4>2. Expected[t] = Due(trigger[t], DelayOf[t])
        BY <2>1, <3>1, ExpectedAt
      <4>3. QED BY <2>4, <3>1, <4>1, <4>2, DueType
    <3>2. CASE t \notin Delaying
      <4>1. dueAt[x] \in Nat /\ wait[x] \in Nat
        BY <1>1 DEF Types
      <4>2. Expected[t] = Due(dueAt[x], wait[x])
        BY <2>1, <3>2, ExpectedAt
      <4>3. QED BY <4>1, <4>2, DueType
    <3>3. QED BY <3>1, <3>2
  <2>8. Timeouts!Fire(t)
    BY <1>1, <2>1, <2>5, <2>6, <2>7 DEF Timeouts!Fire
  <2>9. QED BY <2>1, <2>8 DEF Implements, Timeouts!Next
<1>7. CASE RunOneShot(x)
  BY <1>6, <1>7 DEF RunOneShot
<1>8. CASE RunDelaying(x)
  <2> DEFINE t == timerOf[x]
  <2>1. /\ t \in Timers /\ t \in Delaying /\ t # Nobody /\ t \notin Repeating
        /\ delayedTask[t] = x /\ x # Nobody /\ trigger[t] \in Nat
    BY <1>1, <1>2, <1>8, TimerAssumption DEF RunDelaying, Types
  <2>2. CASE IsEarly(t) /\ InitiateDelayedTask(t, trigger[t] - tickTime)
             /\ UNCHANGED <<callee, trigger>>
    <3>1. trigger[t] - tickTime \in Nat
      BY <1>1, <2>1, <2>2 DEF IsEarly
    <3>2. PICK k \in Addresses : Initiated(t, trigger[t] - tickTime, k)
      BY <2>1, <2>2, <3>1, Initiating
    <3> HIDE DEF t
    <3>3. /\ \A u \in Timers : u # t => Expected'[u] = Expected[u]
          /\ Expected'[t] = Due(trigger[t], DelayOf[t])
      BY <2>1, <2>2, <3>1, <3>2, InitiatedArms
    <3>4. Expected[t] = Due(trigger[t], DelayOf[t])
      BY <2>1, ExpectedAt
    <3>5. Expected' = Expected
      BY <3>3, <3>4, SameExpectations
    <3>6. QED BY <1>1, <2>2, <3>5 DEF Implements, Stutters
  <2>3. CASE ~IsEarly(t) /\ ClearBaseTimer(x) /\ CallMethod(x) /\ UNCHANGED <<wait, dueAt, trigger>>
    <3>1. trigger[t] <= tickTime
      BY <1>1, <2>1, <2>3 DEF IsEarly
    <3>2. QED BY <1>6, <2>1, <2>3, <3>1
  <2>4. QED BY <1>8, <2>2, <2>3 DEF RunDelaying
<1>9. QED BY <1>4, <1>5, <1>7, <1>8 DEF RunTimerTask

LEMMA RunWorkFires ==
  ASSUME IInv, RunWork
  PROVE  Implements
<1> DEFINE x == Head(workQueue)
<1>1. x \in Addresses /\ x \in allocated
  BY WorkTaken DEF RunWork, IInv, Tasks, Placed
<1>2. wait[x] = 0 /\ dueAt[x] <= tickTime
  BY <1>1, TimerAssumption DEF RunWork, IInv, Types, Tasks, Described
<1>3. QED BY <1>1, <1>2, RunFires DEF RunWork

LEMMA RunDelayedFires ==
  ASSUME IInv, RunDelayed
  PROVE  Implements
<1> DEFINE x == Head(delayedQueue)
<1>1. x \in Addresses /\ x \in allocated
  BY DelayedTaken DEF RunDelayed, IInv, Tasks, Placed
<1>2. QED BY <1>1, RunFires DEF RunDelayed

LEMMA UserReturnsImplements ==
  ASSUME IInv, UserReturns
  PROVE  Implements
<1>1. /\ Types /\ Tasks /\ inTask \in Addresses /\ inTask # Nobody /\ Nobody \notin Timers
      /\ UNCHANGED <<life, tickTime, trigger>> /\ callee' = Nobody
  BY TimerAssumption DEF IInv, Types, UserReturns
<1>2. Deleted(inTask)
  BY <1>1, DeletingTask DEF UserReturns
<1>3. \A u \in Timers : Expected'[u] = IF delayedTask[u] = inTask THEN Nobody ELSE Expected[u]
  BY <1>1, <1>2, ClearedDisarms DEF Deleted
<1>4. \A u \in Timers : delayedTask[u] # inTask
  BY <1>1 DEF IInv, Linked, TimerLinked, Tasks, Described
<1>5. Expected' = Expected
  BY <1>3, <1>4, SameExpectations
<1>6. CASE callee = Nobody
  BY <1>1, <1>5, <1>6 DEF Implements, Stutters
<1>7. CASE callee # Nobody
  BY <1>1, <1>5, <1>7 DEF Implements, Timeouts!Next, Timeouts!Return
<1>8. QED BY <1>6, <1>7

LEMMA DeleteDelayedImplements ==
  ASSUME IInv, DeleteDelayed
  PROVE  Implements
<1> DEFINE x == Head(delayedQueue)
<1>1. /\ Types /\ Linked /\ x \in Addresses /\ Nobody \notin Timers
      /\ UNCHANGED <<life, callee, tickTime, trigger>>
  BY DelayedTaken, TimerAssumption DEF IInv, DeleteDelayed
<1>2. CASE UNCHANGED <<tasksT, delayedTask>>
  BY <1>1, <1>2, StillExpected DEF Implements, Stutters
<1>3. CASE DeleteTask(x)
  <2>1. Deleted(x)
    BY <1>1, <1>3, DeletingTask
  <2> HIDE DEF x
  <2>2. \A u \in Timers : Expected'[u] = IF delayedTask[u] = x THEN Nobody ELSE Expected[u]
    BY <1>1, <2>1, ClearedDisarms DEF Deleted
  <2>3. \A u \in Timers : delayedTask[u] = x => timerOf[x] = u
    BY <1>1, TimerAssumption DEF Linked, TimerLinked
  <2>4. CASE \A u \in Timers : delayedTask[u] # x
    <3>1. Expected' = Expected
      BY <2>2, <2>4, SameExpectations
    <3>2. QED BY <1>1, <3>1 DEF Implements, Stutters
  <2>5. ASSUME NEW u \in Timers, delayedTask[u] = x PROVE Implements
    <3>1. Expected' = [Expected EXCEPT ![u] = Nobody]
      BY <2>2, <2>3, <2>5, OtherExpectations
    <3>2. Timeouts!Disarm(u)
      BY <1>1, <3>1 DEF Timeouts!Disarm
    <3>3. QED BY <3>2 DEF Implements, Timeouts!Next
  <2>6. QED BY <2>4, <2>5
<1>4. QED BY <1>2, <1>3 DEF DeleteDelayed

LEMMA StepImplements ==
  ASSUME IInv, [TimerNext]_timerVars
  PROVE  Implements
<1>1. CASE UNCHANGED timerVars
  BY <1>1, StillExpected DEF Implements, Stutters, timerVars
<1>2. CASE User
  <2>1. CASE PostOwner
    BY <2>1, PostOwnerStutters DEF Implements
  <2>2. ASSUME NEW t \in Timers,
               Start(t) \/ Reset(t) \/ Stop(t) \/ ResetDelayTimer(t) \/ DestroyTimer(t)
        PROVE  Implements
    <3>1. Timeouts!Arm(t) \/ Timeouts!Disarm(t)
      BY <2>2, StartArms, ResetDelayTimerArms, StopDisarms
    <3>2. QED BY <3>1 DEF Implements, Timeouts!Next
  <2>3. QED BY <1>2, <2>1, <2>2 DEF User
<1>3. CASE TakeWork \/ DelayWork \/ DeleteWork \/ ReloadForSecondHalf \/ RoundEnds
  <2>1. UNCHANGED <<tasksT, callee, userT, delayedTask, tickTime>>
        /\ ((life = "runs") <=> (life' = "runs"))
    BY <1>3 DEF TakeWork, DelayWork, DeleteWork, ReloadForSecondHalf, RoundEnds, Emptied, Deleting
  <2>2. Expected' = Expected
    BY <2>1, StillExpected
  <2>3. QED BY <2>1, <2>2 DEF Implements, Stutters
<1>4. CASE RunWork \/ RunDelayed \/ UserReturns \/ DeleteDelayed
  BY <1>4, RunWorkFires, RunDelayedFires, UserReturnsImplements, DeleteDelayedImplements
<1>5. CASE WillDestroy
  <2>1. UNCHANGED <<tasksT, callee, userT, delayedTask, tickTime>>
        /\ life = "runs" /\ life' = "dies" /\ callee = Nobody
    BY <1>5 DEF WillDestroy, Looping, IInv, Tasks
  <2>2. Expected' = Expected
    BY <2>1, StillExpected
  <2>3. QED BY <2>1, <2>2 DEF Implements, Timeouts!Next, Timeouts!Close
<1>6. CASE PassTime
  <2>1. UNCHANGED <<tasksT, callee, userT, delayedTask, life>> /\ tickTime' = tickTime + 1
    BY <1>6 DEF PassTime
  <2>2. Expected' = Expected
    BY <2>1, StillExpected
  <2>3. QED BY <2>1, <2>2 DEF Implements, Timeouts!Next, Timeouts!Pass
<1>7. QED BY <1>1, <1>2, <1>3, <1>4, <1>5, <1>6 DEF TimerNext, LoopWorks, LoopEnds

(* The timers do what Timeout promises: none calls back before its time,      *)
(* after Stop or after its destruction, nor twice; a DelayTimer is put off by *)
(* every Reset although DelayFor may leave its task as it is (timer.h:65-265).*)
THEOREM TimersKeepTime == TimerSpec => KeepsTime
<1>1. TimerInit => Timeouts!Init
  <2>1. SUFFICES ASSUME TimerInit PROVE Timeouts!Init
    OBVIOUS
  <2>2. /\ delayedTask = [t \in Timers |-> Nobody]
        /\ callee = Nobody /\ life = "runs" /\ tickTime = 0
    BY <2>1 DEF TimerInit
  <2>3. ASSUME NEW u \in Timers PROVE Expected[u] = Nobody
    BY <2>2, ExpectedAt
  <2>4. Expected = [u \in Timers |-> Nobody]
    <3>1. Expected = [u \in Timers |-> Expected[u]]
      BY DEF Expected
    <3>2. QED BY <3>1, <2>3, Zenon
  <2>5. QED BY <2>2, <2>4 DEF Timeouts!Init
<1>2. IInv /\ [TimerNext]_timerVars => [Timeouts!Next]_Timeouts!vars
  BY StepImplements DEF Implements, Stutters, Timeouts!vars
<1>3. QED BY <1>1, <1>2, Invariant, PTL DEF TimerSpec, KeepsTime, Timeouts!Spec
=============================================================================
