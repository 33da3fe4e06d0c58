----------------------------- MODULE ThreadProofs -----------------------------
(***************************************************************************)
(* Proofs about Thread, for any Thread objects, whichever threads own them,   *)
(* and about Statics: what any threads keep in static variables, for any      *)
(* objects, slots and native indexes.                                        *)
(***************************************************************************)
EXTENDS Thread, Statics, SequenceFacts

USE DEF vars, object, history

-----------------------------------------------------------------------------
(* The inductive invariant says, for each object, which calls of its owner    *)
(* and which places in ThreadMain go together.                               *)
Types ==
  /\ startup \in [Threads -> {"null", "stack", "gone"}]
  /\ loop \in [Threads -> BOOLEAN] /\ id \in [Threads -> BOOLEAN]
  /\ event \in [Threads -> BOOLEAN] /\ quit \in [Threads -> BOOLEAN]
  /\ worker \in [Threads -> Workers] /\ pc \in [Threads -> Calls]
  /\ queue \in [Threads -> Seq({"task", "quit"})]
  /\ properly \in [Threads \cup {Main} -> BOOLEAN]
  /\ soon \in [Threads -> BOOLEAN]
  /\ starts \in [Threads -> Nat] /\ posted \in [Threads -> Nat]

(* A ThreadQuitTask was posted.                                              *)
Told(t) == pc[t] = "joining" \/ (soon[t] /\ pc[t] # "post soon")

Phase(t) ==
  /\ startup[t] = "null" <=> worker[t] = "none"
  /\ startup[t] = "stack" <=> pc[t] = "waiting"
  /\ startup[t] = "null" => pc[t] = "idle"
  /\ loop[t] <=> worker[t] \in {"starting", "looping", "task", "cleanup"}
  /\ id[t] <=> worker[t] \in {"starting", "looping", "task", "cleanup", "leaving"}
  /\ event[t] <=> (pc[t] = "waiting" /\ worker[t] \notin {"created", "starting"})
  /\ worker[t] \in {"created", "starting"} => pc[t] = "waiting"
  /\ pc[t] \in {"waiting", "post quit"} => ~soon[t]
  /\ pc[t] = "post soon" => soon[t]

(* A loop quits when it was told to, and nothing is posted from then on.     *)
Quitting(t) ==
  /\ worker[t] \in {"starting", "looping", "task"} /\ ~Told(t) =>
       ~quit[t] /\ ~Within("quit", queue[t])
  /\ worker[t] \in {"cleanup", "leaving", "ended"} => Told(t) /\ ~Within("task", queue[t])
  /\ worker[t] \in {"starting", "looping", "task", "cleanup"} /\ quit[t] => properly[t]
  /\ worker[t] = "cleanup" => quit[t]

IInv == Types /\ \A t \in Threads : Phase(t) /\ Quitting(t)

-----------------------------------------------------------------------------
LEMMA InitIInv == Init => IInv
<1> SUFFICES ASSUME Init PROVE IInv
  OBVIOUS
<1>1. Types
  <2>1. queue \in [Threads -> Seq({"task", "quit"})]
    <3>1. << >> \in Seq({"task", "quit"})
      OBVIOUS
    <3>2. QED BY <3>1 DEF Init
  <2>2. QED BY <2>1 DEF Init, Types, Workers, Calls
<1>2. ASSUME NEW t \in Threads PROVE Phase(t) /\ Quitting(t)
  BY DEF Init, Phase, Quitting
<1>3. QED BY <1>1, <1>2 DEF IInv

(* What the invariant implies.                                               *)
LEMMA IInvSound == IInv => ThreadSound /\ PendingTasksRun
<1> SUFFICES ASSUME IInv PROVE ThreadSound /\ PendingTasksRun
  OBVIOUS
<1>1. Types /\ \A t \in Threads : /\ Phase(t) /\ Quitting(t)
                                  /\ worker[t] \in Workers /\ pc[t] \in Calls
                                  /\ startup[t] \in {"null", "stack", "gone"}
  BY DEF IInv, Types
<1>2. StoppedIsReset
  BY <1>1 DEF StoppedIsReset, Phase
<1>3. StartedHasLoop
  BY <1>1 DEF StartedHasLoop, Phase, Quitting, Told, Workers
<1>4. StartupDataInUse
  BY <1>1 DEF StartupDataInUse, Phase
<1>5. PostToLiveLoop
  BY <1>1 DEF PostToLiveLoop, LoopAlive, Phase, Quitting, Told, Workers
<1>6. PendingTasksRun
  BY <1>1 DEF PendingTasksRun, Quitting, Within
<1>7. TypeOK
  BY <1>1, <1>2, <1>3 DEF TypeOK, Types, Phase
<1>8. QED BY <1>4, <1>5, <1>6, <1>7 DEF ThreadSound

-----------------------------------------------------------------------------
(* A step of one object leaves the others as they were, but for the flag that *)
(* Start clears on the thread that calls it.                                 *)
Untouched(u) ==
  /\ startup'[u] = startup[u] /\ loop'[u] = loop[u] /\ id'[u] = id[u] /\ event'[u] = event[u]
  /\ worker'[u] = worker[u] /\ queue'[u] = queue[u] /\ quit'[u] = quit[u]
  /\ pc'[u] = pc[u] /\ soon'[u] = soon[u]
  /\ worker[u] \in {"starting", "looping", "task", "cleanup"} /\ quit[u] => properly'[u] = properly[u]

LEMMA StepOfOne ==
  ASSUME IInv, NEW t \in Threads, Types', Phase(t)', Quitting(t)',
         \A u \in Threads : u # t => Untouched(u)
  PROVE  IInv'
<1>1. ASSUME NEW u \in Threads, u # t PROVE Phase(u)' /\ Quitting(u)'
  <2>1. Phase(u) /\ Quitting(u) /\ Untouched(u)
    BY <1>1 DEF IInv
  <2>2. Phase(u)'
    BY <2>1 DEF Untouched, Phase
  <2>3. Quitting(u)'
    BY <2>1 DEF Untouched, Quitting, Told
  <2>4. QED BY <2>2, <2>3
<1>2. QED BY <1>1 DEF IInv

(* A call that is not in progress can begin.                                 *)
LEMMA OwnerIdle ==
  ASSUME NEW t \in Threads, UserRuns(Owner[t])
  PROVE  pc[t] = "idle"
  BY DEF UserRuns

LEMMA StartKeeps ==
  ASSUME IInv, NEW t \in Threads, Start(t)
  PROVE  IInv'
<1>1. Types /\ Phase(t) /\ pc[t] = "idle" /\ Owner[t] \in Threads \cup {Main}
  BY OwnerIdle, OwnerAssumption DEF IInv, Start
<1>2. Types'
  <2>1. UNCHANGED <<loop, id, event, queue, quit>>
    BY DEF Start
  <2>2. /\ startup' \in [Threads -> {"null", "stack", "gone"}]
        /\ worker' \in [Threads -> Workers] /\ pc' \in [Threads -> Calls]
    BY <1>1 DEF Types, Start, Workers, Calls
  <2>3. properly' \in [Threads \cup {Main} -> BOOLEAN]
    BY <1>1 DEF Types, Start
  <2>4. soon' \in [Threads -> BOOLEAN] /\ starts' \in [Threads -> Nat] /\ posted' \in [Threads -> Nat]
    BY <1>1 DEF Types, Start
  <2>5. QED BY <1>1, <2>1, <2>2, <2>3, <2>4 DEF Types
<1>3. ASSUME NEW u \in Threads, u # t PROVE Untouched(u)
  <2>1. u = Owner[t] => ~quit[u]
    BY OwnerAssumption DEF Start, MayStart
  <2>2. u # Owner[t] => properly'[u] = properly[u]
    BY <1>1, <1>3 DEF Types, Start
  <2>3. QED BY <1>1, <1>3, <2>1, <2>2 DEF Untouched, Types, Start
<1>4. /\ worker[t] = "none" /\ startup[t] = "null" /\ ~soon'[t]
      /\ ~loop[t] /\ ~id[t] /\ ~event[t]
      /\ UNCHANGED <<loop, id, event, queue, quit>>
  BY <1>1 DEF Phase, Types, Start
<1>5. CASE /\ startup' = [startup EXCEPT ![t] = "stack"]
           /\ worker' = [worker EXCEPT ![t] = "created"]
           /\ pc' = [pc EXCEPT ![t] = "waiting"]
  <2>1. startup'[t] = "stack" /\ worker'[t] = "created" /\ pc'[t] = "waiting"
    BY <1>1, <1>5 DEF Types
  <2>2. Phase(t)' /\ Quitting(t)'
    BY <1>4, <2>1 DEF Phase, Quitting
  <2>3. QED BY <1>2, <1>3, <2>2, StepOfOne
<1>6. CASE UNCHANGED <<startup, worker, pc>>
  <2>1. Phase(t)' /\ Quitting(t)'
    BY <1>1, <1>4, <1>6 DEF Phase, Quitting
  <2>2. QED BY <1>2, <1>3, <2>1, StepOfOne
<1>7. QED BY <1>5, <1>6 DEF Start

(* To a loop that leaves nothing is posted: the owner knows it was told.     *)
LEMMA PostTaskKeeps ==
  ASSUME IInv, NEW t \in Threads, PostTask(t)
  PROVE  IInv'
<1>1. Types /\ Phase(t) /\ Quitting(t) /\ queue[t] \in Seq({"task", "quit"})
  BY DEF IInv, Types
<1>2. worker[t] \in {"looping", "task"}
  BY <1>1, OwnerIdle DEF PostTask, Phase, Quitting, Told
<1>3. /\ queue' = [queue EXCEPT ![t] = Append(queue[t], "task")]
      /\ UNCHANGED <<startup, loop, id, event, worker, quit, properly, pc, soon, starts>>
      /\ posted' = [posted EXCEPT ![t] = @ + 1]
  BY DEF PostTask
<1>4. /\ Append(queue[t], "task") \in Seq({"task", "quit"})
      /\ \A x : Within(x, Append(queue[t], "task")) <=> Within(x, queue[t]) \/ x = "task"
  BY <1>1, Appending
<1>5. Types'
  BY <1>1, <1>3, <1>4 DEF Types
<1>6. \A u \in Threads : u # t => Untouched(u)
  BY <1>1, <1>3 DEF Types, Untouched
<1>7. queue'[t] = Append(queue[t], "task")
  BY <1>1, <1>3 DEF Types
<1>8. Phase(t)'
  BY <1>1, <1>3 DEF Phase
<1>9. Quitting(t)'
  <2>1. Within("quit", queue'[t]) <=> Within("quit", queue[t])
    BY <1>4, <1>7
  <2>2. QED BY <1>1, <1>2, <1>3, <2>1 DEF Quitting, Told
<1>10. QED BY <1>5, <1>6, <1>8, <1>9, StepOfOne

(* ThreadQuitTask is posted to a loop that runs, and posted once.            *)
LEMMA PostQuitKeeps ==
  ASSUME IInv, NEW t \in Threads, PostQuit(t)
  PROVE  IInv'
<1>1. Types /\ Phase(t) /\ Quitting(t) /\ queue[t] \in Seq({"task", "quit"})
  BY DEF IInv, Types
<1>2. PICK p : p = IF pc[t] = "post quit" THEN "joining" ELSE "idle"
  OBVIOUS
<1>3. /\ pc[t] \in {"post quit", "post soon"}
      /\ queue' = [queue EXCEPT ![t] = Append(queue[t], "quit")]
      /\ pc' = [pc EXCEPT ![t] = p]
      /\ UNCHANGED <<startup, loop, id, event, worker, quit, properly, soon, starts, posted>>
  BY <1>2 DEF PostQuit
<1>4. /\ Append(queue[t], "quit") \in Seq({"task", "quit"})
      /\ \A x : Within(x, Append(queue[t], "quit")) <=> Within(x, queue[t]) \/ x = "quit"
  BY <1>1, Appending
<1>5. Types'
  <2>1. p \in Calls
    BY <1>2 DEF Calls
  <2>2. QED BY <1>1, <1>3, <1>4, <2>1 DEF Types
<1>6. \A u \in Threads : u # t => Untouched(u)
  BY <1>1, <1>3 DEF Types, Untouched
<1>7. queue'[t] = Append(queue[t], "quit") /\ pc'[t] = p
  BY <1>1, <1>3 DEF Types
<1>8. Phase(t)'
  BY <1>1, <1>2, <1>3, <1>7 DEF Phase, Types
<1>9. Quitting(t)'
  <2>1. Within("task", queue'[t]) <=> Within("task", queue[t])
    BY <1>4, <1>7
  <2>2. Told(t) => Told(t)'
    BY <1>2, <1>3, <1>7 DEF Told
  <2>3. Told(t)'
    <3>1. CASE pc[t] = "post quit"
      BY <3>1, <1>2, <1>7 DEF Told
    <3>2. CASE pc[t] = "post soon"
      <4>1. p = "idle" /\ soon[t] /\ soon' = soon
        BY <3>2, <1>1, <1>2, <1>3 DEF Phase
      <4>2. QED BY <4>1, <1>7 DEF Told
    <3>3. QED BY <3>1, <3>2, <1>3
  <2>4. QED BY <1>1, <1>3, <2>1, <2>2, <2>3 DEF Quitting
<1>10. QED BY <1>5, <1>6, <1>8, <1>9, StepOfOne

LEMMA StartReturnsKeeps ==
  ASSUME IInv, NEW t \in Threads, StartReturns(t)
  PROVE  IInv'
<1>1. Types /\ Phase(t) /\ Quitting(t) /\ queue[t] \in Seq({"task", "quit"})
  BY DEF IInv, Types
<1>2. /\ pc[t] = "waiting" /\ event[t]
      /\ event' = [event EXCEPT ![t] = FALSE]
      /\ startup' = [startup EXCEPT ![t] = "gone"]
      /\ pc' = [pc EXCEPT ![t] = "idle"]
      /\ UNCHANGED <<loop, id, worker, queue, quit, properly, soon, starts, posted>>
  BY DEF StartReturns
<1>4. event'[t] = FALSE /\ startup'[t] = "gone" /\ pc'[t] = "idle"
  BY <1>1, <1>2 DEF Types
<1>5. Types'
  BY <1>1, <1>2 DEF Types, Workers, Calls
<1>6. \A u \in Threads : u # t => Untouched(u)
  BY <1>1, <1>2 DEF Types, Untouched
<1>7. Phase(t)'
  BY <1>1, <1>2, <1>4 DEF Phase
<1>8. Quitting(t)'
  BY <1>1, <1>2, <1>4 DEF Quitting, Phase, Told
<1>9. QED BY <1>5, <1>6, <1>7, <1>8, StepOfOne

LEMMA StopSoonKeeps ==
  ASSUME IInv, NEW t \in Threads, StopSoon(t)
  PROVE  IInv'
<1>1. Types /\ Phase(t) /\ Quitting(t) /\ queue[t] \in Seq({"task", "quit"})
  BY DEF IInv, Types
<1>2. /\ ~soon[t] /\ loop[t]
      /\ pc' = [pc EXCEPT ![t] = "post soon"]
      /\ soon' = [soon EXCEPT ![t] = TRUE]
      /\ UNCHANGED <<startup, loop, id, event, worker, queue, quit, properly, starts, posted>>
  BY DEF StopSoon
<1>3. pc[t] = "idle"
  BY OwnerIdle DEF StopSoon
<1>4. pc'[t] = "post soon" /\ soon'[t] = TRUE
  BY <1>1, <1>2 DEF Types
<1>5. Types'
  BY <1>1, <1>2, <1>3 DEF Types, Workers, Calls
<1>6. \A u \in Threads : u # t => Untouched(u)
  BY <1>1, <1>2 DEF Types, Untouched
<1>7. Phase(t)'
  BY <1>1, <1>2, <1>3, <1>4 DEF Phase
<1>8. Quitting(t)'
  BY <1>1, <1>2, <1>3, <1>4 DEF Quitting, Phase, Told
<1>9. QED BY <1>5, <1>6, <1>7, <1>8, StepOfOne

(* Stop after StopSoon, when the thread has ended, posts nothing.            *)
LEMMA StopKeeps ==
  ASSUME ~EagerStop, IInv, NEW t \in Threads, Stop(t)
  PROVE  IInv'
<1>1. Types /\ Phase(t) /\ Quitting(t) /\ pc[t] = "idle" /\ worker[t] \in Workers
  BY OwnerIdle DEF IInv, Types, Stop
<1>2. PICK p : p = IF loop[t] THEN "post quit" ELSE "joining"
  OBVIOUS
<1>3. /\ startup[t] # "null" /\ (soon[t] => worker[t] = "ended")
      /\ pc' = [pc EXCEPT ![t] = p]
      /\ UNCHANGED <<startup, loop, id, event, worker, queue, quit, properly, soon, starts, posted>>
  BY <1>2 DEF Stop
<1>4. Types'
  BY <1>1, <1>2, <1>3 DEF Types, Calls
<1>5. \A u \in Threads : u # t => Untouched(u)
  BY <1>1, <1>3 DEF Types, Untouched
<1>6. pc'[t] = p
  BY <1>1, <1>3 DEF Types
<1>7. Phase(t)'
  BY <1>1, <1>2, <1>3, <1>6 DEF Phase, Types
<1>8. Quitting(t)'
  BY <1>1, <1>2, <1>3, <1>6 DEF Quitting, Phase, Told
<1>9. QED BY <1>4, <1>5, <1>7, <1>8, StepOfOne

LEMMA JoinKeeps ==
  ASSUME IInv, NEW t \in Threads, Join(t)
  PROVE  IInv'
<1>1. Types /\ Phase(t) /\ Quitting(t) /\ queue[t] \in Seq({"task", "quit"})
  BY DEF IInv, Types
<1>2. /\ pc[t] = "joining" /\ worker[t] = "ended"
      /\ startup' = [startup EXCEPT ![t] = "null"]
      /\ loop' = [loop EXCEPT ![t] = FALSE]
      /\ worker' = [worker EXCEPT ![t] = "none"]
      /\ pc' = [pc EXCEPT ![t] = "idle"]
      /\ UNCHANGED <<id, event, queue, quit, properly, soon, starts, posted>>
  BY DEF Join
<1>4. startup'[t] = "null" /\ loop'[t] = FALSE /\ worker'[t] = "none" /\ pc'[t] = "idle"
  BY <1>1, <1>2 DEF Types
<1>5. Types'
  BY <1>1, <1>2 DEF Types, Workers, Calls
<1>6. \A u \in Threads : u # t => Untouched(u)
  BY <1>1, <1>2 DEF Types, Untouched
<1>7. Phase(t)'
  BY <1>1, <1>2, <1>4 DEF Phase
<1>8. Quitting(t)'
  BY <1>1, <1>2, <1>4 DEF Quitting, Phase, Told
<1>9. QED BY <1>5, <1>6, <1>7, <1>8, StepOfOne

(* Whatever an earlier loop left behind is gone.                             *)
LEMMA ThreadMainKeeps ==
  ASSUME IInv, NEW t \in Threads, ThreadMain(t)
  PROVE  IInv'
<1>1. Types /\ Phase(t) /\ Quitting(t) /\ queue[t] \in Seq({"task", "quit"})
  BY DEF IInv, Types
<1>2. /\ worker[t] = "created"
      /\ loop' = [loop EXCEPT ![t] = TRUE]
      /\ id' = [id EXCEPT ![t] = TRUE]
      /\ queue' = [queue EXCEPT ![t] = << >>]
      /\ quit' = [quit EXCEPT ![t] = FALSE]
      /\ worker' = [worker EXCEPT ![t] = "starting"]
      /\ UNCHANGED <<startup, event, properly, pc, soon, starts, posted>>
  BY DEF ThreadMain
<1>3. << >> \in Seq({"task", "quit"}) /\ \A x : ~Within(x, << >>)
  BY WithinEmpty
<1>4. loop'[t] = TRUE /\ id'[t] = TRUE /\ queue'[t] = << >> /\ quit'[t] = FALSE /\ worker'[t] = "starting"
  BY <1>1, <1>2 DEF Types
<1>5. Types'
  BY <1>1, <1>2, <1>3 DEF Types, Workers, Calls
<1>6. \A u \in Threads : u # t => Untouched(u)
  BY <1>1, <1>2 DEF Types, Untouched
<1>7. Phase(t)'
  BY <1>1, <1>2, <1>3, <1>4 DEF Phase
<1>8. Quitting(t)'
  BY <1>1, <1>2, <1>3, <1>4 DEF Quitting, Phase, Told
<1>9. QED BY <1>5, <1>6, <1>7, <1>8, StepOfOne

LEMMA SignalStartedKeeps ==
  ASSUME IInv, NEW t \in Threads, SignalStarted(t)
  PROVE  IInv'
<1>1. Types /\ Phase(t) /\ Quitting(t) /\ queue[t] \in Seq({"task", "quit"})
  BY DEF IInv, Types
<1>2. /\ worker[t] = "starting"
      /\ event' = [event EXCEPT ![t] = TRUE]
      /\ worker' = [worker EXCEPT ![t] = "looping"]
      /\ UNCHANGED <<startup, loop, id, queue, quit, properly, pc, soon, starts, posted>>
  BY DEF SignalStarted
<1>4. event'[t] = TRUE /\ worker'[t] = "looping"
  BY <1>1, <1>2 DEF Types
<1>5. Types'
  BY <1>1, <1>2 DEF Types, Workers, Calls
<1>6. \A u \in Threads : u # t => Untouched(u)
  BY <1>1, <1>2 DEF Types, Untouched
<1>7. Phase(t)'
  BY <1>1, <1>2, <1>4 DEF Phase
<1>8. Quitting(t)'
  BY <1>1, <1>2, <1>4 DEF Quitting, Phase, Told
<1>9. QED BY <1>5, <1>6, <1>7, <1>8, StepOfOne

LEMMA RunTaskKeeps ==
  ASSUME IInv, NEW t \in Threads, RunTask(t)
  PROVE  IInv'
<1>1. Types /\ Phase(t) /\ Quitting(t) /\ queue[t] \in Seq({"task", "quit"})
  BY DEF IInv, Types
<1>2. /\ worker[t] = "looping" /\ queue[t] # << >> /\ Head(queue[t]) = "task"
      /\ queue' = [queue EXCEPT ![t] = Tail(queue[t])]
      /\ worker' = [worker EXCEPT ![t] = "task"]
      /\ UNCHANGED <<startup, loop, id, event, quit, properly, pc, soon, starts, posted>>
  BY DEF RunTask
<1>3. /\ Tail(queue[t]) \in Seq({"task", "quit"}) /\ Within(Head(queue[t]), queue[t])
      /\ \A x : Within(x, Tail(queue[t])) => Within(x, queue[t])
  BY <1>1, <1>2, TakingHead
<1>4. queue'[t] = Tail(queue[t]) /\ worker'[t] = "task"
  BY <1>1, <1>2 DEF Types
<1>5. Types'
  BY <1>1, <1>2, <1>3 DEF Types, Workers, Calls
<1>6. \A u \in Threads : u # t => Untouched(u)
  BY <1>1, <1>2 DEF Types, Untouched
<1>7. Phase(t)'
  BY <1>1, <1>2, <1>3, <1>4 DEF Phase
<1>8. Quitting(t)'
  BY <1>1, <1>2, <1>3, <1>4 DEF Quitting, Phase, Told
<1>9. QED BY <1>5, <1>6, <1>7, <1>8, StepOfOne

LEMMA TaskReturnsKeeps ==
  ASSUME IInv, NEW t \in Threads, TaskReturns(t)
  PROVE  IInv'
<1>1. Types /\ Phase(t) /\ Quitting(t) /\ queue[t] \in Seq({"task", "quit"})
  BY DEF IInv, Types
<1>2. /\ worker[t] = "task"
      /\ worker' = [worker EXCEPT ![t] = "looping"]
      /\ UNCHANGED <<startup, loop, id, event, queue, quit, properly, pc, soon, starts, posted>>
  BY DEF TaskReturns
<1>4. worker'[t] = "looping"
  BY <1>1, <1>2 DEF Types
<1>5. Types'
  BY <1>1, <1>2 DEF Types, Workers, Calls
<1>6. \A u \in Threads : u # t => Untouched(u)
  BY <1>1, <1>2 DEF Types, Untouched
<1>7. Phase(t)'
  BY <1>1, <1>2, <1>4 DEF Phase
<1>8. Quitting(t)'
  BY <1>1, <1>2, <1>4 DEF Quitting, Phase, Told
<1>9. QED BY <1>5, <1>6, <1>7, <1>8, StepOfOne

LEMMA ThreadQuitTaskKeeps ==
  ASSUME IInv, NEW t \in Threads, ThreadQuitTask(t)
  PROVE  IInv'
<1>1. Types /\ Phase(t) /\ Quitting(t) /\ queue[t] \in Seq({"task", "quit"})
  BY DEF IInv, Types
<1>2. /\ worker[t] = "looping" /\ queue[t] # << >> /\ Head(queue[t]) = "quit"
      /\ queue' = [queue EXCEPT ![t] = Tail(queue[t])]
      /\ quit' = [quit EXCEPT ![t] = TRUE]
      /\ properly' = [properly EXCEPT ![t] = TRUE]
      /\ UNCHANGED <<startup, loop, id, event, worker, pc, soon, starts, posted>>
  BY DEF ThreadQuitTask
<1>3. /\ Tail(queue[t]) \in Seq({"task", "quit"}) /\ Within(Head(queue[t]), queue[t])
      /\ \A x : Within(x, Tail(queue[t])) => Within(x, queue[t])
  BY <1>1, <1>2, TakingHead
<1>4. queue'[t] = Tail(queue[t]) /\ quit'[t] = TRUE /\ properly'[t] = TRUE
  BY <1>1, <1>2 DEF Types
<1>5. Types'
  BY <1>1, <1>2, <1>3 DEF Types, Workers, Calls
<1>6. \A u \in Threads : u # t => Untouched(u)
  BY <1>1, <1>2 DEF Types, Untouched
<1>7. Phase(t)'
  BY <1>1, <1>2, <1>3, <1>4 DEF Phase
<1>8. Quitting(t)'
  BY <1>1, <1>2, <1>3, <1>4 DEF Quitting, Phase, Told
<1>9. QED BY <1>5, <1>6, <1>7, <1>8, StepOfOne

(* The queue is empty when the loop is left.                                 *)
LEMMA LoopQuitsKeeps ==
  ASSUME IInv, NEW t \in Threads, LoopQuits(t)
  PROVE  IInv'
<1>1. Types /\ Phase(t) /\ Quitting(t) /\ queue[t] \in Seq({"task", "quit"})
  BY DEF IInv, Types
<1>2. /\ worker[t] = "looping" /\ queue[t] = << >> /\ quit[t]
      /\ worker' = [worker EXCEPT ![t] = "cleanup"]
      /\ UNCHANGED <<startup, loop, id, event, queue, quit, properly, pc, soon, starts, posted>>
  BY DEF LoopQuits
<1>3. ~Within("task", queue[t])
  BY <1>2, WithinEmpty
<1>4. worker'[t] = "cleanup"
  BY <1>1, <1>2 DEF Types
<1>5. Types'
  BY <1>1, <1>2, <1>3 DEF Types, Workers, Calls
<1>6. \A u \in Threads : u # t => Untouched(u)
  BY <1>1, <1>2 DEF Types, Untouched
<1>7. Phase(t)'
  BY <1>1, <1>2, <1>3, <1>4 DEF Phase
<1>8. Quitting(t)'
  BY <1>1, <1>2, <1>3, <1>4 DEF Quitting, Phase, Told
<1>9. QED BY <1>5, <1>6, <1>7, <1>8, StepOfOne

LEMMA CleanUpReturnsKeeps ==
  ASSUME IInv, NEW t \in Threads, CleanUpReturns(t)
  PROVE  IInv'
<1>1. Types /\ Phase(t) /\ Quitting(t) /\ queue[t] \in Seq({"task", "quit"})
  BY DEF IInv, Types
<1>2. /\ worker[t] = "cleanup"
      /\ worker' = [worker EXCEPT ![t] = "leaving"]
      /\ loop' = [loop EXCEPT ![t] = FALSE]
      /\ UNCHANGED <<startup, id, event, queue, quit, properly, pc, soon, starts, posted>>
  BY DEF CleanUpReturns
<1>4. worker'[t] = "leaving" /\ loop'[t] = FALSE
  BY <1>1, <1>2 DEF Types
<1>5. Types'
  BY <1>1, <1>2 DEF Types, Workers, Calls
<1>6. \A u \in Threads : u # t => Untouched(u)
  BY <1>1, <1>2 DEF Types, Untouched
<1>7. Phase(t)'
  BY <1>1, <1>2, <1>4 DEF Phase
<1>8. Quitting(t)'
  BY <1>1, <1>2, <1>4 DEF Quitting, Phase, Told
<1>9. QED BY <1>5, <1>6, <1>7, <1>8, StepOfOne

LEMMA ThreadEndsKeeps ==
  ASSUME IInv, NEW t \in Threads, ThreadEnds(t)
  PROVE  IInv'
<1>1. Types /\ Phase(t) /\ Quitting(t) /\ queue[t] \in Seq({"task", "quit"})
  BY DEF IInv, Types
<1>2. /\ worker[t] = "leaving"
      /\ id' = [id EXCEPT ![t] = FALSE]
      /\ worker' = [worker EXCEPT ![t] = "ended"]
      /\ UNCHANGED <<startup, loop, event, queue, quit, properly, pc, soon, starts, posted>>
  BY DEF ThreadEnds
<1>4. id'[t] = FALSE /\ worker'[t] = "ended"
  BY <1>1, <1>2 DEF Types
<1>5. Types'
  BY <1>1, <1>2 DEF Types, Workers, Calls
<1>6. \A u \in Threads : u # t => Untouched(u)
  BY <1>1, <1>2 DEF Types, Untouched
<1>7. Phase(t)'
  BY <1>1, <1>2, <1>4 DEF Phase
<1>8. Quitting(t)'
  BY <1>1, <1>2, <1>4 DEF Quitting, Phase, Told
<1>9. QED BY <1>5, <1>6, <1>7, <1>8, StepOfOne

-----------------------------------------------------------------------------
LEMMA NextIInv ==
  ASSUME ~EagerStop
  PROVE  IInv /\ [Next]_vars => IInv'
<1> SUFFICES ASSUME IInv, [Next]_vars PROVE IInv'
  OBVIOUS
<1>1. CASE UNCHANGED vars
  BY <1>1 DEF IInv, Types, Phase, Quitting, Told
<1>2. CASE Next
  <2>1. PICK t \in Threads : Call(t) \/ CallStep(t) \/ WorkerStep(t) \/ UserReturns(t)
    BY <1>2 DEF Next
  <2>2. CASE Call(t)
    BY <2>2, StartKeeps, PostTaskKeeps, StopSoonKeeps, StopKeeps DEF Call
  <2>3. CASE CallStep(t)
    BY <2>3, StartReturnsKeeps, PostQuitKeeps, JoinKeeps DEF CallStep
  <2>4. CASE WorkerStep(t)
    BY <2>4, ThreadMainKeeps, SignalStartedKeeps, RunTaskKeeps, ThreadQuitTaskKeeps,
       LoopQuitsKeeps, ThreadEndsKeeps DEF WorkerStep
  <2>5. CASE UserReturns(t)
    BY <2>5, TaskReturnsKeeps, CleanUpReturnsKeeps DEF UserReturns
  <2>6. QED BY <2>1, <2>2, <2>3, <2>4, <2>5
<1>3. QED BY <1>1, <1>2

LEMMA Invariance ==
  ASSUME ~EagerStop
  PROVE  Spec => []IInv
<1>1. IInv /\ [Next]_vars => IInv'
  BY NextIInv
<1>2. QED BY <1>1, InitIInv, PTL DEF Spec

(* The object is as its header promises in every state, ThreadMain uses       *)
(* startup_data_ only while Start waits, and who posts to a loop posts to one *)
(* that is alive (Start, StopSoon, Stop and ThreadMain in every order).       *)
(* ~EagerStop is what the code needs: Stop tests message_loop_, which an      *)
(* earlier StopSoon may have made stale, and then posts.                     *)
THEOREM ThreadStaysSound ==
  ASSUME ~EagerStop
  PROVE  Spec => []ThreadSound
<1>1. Spec => []IInv
  BY Invariance
<1>2. QED BY <1>1, IInvSound, PTL

(* "All pending tasks queued on the thread's message loop will run to         *)
(* completion before the thread is terminated" (Stop).                       *)
THEOREM TasksRunFirst ==
  ASSUME ~EagerStop
  PROVE  Spec => []PendingTasksRun
<1>1. Spec => []IInv
  BY Invariance
<1>2. QED BY <1>1, IInvSound, PTL

(* "Assert that MessageLoop::Quit was called by ThreadQuitTask" (ThreadMain): *)
(* the flag is set when CleanUp returns, though Start clears the flag of the  *)
(* thread that calls it.                                                     *)
THEOREM QuitsProperly ==
  ASSUME ~EagerStop
  PROVE  Spec => QuitProperly
<1>1. Spec => []IInv
  BY Invariance
<1>2. IInv => [\A t \in Threads : CleanUpReturns(t) => properly[t]]_vars
  BY DEF IInv, CleanUpReturns, Quitting
<1>3. QED BY <1>1, <1>2, PTL DEF QuitProperly

-----------------------------------------------------------------------------
(* Statics.  Its threads' stacks: which call makes which, and that the objects *)
(* whose construction or destruction is under way are each used by the next   *)
(* one down the stack only.                                                  *)
Rank == CHOOSE rank \in [Objects -> 1..Cardinality(Objects)] :
          \A o \in Objects : Uses[o] # NULL => rank[Uses[o]] < rank[o]

Passed == Seq(Nat \X (Values \cup {NULL}))
Pcs == {"got", "load", "swap", "new", "store", "register", "spin", "pop", "take", "delete",
        "check", "grab", "destructor", "key", "create", "read", "write", "loop"}
Locals == {<< >>} \cup {<<i>> : i \in Indexes \cup Values} \cup (Nat \X Passed \X SUBSET Slots)
Frames ==
  [fn : {"use", "get", "callbacks", "exit", "initialize", "table", "getSlot", "setSlot", "exits"},
   on : Objects \cup Slots \cup {NULL, "now", "destructor"}, pc : Pcs, x : Locals]

FrameOK(c) ==
  /\ c.fn = "use" => c.on \in Objects /\ c.pc = "got"
  /\ c.fn = "get" =>
       /\ c.on \in Objects /\ c.pc \in {"load", "swap", "new", "store", "register", "spin"}
       /\ c.pc = "register" => c.on \notin Leaky
  /\ c.fn = "callbacks" => c.pc = "pop"
  /\ c.fn = "exit" => c.on \in Objects /\ c.pc \in {"take", "delete"}
  /\ c.fn = "initialize" => c.on \in Slots /\ c.pc \in {"check", "grab", "destructor"}
  /\ c.fn = "table" => /\ c.pc \in {"key", "swap", "create"}
                       /\ c.pc = "swap" => c.x[1] \in Indexes
  /\ c.fn = "getSlot" => c.on \in Slots /\ c.pc = "read"
  /\ c.fn = "setSlot" => c.on \in Slots /\ c.pc = "write" /\ c.x[1] \in Values
  /\ c.fn = "exits" => c.pc = "loop" /\ c.x \in Nat \X Passed \X SUBSET Slots

(* d is called by c.                                                         *)
CalledBy(d, c) ==
  \/ c.fn = "use" /\ d.fn = "get" /\ d.on = c.on
  \/ c.fn = "get" /\ c.pc = "new" /\ d.fn = "get" /\ d.on = Uses[c.on]
  \/ c.fn = "exit" /\ c.pc = "delete" /\ d.fn = "get" /\ d.on = Uses[c.on]
  \/ c.fn = "callbacks" /\ d.fn = "exit"
  \/ c.fn \in {"getSlot", "setSlot"} /\ d.fn = "table"
  \/ c.fn = "initialize" /\ c.pc = "grab" /\ d.fn = "table"

StackOK(t, s) ==
  /\ s \in Seq(Frames)
  /\ \A k \in 1..Len(s) : FrameOK(s[k])
  /\ \A k \in 1..Len(s) - 1 : CalledBy(s[k + 1], s[k])
  /\ s # << >> => \/ s[1].fn \in {"use", "initialize", "getSlot", "setSlot", "exits"}
                  \/ s[1].fn = "callbacks" /\ t = MainThread
  /\ \A j, k \in 1..Len(s) :
       j < k /\ s[j].fn \in {"get", "exit"} /\ s[k].fn = "get" => Rank[s[k].on] < Rank[s[j].on]

StacksOK ==
  /\ calls \in [OSThreads -> Seq(Frames)]
  /\ \A t \in OSThreads : StackOK(t, calls[t])
  /\ Processing =>
       /\ managers # << >>
       /\ \A t \in OSThreads \ {MainThread} : calls[t] # << >> => calls[t][1].fn = "exits"

-----------------------------------------------------------------------------
(* The objects.  Handles: the call makes the object, registers or destroys it.*)
Handles(c, o) ==
  /\ c.on = o
  /\ c.fn = "exit" \/ (c.fn = "get" /\ c.pc \in {"new", "store", "register"})
Sites(o) == {x \in OSThreads \X Nat : x[2] \in 1..Len(calls[x[1]]) /\ Handles(calls[x[1]][x[2]], o)}
Handled(o) == Sites(o) # {}

(* What a call says of its object.                                           *)
FitsIn(c, cells, lives) ==
  /\ c.fn = "use" /\ cells[c.on] = "created" => lives[c.on] = "alive"
  /\ c.fn = "get" /\ c.pc = "new" => cells[c.on] = "creating" /\ lives[c.on] = "constructing"
  /\ c.fn = "get" /\ c.pc = "store" => cells[c.on] = "creating" /\ lives[c.on] = "alive"
  /\ c.fn = "get" /\ c.pc = "register" => cells[c.on] = "created" /\ lives[c.on] = "alive"
  /\ c.fn = "get" /\ c.pc = "spin" => cells[c.on] # "empty"
  /\ c.fn = "exit" => c.on \notin Leaky
  /\ c.fn = "exit" /\ c.pc = "take" => cells[c.on] = "created" /\ lives[c.on] = "alive"
  /\ c.fn = "exit" /\ c.pc = "delete" =>
       cells[c.on] = (IF c.on \in Lazy THEN "created" ELSE "empty") /\ lives[c.on] = "destroying"
ObjectFits(c) == FitsIn(c, cell, life)

ObjectTypes ==
  /\ cell \in [Objects -> {"empty", "creating", "created"}]
  /\ life \in [Objects -> {"none", "constructing", "alive", "destroying"}]
  /\ managers \in Seq(Seq(Objects)) /\ under \in [Objects -> SUBSET Objects]

CellFits(o) ==
  /\ cell[o] = "empty" => life[o] \in {"none", "destroying"}
  /\ cell[o] = "creating" => life[o] \in {"constructing", "alive"} /\ Handled(o)
  /\ cell[o] = "created" => life[o] = "alive" \/ (o \in Lazy /\ life[o] \in {"none", "destroying"})
  /\ life[o] = "destroying" => Handled(o)

AtIn(ms, m, k, o) == m \in DOMAIN ms /\ k \in DOMAIN ms[m] /\ ms[m][k] = o
At(m, k, o) == AtIn(managers, m, k, o)
InPlace(o) == \E m, k \in Nat : At(m, k, o)
Sooner(m, k, n, j) == m < n \/ (m = n /\ k < j)

CallsFit == \A t \in OSThreads : \A k \in 1..Len(calls[t]) : ObjectFits(calls[t][k])
OneSite == \A o \in Objects : \A x, y \in Sites(o) : x = y
ReliedAlive == \A t \in OSThreads : \A o \in Relies(t) : life[o] = "alive"
Placed == \A o \in Objects : InPlace(o) <=> life[o] = "alive" /\ o \notin Leaky /\ ~Handled(o)
PlacedOnce == \A o \in Objects, m, n, j, k \in Nat : At(m, k, o) /\ At(n, j, o) => m = n /\ k = j

Ordered ==
  \A o \in Objects, q \in Objects \ Leaky :
    o \in under[q] /\ life[q] \in {"constructing", "alive"} =>
      /\ InPlace(o)
      /\ \A m, n, j, k \in Nat : At(m, k, o) /\ At(n, j, q) => Sooner(m, k, n, j)

CellsFit == \A o \in Objects : CellFits(o)
ObjectsInv ==
  ObjectTypes /\ CellsFit /\ CallsFit /\ OneSite /\ ReliedAlive /\ Placed /\ PlacedOnce /\ Ordered

-----------------------------------------------------------------------------
(* The native storage.                                                       *)
Swaps(t, i) == In(t, "table", "swap") /\ Local(t)[1] = i
NativeOK ==
  /\ native = [i \in DOMAIN native |-> native[i]] /\ DOMAIN native \subseteq Indexes
  /\ \A i \in DOMAIN native : native[i] \in [OSThreads -> {NULL, "table"} \cup OSThreads]
  /\ slot \in [Pointers -> Indexes \cup {NULL}] /\ tls_key_ \in Indexes \cup {NULL}
  /\ \A o \in Pointers : slot[o] # NULL <=> life[o] \in {"alive", "destroying"}
  /\ \A t, u \in OSThreads, i \in Indexes : Swaps(t, i) => native[i][u] = NULL

OneHolder ==
  \A i \in Indexes : /\ \A x, y \in Holders(i) : x = y
                     /\ i \in DOMAIN native <=> Holders(i) # {}

NativeInv == NativeOK /\ OneHolder

-----------------------------------------------------------------------------
(* ThreadLocalStorage.                                                       *)
Initializing(c, s) == c.fn = "initialize" /\ c.on = s
Inits(t, s) == calls[t] # << >> /\ Initializing(calls[t][1], s)
Begun(t, s) == Inits(t, s) /\ calls[t][1].pc \in {"check", "grab"}
Late(t, s) == Inits(t, s) /\ calls[t][1].pc = "destructor"
Started == {s \in Slots : \E t \in OSThreads : Begun(t, s)}
Grabbed(s) == \E t \in OSThreads : Late(t, s)
NeedsTable(c) ==
  c.fn \in {"getSlot", "setSlot", "exits"} \/ (c.fn = "initialize" /\ c.pc \in {"grab", "destructor"})

SlotTypes ==
  /\ tls_max_ \in Nat \ {0} /\ ready \subseteq Slots /\ number \in [Slots -> Nat]
  /\ table \in [OSThreads -> [0..Size - 1 -> Values \cup {NULL}] \cup {NULL}]
  /\ wrote \in [OSThreads -> [Slots -> Values \cup {NULL}]]
  /\ tls_destructors_ = {number[s] : s \in ready \cap Cleaned}

(* What the first and the innermost call of t say.                            *)
SlotCallOK(t, c, d) ==
  /\ \A s \in Slots : Initializing(c, s) => s \notin ready
  /\ c.fn \in {"getSlot", "setSlot"} => c.on \in ready
  /\ NeedsTable(d) => table[t] # NULL
  /\ d.fn = "table" => table[t] = NULL
  /\ d.fn = "table" /\ d.pc = "create" => tls_key_ # NULL
OneInitializes == \A t, u \in OSThreads, s \in Slots : Inits(t, s) /\ Inits(u, s) => t = u
SlotCallsOK == \A t \in OSThreads : calls[t] # << >> => SlotCallOK(t, calls[t][1], Last(calls[t]))

NumbersOK ==
  /\ tls_max_ + Cardinality(Started) <= Size
  /\ \A s \in Slots : s \in ready \/ Grabbed(s) => number[s] < tls_max_
  /\ \A s, u \in Slots :
       (s \in ready \/ Grabbed(s)) /\ (u \in ready \/ Grabbed(u)) /\ number[s] = number[u] => s = u

TablesOK ==
  /\ \A t \in OSThreads : table[t] # NULL <=> HasTable(t)
  /\ \A t \in OSThreads, s \in ready :
       wrote[t][s] = IF table[t] = NULL THEN NULL ELSE table[t][number[s]]
  /\ \A t \in OSThreads, n \in 0..Size - 1 :
       table[t] # NULL /\ (n >= tls_max_ \/ \E s \in Slots : Grabbed(s) /\ n = number[s])
         => table[t][n] = NULL

ExitOK(t, n, passed, dueSlots) ==
  /\ n <= tls_max_ /\ dueSlots \subseteq ready \cap Cleaned
  /\ \A k \in DOMAIN passed : passed[k][1] < n
  /\ \A j, k \in DOMAIN passed : passed[j][1] = passed[k][1] => j = k
  /\ \A s \in dueSlots :
       (\E k \in DOMAIN passed : passed[k] = <<number[s], wrote[t][s]>>) <=> number[s] < n
ExitsOK ==
  \A t \in OSThreads : In(t, "exits", "loop") => ExitOK(t, Local(t)[1], Local(t)[2], Local(t)[3])

SlotsInv == SlotTypes /\ SlotCallsOK /\ OneInitializes /\ NumbersOK /\ TablesOK /\ ExitsOK

StaticsInv == StacksOK /\ ObjectsInv /\ NativeInv /\ SlotsInv

-----------------------------------------------------------------------------
(* Who may call while callbacks are processed, and lock_ is held.  An object   *)
(* that is not leaky has what it uses as long as it lives; that is registered  *)
(* below it, or by the same manager; and whoever destroys an object destroys   *)
(* none that is used still.                                                  *)
UsedAlive ==
  \A o \in Objects \ Leaky :
    Uses[o] # NULL /\ life[o] \in {"alive", "destroying"} => life[Uses[o]] = "alive"
UsedBelow ==
  \A o \in Objects, m, k \in Nat :
    At(m, k, o) /\ m # Len(managers) /\ Uses[o] # NULL /\ Uses[o] \notin Leaky =>
      \E n, j \in Nat : n <= m /\ At(n, j, Uses[o])
InTurn == Processing => ~Overtaken

NotUsed(q) == \A o \in Objects \ Leaky : Uses[o] = q => life[o] \notin {"alive", "destroying"}
FreeFor(c, o) ==
  /\ c.fn = "exit" /\ c.pc = "take" => NotUsed(o)
  /\ c.fn = "get" => IF Processing THEN c.pc = "load" ELSE Usable(o)
CallsFree ==
  \A t \in OSThreads : \A k \in 1..Len(calls[t]), o \in Objects :
    calls[t][k].on = o => FreeFor(calls[t][k], o)

LockInv == UsedAlive /\ UsedBelow /\ InTurn /\ CallsFree

-----------------------------------------------------------------------------
(* Steps on a stack: its innermost call goes on, calls another, or returns.   *)
LEMMA FrontAndLast ==
  ASSUME NEW F, NEW s \in Seq(F), s # << >>
  PROVE  /\ Len(s) \in Nat \ {0} /\ Len(s) \in 1..Len(s) /\ Last(s) = s[Len(s)] /\ Last(s) \in F
         /\ Front(s) \in Seq(F) /\ Len(Front(s)) = Len(s) - 1
         /\ \A k \in 1..Len(s) - 1 : Front(s)[k] = s[k]
<1> DEFINE m == Len(s) - 1
<1>1. /\ Len(s) \in Nat \ {0} /\ \A k \in 1..Len(s) : s[k] \in F
  OBVIOUS
<1>2. m \in Nat /\ m <= Len(s) /\ Len(s) \in 1..Len(s)
  BY <1>1
<1>3. \A k \in 1..m : k \in 1..Len(s)
  BY <1>1
<1>4. \A k \in 1..m : s[k] \in F
  BY <1>1, <1>3
<1> HIDE DEF m
<1>5. SubSeq(s, 1, m) \in Seq(F) /\ Len(SubSeq(s, 1, m)) = m /\ \A k \in 1..m : SubSeq(s, 1, m)[k] = s[k]
  BY <1>2, <1>4, SubSeqProperties
<1>6. Len(s) - 1 = m
  BY DEF m
<1>7. Front(s) = SubSeq(s, 1, m) /\ Last(s) = s[Len(s)]
  BY <1>6 DEF Front, Last
<1>8. QED BY <1>1, <1>2, <1>5, <1>6, <1>7

(* s goes on with c, and calls f.                                            *)
LEMMA GoneOn ==
  ASSUME NEW F, NEW s \in Seq(F), s # << >>, NEW c \in F
  PROVE  LET r == Front(s) \o <<c>> \o << >>
         IN  /\ r \in Seq(F) /\ Len(r) = Len(s) /\ r[Len(s)] = c
             /\ \A k \in 1..Len(s) - 1 : r[k] = s[k]
<1> DEFINE g == Front(s)
<1>1. g \in Seq(F) /\ Len(g) = Len(s) - 1 /\ Len(s) \in Nat \ {0} /\ \A k \in 1..Len(s) - 1 : g[k] = s[k]
  BY FrontAndLast
<1> HIDE DEF g
<1>2. g \o <<c>> \o << >> = Append(g, c)
  BY <1>1
<1>3. Append(g, c) \in Seq(F) /\ Len(Append(g, c)) = Len(s) /\ Append(g, c)[Len(s)] = c
      /\ \A k \in 1..Len(s) - 1 : Append(g, c)[k] = g[k]
  BY <1>1
<1>4. QED BY <1>1, <1>2, <1>3 DEF g

LEMMA GoneIn ==
  ASSUME NEW F, NEW s \in Seq(F), s # << >>, NEW c \in F, NEW f \in F
  PROVE  LET r == Front(s) \o <<c>> \o <<f>>
         IN  /\ r \in Seq(F) /\ Len(r) = Len(s) + 1 /\ r[Len(s)] = c /\ r[Len(s) + 1] = f
             /\ \A k \in 1..Len(s) - 1 : r[k] = s[k]
<1> DEFINE q == Front(s) \o <<c>> \o << >>
<1>1. /\ q \in Seq(F) /\ Len(q) = Len(s) /\ q[Len(s)] = c /\ Len(s) \in Nat \ {0}
      /\ \A k \in 1..Len(s) - 1 : q[k] = s[k]
  BY GoneOn, FrontAndLast
<1>2. Front(s) \o <<c>> \o <<f>> = Append(q, f)
  <2>1. Front(s) \in Seq(F)
    BY FrontAndLast
  <2>2. QED BY <2>1
<1> HIDE DEF q
<1>3. Append(q, f) \in Seq(F) /\ Len(Append(q, f)) = Len(s) + 1 /\ Append(q, f)[Len(s) + 1] = f
      /\ \A k \in 1..Len(s) : Append(q, f)[k] = q[k]
  BY <1>1
<1>4. \A k \in 1..Len(s) - 1 : k \in 1..Len(s)
  BY <1>1
<1>5. Len(s) \in 1..Len(s)
  BY <1>1
<1>6. QED BY <1>1, <1>2, <1>3, <1>4, <1>5

LEMMA StackTop ==
  ASSUME NEW t, NEW s, StackOK(t, s), s # << >>
  PROVE  /\ s \in Seq(Frames) /\ Len(s) \in Nat \ {0} /\ Len(s) \in 1..Len(s) /\ 1 \in 1..Len(s)
         /\ Last(s) = s[Len(s)] /\ Last(s) \in Frames /\ FrameOK(Last(s))
<1>1. s \in Seq(Frames) /\ \A k \in 1..Len(s) : FrameOK(s[k])
  BY DEF StackOK
<1>2. Len(s) \in Nat \ {0} /\ Len(s) \in 1..Len(s) /\ Last(s) = s[Len(s)] /\ Last(s) \in Frames
  BY <1>1, FrontAndLast
<1>3. 1 \in 1..Len(s)
  BY <1>2
<1>4. QED BY <1>1, <1>2, <1>3

(* Where the kinds of calls are in a stack.                                   *)
LEMMA Positions ==
  ASSUME NEW t, NEW s, StackOK(t, s), NEW k \in 1..Len(s)
  PROVE  /\ s[k].fn \in {"use", "callbacks", "initialize", "getSlot", "setSlot", "exits"} => k = 1
         /\ s[k].fn = "exit" => k = 2 /\ s[1].fn = "callbacks" /\ t = MainThread
         /\ s[k].fn = "table" => k = 2 /\ s[1].fn \in {"initialize", "getSlot", "setSlot"}
         /\ s[k].fn = "get" => k > 1
         /\ s[1].fn = "exits" => k = 1
<1>1. s \in Seq(Frames)
  BY DEF StackOK
<1>2. Len(s) \in Nat
  BY <1>1
<1>3. Len(s) \in Nat \ {0} /\ k \in Nat \ {0} /\ k <= Len(s)
  BY <1>2
<1>4. s # << >>
  BY <1>3
<1>5. /\ \A j \in 1..Len(s) - 1 : CalledBy(s[j + 1], s[j])
      /\ s[1].fn \in {"use", "initialize", "getSlot", "setSlot", "exits"}
           \/ (s[1].fn = "callbacks" /\ t = MainThread)
  BY <1>4 DEF StackOK
<1>6. CASE k = 1
  BY <1>5, <1>6
<1>7. CASE k # 1
  <2>1. k - 1 \in 1..Len(s) - 1 /\ k - 1 + 1 = k /\ k > 1
    BY <1>3, <1>7
  <2>2. CalledBy(s[k], s[k - 1])
    BY <1>5, <2>1
  <2>3. ASSUME s[k - 1].fn \in {"use", "callbacks", "initialize", "getSlot", "setSlot", "exits"}
        PROVE  k - 1 = 1
    <3>1. CASE k - 1 = 1
      BY <3>1
    <3>2. CASE k - 1 # 1
      <4>1. k - 2 \in 1..Len(s) - 1 /\ k - 2 + 1 = k - 1
        BY <1>3, <2>1, <3>2
      <4>2. CalledBy(s[k - 1], s[k - 2])
        BY <1>5, <4>1
      <4>3. QED BY <2>3, <4>2 DEF CalledBy
    <3>3. QED BY <3>1, <3>2
  <2>4. s[k].fn \in {"get", "exit", "table"}
    BY <2>2 DEF CalledBy
  <2>5. s[k].fn = "exit" => s[k - 1].fn = "callbacks"
    BY <2>2 DEF CalledBy
  <2>6. s[k].fn = "table" => s[k - 1].fn \in {"initialize", "getSlot", "setSlot"}
    BY <2>2 DEF CalledBy
  <2>7. s[1].fn # "exits"
    <3>1. 1 \in 1..Len(s) - 1 /\ 1 + 1 = 2
      BY <1>3, <2>1
    <3>2. CalledBy(s[2], s[1])
      BY <1>5, <3>1
    <3>3. QED BY <3>2 DEF CalledBy
  <2>8. k - 1 = 1 => k = 2
    BY <2>1
  <2>9. s[k].fn = "exit" => k = 2 /\ s[1].fn = "callbacks" /\ t = MainThread
    BY <1>5, <2>3, <2>5, <2>8
  <2>10. s[k].fn = "table" => k = 2 /\ s[1].fn \in {"initialize", "getSlot", "setSlot"}
    BY <2>3, <2>6, <2>8
  <2>11. QED BY <2>1, <2>4, <2>7, <2>9, <2>10
<1>8. QED BY <1>6, <1>7

LEMMA StackGoesOn ==
  ASSUME NEW t, NEW s, StackOK(t, s), s # << >>, NEW c \in Frames, FrameOK(c),
         c.fn = Last(s).fn, c.on = Last(s).on
  PROVE  StackOK(t, Front(s) \o <<c>> \o << >>)
<1> DEFINE r == Front(s) \o <<c>> \o << >>
<1>1. /\ s \in Seq(Frames) /\ Len(s) \in Nat \ {0} /\ Last(s) = s[Len(s)]
  BY StackTop
<1>2. /\ r \in Seq(Frames) /\ Len(r) = Len(s) /\ r[Len(s)] = c
      /\ \A k \in 1..Len(s) - 1 : r[k] = s[k]
  BY <1>1, GoneOn
<1> HIDE DEF r
<1>3. \A k \in 1..Len(s) : k # Len(s) => k \in 1..Len(s) - 1
  BY <1>1
<1>4. \A k \in 1..Len(s) : r[k].fn = s[k].fn /\ r[k].on = s[k].on /\ (k # Len(s) => r[k] = s[k])
  BY <1>1, <1>2, <1>3
<1>5. \A k \in 1..Len(r) : FrameOK(r[k])
  BY <1>1, <1>2, <1>4 DEF StackOK
<1>6. ASSUME NEW k \in 1..Len(r) - 1 PROVE CalledBy(r[k + 1], r[k])
  <2>1. k \in 1..Len(s) - 1 /\ k + 1 \in 1..Len(s)
    BY <1>1, <1>2
  <2>2. CalledBy(s[k + 1], s[k])
    BY <2>1 DEF StackOK
  <2>3. r[k] = s[k] /\ r[k + 1].fn = s[k + 1].fn /\ r[k + 1].on = s[k + 1].on
    BY <1>2, <1>4, <2>1
  <2>4. QED BY <2>2, <2>3 DEF CalledBy
<1>7. 1 \in 1..Len(s) /\ r # << >>
  BY <1>1, <1>2
<1>8. r[1].fn \in {"use", "initialize", "getSlot", "setSlot", "exits"} \/ (r[1].fn = "callbacks" /\ t = MainThread)
  BY <1>4, <1>7 DEF StackOK
<1>9. \A j, k \in 1..Len(r) :
        j < k /\ r[j].fn \in {"get", "exit"} /\ r[k].fn = "get" => Rank[r[k].on] < Rank[r[j].on]
  BY <1>2, <1>4 DEF StackOK
<1>10. StackOK(t, r)
  BY <1>2, <1>5, <1>6, <1>8, <1>9 DEF StackOK
<1>11. QED BY <1>10 DEF r

LEMMA StackReturns ==
  ASSUME NEW t, NEW s, StackOK(t, s), s # << >>
  PROVE  StackOK(t, Front(s))
<1> DEFINE r == Front(s)
<1>1. /\ s \in Seq(Frames) /\ Len(s) \in Nat \ {0}
  BY StackTop
<1>2. r \in Seq(Frames) /\ Len(r) = Len(s) - 1 /\ \A k \in 1..Len(s) - 1 : r[k] = s[k]
  BY <1>1, FrontAndLast
<1> HIDE DEF r
<1>3. \A k \in 1..Len(r) : k \in 1..Len(s) /\ r[k] = s[k]
  BY <1>1, <1>2
<1>4. \A k \in 1..Len(r) : FrameOK(r[k])
  BY <1>3 DEF StackOK
<1>5. \A k \in 1..Len(r) - 1 : CalledBy(r[k + 1], r[k])
  <2>1. TAKE k \in 1..Len(r) - 1
  <2>2. k \in 1..Len(s) - 1 /\ k \in 1..Len(r) /\ k + 1 \in 1..Len(r)
    BY <1>1, <1>2
  <2>3. QED BY <1>3, <2>2 DEF StackOK
<1>6. r # << >> => r[1] = s[1]
  BY <1>1, <1>2
<1>7. StackOK(t, r)
  BY <1>2, <1>3, <1>4, <1>5, <1>6 DEF StackOK
<1>8. QED BY <1>7 DEF r

LEMMA RankFact ==
  ASSUME NEW o \in Objects
  PROVE  Rank[o] \in Nat /\ (Uses[o] # NULL => Uses[o] \in Objects /\ Rank[Uses[o]] < Rank[o])
<1>1. \E rank \in [Objects -> 1..Cardinality(Objects)] :
        \A p \in Objects : Uses[p] # NULL => rank[Uses[p]] < rank[p]
  BY ObjectsAssumption
<1>2. /\ Rank \in [Objects -> 1..Cardinality(Objects)]
      /\ \A p \in Objects : Uses[p] # NULL => Rank[Uses[p]] < Rank[p]
  BY <1>1 DEF Rank
<1>3. Rank[o] \in 1..Cardinality(Objects)
  BY <1>2
<1>4. Cardinality(Objects) \in Nat
  BY ObjectsAssumption, FS_CardinalityType
<1>5. Rank[o] \in Nat
  BY <1>3, <1>4
<1>6. Uses \in [Objects -> Objects \cup {NULL}]
  BY ObjectsAssumption
<1>7. QED BY <1>2, <1>5, <1>6

LEMMA StackCalls ==
  ASSUME NEW t, NEW s, StackOK(t, s), s # << >>, NEW f \in Frames, FrameOK(f), CalledBy(f, s[Len(s)])
  PROVE  StackOK(t, Append(s, f))
<1> DEFINE r == Append(s, f)
<1>1. s \in Seq(Frames) /\ Len(s) \in Nat \ {0} /\ Len(s) \in 1..Len(s) /\ 1 \in 1..Len(s)
  BY StackTop
<1>2. r \in Seq(Frames) /\ Len(r) = Len(s) + 1 /\ r[Len(s) + 1] = f /\ \A k \in 1..Len(s) : r[k] = s[k]
  BY <1>1
<1>3. r # << >>
  BY <1>1, <1>2
<1> HIDE DEF r
<1>4. \A k \in 1..Len(r) : k \in 1..Len(s) \/ k = Len(s) + 1
  BY <1>1, <1>2
<1>5. \A k \in 1..Len(r) : FrameOK(r[k])
  BY <1>2, <1>4 DEF StackOK
<1>6. ASSUME NEW k \in 1..Len(r) - 1 PROVE CalledBy(r[k + 1], r[k])
  <2>1. CASE k = Len(s)
    BY <1>1, <1>2, <2>1
  <2>2. CASE k # Len(s)
    <3>1. k \in 1..Len(s) - 1 /\ k \in 1..Len(s) /\ k + 1 \in 1..Len(s)
      BY <1>1, <1>2, <2>2
    <3>2. QED BY <1>2, <3>1 DEF StackOK
  <2>3. QED BY <2>1, <2>2
<1>7. r[1].fn \in {"use", "initialize", "getSlot", "setSlot", "exits"} \/ (r[1].fn = "callbacks" /\ t = MainThread)
  BY <1>1, <1>2 DEF StackOK
<1>8. ASSUME NEW j \in 1..Len(r), NEW k \in 1..Len(r), j < k, r[j].fn \in {"get", "exit"}, r[k].fn = "get"
      PROVE  Rank[r[k].on] < Rank[r[j].on]
  <2>1. j \in 1..Len(s) /\ r[j] = s[j]
    BY <1>1, <1>2, <1>8
  <2>2. CASE k \in 1..Len(s)
    BY <1>2, <1>8, <2>1, <2>2 DEF StackOK
  <2>3. CASE k = Len(s) + 1
    <3> DEFINE c == s[Len(s)]
    <3>1. f.fn = "get" /\ r[k] = f
      BY <1>2, <1>8, <2>3
    <3>2. c.fn # "use"
      <4>1. SUFFICES ASSUME c.fn = "use" PROVE FALSE
        OBVIOUS
      <4>2. Len(s) = 1
        BY <1>1, <4>1, Positions
      <4>3. j = 1
        BY <2>1, <4>2
      <4>4. QED BY <1>8, <2>1, <4>1, <4>2, <4>3
    <3>3. f.on = Uses[c.on] /\ c.fn \in {"get", "exit"}
      BY <3>1, <3>2 DEF CalledBy
    <3>4. c.on \in Objects /\ f.on \in Objects
      BY <1>1, <3>1, <3>3 DEF StackOK, FrameOK
    <3>5. Rank[f.on] < Rank[c.on] /\ Rank[f.on] \in Nat /\ Rank[c.on] \in Nat
      BY <3>3, <3>4, RankFact, ObjectsAssumption
    <3>6. CASE j = Len(s)
      BY <2>1, <3>1, <3>5, <3>6
    <3>7. CASE j # Len(s)
      <4>1. j < Len(s)
        BY <1>1, <2>1, <3>7
      <4>2. c.fn # "exit"
        <5>1. SUFFICES ASSUME c.fn = "exit" PROVE FALSE
          OBVIOUS
        <5>2. Len(s) = 2 /\ s[1].fn = "callbacks"
          BY <1>1, <5>1, Positions
        <5>3. j = 1
          BY <2>1, <4>1, <5>2
        <5>4. QED BY <1>8, <2>1, <5>2, <5>3
      <4>3. c.fn = "get" /\ s[j].fn \in {"get", "exit"}
        BY <1>8, <2>1, <3>3, <4>2
      <4>4. Rank[c.on] < Rank[s[j].on]
        BY <1>1, <2>1, <4>1, <4>3 DEF StackOK
      <4>5. s[j].on \in Objects
        BY <2>1, <4>3 DEF StackOK, FrameOK
      <4>6. Rank[s[j].on] \in Nat
        BY <4>5, RankFact
      <4>7. Rank[f.on] < Rank[s[j].on]
        BY <3>5, <4>4, <4>6
      <4>8. QED BY <2>1, <3>1, <4>7
    <3>8. QED BY <3>6, <3>7
  <2>4. QED BY <1>4, <2>2, <2>3
<1>9. StackOK(t, r)
  BY <1>2, <1>5, <1>6, <1>7, <1>8 DEF StackOK
<1>10. QED BY <1>9 DEF r

LEMMA StackGoesIn ==
  ASSUME NEW t, NEW s, StackOK(t, s), s # << >>, NEW c \in Frames, FrameOK(c),
         c.fn = Last(s).fn, c.on = Last(s).on, NEW f \in Frames, FrameOK(f), CalledBy(f, c)
  PROVE  StackOK(t, Front(s) \o <<c>> \o <<f>>)
<1> DEFINE q == Front(s) \o <<c>> \o << >>
<1>1. s \in Seq(Frames) /\ Len(s) \in Nat \ {0}
  BY StackTop
<1>2. StackOK(t, q)
  BY StackGoesOn
<1>3. q \in Seq(Frames) /\ Len(q) = Len(s) /\ q[Len(s)] = c
  BY <1>1, GoneOn
<1>4. Front(s) \in Seq(Frames)
  BY <1>1, FrontAndLast
<1>5. Front(s) \o <<c>> \o <<f>> = Append(q, f)
  BY <1>4
<1> HIDE DEF q
<1>6. q # << >>
  BY <1>1, <1>3
<1>7. StackOK(t, Append(q, f))
  BY <1>2, <1>3, <1>6, StackCalls
<1>8. QED BY <1>5, <1>7

LEMMA StackStarts ==
  ASSUME NEW t, NEW f \in Frames, FrameOK(f),
         f.fn \in {"use", "initialize", "getSlot", "setSlot", "exits"} \/ (f.fn = "callbacks" /\ t = MainThread)
  PROVE  StackOK(t, <<f>>)
<1>1. <<f>> \in Seq(Frames) /\ Len(<<f>>) = 1 /\ <<f>>[1] = f
  OBVIOUS
<1>2. \A k \in 1..1 : k = 1
  OBVIOUS
<1>3. \A k \in 1..1 - 1 : FALSE
  OBVIOUS
<1>4. \A j, k \in 1..1 : ~(j < k)
  OBVIOUS
<1>5. QED BY <1>1, <1>2, <1>3, <1>4 DEF StackOK

(* t's stack keeps its first n calls and gets those in new on top of them.      *)
Moved(t, n, new) ==
  /\ n \in Nat /\ Len(calls[t]) \in {n, n + 1} /\ Len(calls'[t]) = n + Len(new)
  /\ \A k \in 1..n : calls'[t][k] = calls[t][k]
  /\ \A j \in 1..Len(new) : calls'[t][n + j] = new[j]
  /\ \A u \in OSThreads \ {t} : calls'[u] = calls[u]
(* Other threads' stacks are as they were.                                   *)
OnlyOf(t) == /\ calls' \in [OSThreads -> Seq(Frames)] /\ StackOK(t, calls'[t])
             /\ \A u \in OSThreads \ {t} : calls'[u] = calls[u]
(* Its innermost call only goes on, calls, or returns.                        *)
SameFirst(t) == calls'[t] # << >> => calls'[t][1].fn = calls[t][1].fn
TopIs(t, n, fn, p) == /\ calls[t] # << >> /\ Len(calls[t]) = n + 1 /\ n \in Nat
                      /\ calls[t][n + 1] = Last(calls[t])
                      /\ calls[t][n + 1].fn = fn /\ calls[t][n + 1].pc = p

LEMMA InTop ==
  ASSUME StacksOK, NEW t \in OSThreads, NEW fn, NEW pc_, In(t, fn, pc_)
  PROVE  TopIs(t, Len(calls[t]) - 1, fn, pc_) /\ Last(calls[t]) \in Frames /\ FrameOK(Last(calls[t]))
<1>1. calls[t] # << >> /\ Last(calls[t]).fn = fn /\ Last(calls[t]).pc = pc_
  BY DEF In
<1>2. StackOK(t, calls[t])
  BY DEF StacksOK
<1>3. /\ Len(calls[t]) \in Nat \ {0} /\ Last(calls[t]) = calls[t][Len(calls[t])]
      /\ Last(calls[t]) \in Frames /\ FrameOK(Last(calls[t]))
  BY <1>1, <1>2, StackTop
<1>4. Len(calls[t]) - 1 \in Nat /\ Len(calls[t]) = Len(calls[t]) - 1 + 1
  BY <1>3
<1>5. QED BY <1>1, <1>3, <1>4 DEF TopIs

(* A stack whose innermost call is now c, and one whose c has called f.        *)
OnWith(s, c) == Front(s) \o <<c>> \o << >>
InWith(s, c, f) == Front(s) \o <<c>> \o <<f>>
IsOnWith(s, c, r) == /\ r \in Seq(Frames) /\ Len(r) = Len(s) /\ r[Len(s)] = c /\ r[1].fn = s[1].fn
                     /\ \A k \in 1..Len(s) - 1 : r[k] = s[k]
IsInWith(s, c, f, r) == /\ r \in Seq(Frames) /\ Len(r) = Len(s) + 1 /\ r[1].fn = s[1].fn
                        /\ r[Len(s)] = c /\ r[Len(s) + 1] = f /\ \A k \in 1..Len(s) - 1 : r[k] = s[k]

LEMMA MoreThanOne == \A n \in Nat \ {0} : n # 1 => 1 \in 1..n - 1
OBVIOUS

LEMMA GoneOnStack ==
  ASSUME NEW t, NEW s, StackOK(t, s), s # << >>, NEW c \in Frames, FrameOK(c),
         c.fn = Last(s).fn, c.on = Last(s).on, NEW r, r = OnWith(s, c)
  PROVE  StackOK(t, r) /\ IsOnWith(s, c, r)
<1>1. s \in Seq(Frames) /\ Len(s) \in Nat \ {0} /\ Last(s) = s[Len(s)]
  BY StackTop
<1>2. r \in Seq(Frames) /\ Len(r) = Len(s) /\ r[Len(s)] = c /\ \A k \in 1..Len(s) - 1 : r[k] = s[k]
  BY <1>1, GoneOn DEF OnWith
<1>3. StackOK(t, r)
  BY StackGoesOn DEF OnWith
<1>4. ASSUME Len(s) = 1 PROVE r[1].fn = s[1].fn
  BY <1>1, <1>2, <1>4
<1>5. ASSUME Len(s) # 1 PROVE r[1].fn = s[1].fn
  <2>1. Len(s) \in Nat \ {0}
    BY <1>1
  <2>2. 1 \in 1..Len(s) - 1
    BY <2>1, <1>5, MoreThanOne
  <2>3. QED BY <1>2, <2>2
<1>6. r[1].fn = s[1].fn
  BY <1>4, <1>5
<1>7. QED BY <1>2, <1>3, <1>6 DEF IsOnWith, IsInWith

LEMMA GoneInStack ==
  ASSUME NEW t, NEW s, StackOK(t, s), s # << >>, NEW c \in Frames, FrameOK(c),
         c.fn = Last(s).fn, c.on = Last(s).on, NEW f \in Frames, FrameOK(f), CalledBy(f, c),
         NEW r, r = InWith(s, c, f)
  PROVE  StackOK(t, r) /\ IsInWith(s, c, f, r)
<1>1. s \in Seq(Frames) /\ Len(s) \in Nat \ {0} /\ Last(s) = s[Len(s)]
  BY StackTop
<1>2. /\ r \in Seq(Frames) /\ Len(r) = Len(s) + 1 /\ r[Len(s)] = c /\ r[Len(s) + 1] = f
      /\ \A k \in 1..Len(s) - 1 : r[k] = s[k]
  BY <1>1, GoneIn DEF InWith
<1>3. StackOK(t, r)
  BY StackGoesIn DEF InWith
<1>4. ASSUME Len(s) = 1 PROVE r[1].fn = s[1].fn
  BY <1>1, <1>2, <1>4
<1>5. ASSUME Len(s) # 1 PROVE r[1].fn = s[1].fn
  <2>1. Len(s) \in Nat \ {0}
    BY <1>1
  <2>2. 1 \in 1..Len(s) - 1
    BY <2>1, <1>5, MoreThanOne
  <2>3. QED BY <1>2, <2>2
<1>6. r[1].fn = s[1].fn
  BY <1>4, <1>5
<1>7. QED BY <1>2, <1>3, <1>6 DEF IsOnWith, IsInWith

LEMMA WentOn ==
  ASSUME StacksOK, NEW t \in OSThreads, calls[t] # << >>, NEW pc_, NEW x, GoTo(t, pc_, x, << >>),
         Frame(Last(calls[t]).fn, Last(calls[t]).on, pc_, x) \in Frames,
         FrameOK(Frame(Last(calls[t]).fn, Last(calls[t]).on, pc_, x))
  PROVE  /\ OnlyOf(t) /\ SameFirst(t)
         /\ Moved(t, Len(calls[t]) - 1, <<Frame(Last(calls[t]).fn, Last(calls[t]).on, pc_, x)>>)
<1> DEFINE s == calls[t]
           r == calls'[t]
<1>1. PICK c \in Frames : /\ c = Frame(Last(calls[t]).fn, Last(calls[t]).on, pc_, x)
                          /\ c.fn = Last(calls[t]).fn /\ c.on = Last(calls[t]).on
  BY DEF Frame
<1>2. calls \in [OSThreads -> Seq(Frames)] /\ StackOK(t, calls[t])
  BY DEF StacksOK
<1>3. FrameOK(c) /\ calls' = [calls EXCEPT ![t] = Front(calls[t]) \o <<c>> \o << >>]
  BY <1>1 DEF GoTo
<1>4. /\ calls'[t] = Front(calls[t]) \o <<c>> \o << >>
      /\ \A u \in OSThreads \ {t} : calls'[u] = calls[u]
  BY <1>2, <1>3
<1>5. StackOK(t, calls'[t])
  BY <1>1, <1>2, <1>3, <1>4, StackGoesOn
<1>6. Len(s) \in Nat \ {0} /\ s \in Seq(Frames)
  BY <1>2, StackTop
<1>7. /\ r \in Seq(Frames) /\ Len(r) = Len(s) /\ r[Len(s)] = c /\ r[1].fn = s[1].fn
      /\ \A k \in 1..Len(s) - 1 : r[k] = s[k]
  <2>1. FrameOK(c) /\ s # << >> /\ StackOK(t, s) /\ c.fn = Last(s).fn /\ c.on = Last(s).on
    BY <1>1, <1>2, <1>3
  <2>2. r = OnWith(s, c)
    BY <1>4 DEF OnWith
  <2>3. IsOnWith(s, c, r)
    BY <1>1, <2>1, <2>2, GoneOnStack
  <2>4. QED BY <2>3 DEF IsOnWith
<1>9. calls' \in [OSThreads -> Seq(Frames)]
  BY <1>2, <1>3, <1>4, <1>7
<1>10. Moved(t, Len(calls[t]) - 1, <<c>>)
  <2>1. Len(s) - 1 \in Nat /\ Len(s) = Len(s) - 1 + 1 /\ Len(<<c>>) = 1 /\ <<c>>[1] = c
    BY <1>6
  <2>2. \A j \in 1..Len(<<c>>) : r[Len(s) - 1 + j] = <<c>>[j]
    BY <1>6, <1>7, <2>1
  <2>3. QED BY <1>4, <1>7, <2>1, <2>2 DEF Moved
<1>11. QED BY <1>1, <1>4, <1>5, <1>7, <1>9, <1>10 DEF OnlyOf, SameFirst

LEMMA WentIn ==
  ASSUME StacksOK, NEW t \in OSThreads, calls[t] # << >>, NEW pc_, NEW x, NEW f \in Frames, FrameOK(f),
         GoTo(t, pc_, x, <<f>>),
         Frame(Last(calls[t]).fn, Last(calls[t]).on, pc_, x) \in Frames,
         FrameOK(Frame(Last(calls[t]).fn, Last(calls[t]).on, pc_, x)),
         CalledBy(f, Frame(Last(calls[t]).fn, Last(calls[t]).on, pc_, x))
  PROVE  /\ OnlyOf(t) /\ SameFirst(t)
         /\ Moved(t, Len(calls[t]) - 1, <<Frame(Last(calls[t]).fn, Last(calls[t]).on, pc_, x), f>>)
<1> DEFINE s == calls[t]
           r == calls'[t]
<1>1. PICK c \in Frames : /\ c = Frame(Last(calls[t]).fn, Last(calls[t]).on, pc_, x)
                          /\ c.fn = Last(calls[t]).fn /\ c.on = Last(calls[t]).on
  BY DEF Frame
<1>2. calls \in [OSThreads -> Seq(Frames)] /\ StackOK(t, calls[t])
  BY DEF StacksOK
<1>3. FrameOK(c) /\ calls' = [calls EXCEPT ![t] = Front(calls[t]) \o <<c>> \o <<f>>] /\ CalledBy(f, c)
  BY <1>1 DEF GoTo
<1>4. /\ calls'[t] = Front(calls[t]) \o <<c>> \o <<f>>
      /\ \A u \in OSThreads \ {t} : calls'[u] = calls[u]
  BY <1>2, <1>3
<1>5. StackOK(t, calls'[t])
  BY <1>1, <1>2, <1>3, <1>4, StackGoesIn
<1>6. Len(s) \in Nat \ {0} /\ s \in Seq(Frames)
  BY <1>2, StackTop
<1>7. /\ r \in Seq(Frames) /\ Len(r) = Len(s) + 1 /\ r[Len(s)] = c /\ r[Len(s) + 1] = f
      /\ r[1].fn = s[1].fn /\ \A k \in 1..Len(s) - 1 : r[k] = s[k]
  <2>1. FrameOK(c) /\ s # << >> /\ StackOK(t, s) /\ c.fn = Last(s).fn /\ c.on = Last(s).on /\ CalledBy(f, c)
    BY <1>1, <1>2, <1>3
  <2>2. r = InWith(s, c, f)
    BY <1>4 DEF InWith
  <2>3. IsInWith(s, c, f, r)
    BY <1>1, <2>1, <2>2, GoneInStack
  <2>4. QED BY <2>3 DEF IsInWith
<1>9. calls' \in [OSThreads -> Seq(Frames)]
  BY <1>2, <1>3, <1>4, <1>7
<1>10. Moved(t, Len(calls[t]) - 1, <<c, f>>)
  <2>1. Len(s) - 1 \in Nat /\ Len(s) = Len(s) - 1 + 1 /\ Len(<<c, f>>) = 2 /\ <<c, f>>[1] = c /\ <<c, f>>[2] = f
    BY <1>6
  <2>2. \A j \in 1..2 : j = 1 \/ j = 2
    OBVIOUS
  <2>3. Len(s) - 1 + 1 = Len(s) /\ Len(s) - 1 + 2 = Len(s) + 1
    BY <1>6
  <2>4. \A j \in 1..Len(<<c, f>>) : r[Len(s) - 1 + j] = <<c, f>>[j]
    BY <1>7, <2>1, <2>2, <2>3
  <2>5. QED BY <1>4, <1>7, <2>1, <2>3, <2>4 DEF Moved
<1>11. QED BY <1>1, <1>4, <1>5, <1>7, <1>9, <1>10 DEF OnlyOf, SameFirst

LEMMA CameBack ==
  ASSUME StacksOK, NEW t \in OSThreads, calls[t] # << >>, Return(t)
  PROVE  /\ OnlyOf(t) /\ SameFirst(t)
         /\ Moved(t, Len(calls[t]) - 1, << >>)
<1> DEFINE s == calls[t]
           r == calls'[t]
<1>1. calls \in [OSThreads -> Seq(Frames)] /\ StackOK(t, calls[t])
  BY DEF StacksOK
<1>2. /\ calls' = [calls EXCEPT ![t] = Front(calls[t])] /\ calls'[t] = Front(calls[t])
      /\ \A u \in OSThreads \ {t} : calls'[u] = calls[u]
  BY <1>1 DEF Return
<1>3. StackOK(t, calls'[t])
  BY <1>1, <1>2, StackReturns
<1>4. Len(s) \in Nat \ {0} /\ s \in Seq(Frames)
  BY <1>1, StackTop
<1>5. r \in Seq(Frames) /\ Len(r) = Len(s) - 1 /\ \A k \in 1..Len(s) - 1 : r[k] = s[k]
  BY <1>2, <1>4, FrontAndLast
<1>6. r # << >> => r[1].fn = s[1].fn
  BY <1>4, <1>5
<1>7. calls' \in [OSThreads -> Seq(Frames)]
  BY <1>1, <1>2, <1>5
<1>8. Moved(t, Len(calls[t]) - 1, << >>)
  <2>1. Len(s) - 1 \in Nat /\ Len(s) = Len(s) - 1 + 1 /\ Len(<< >>) = 0
    BY <1>4
  <2>2. \A j \in 1..0 : FALSE
    OBVIOUS
  <2>3. Len(s) - 1 + 0 = Len(s) - 1
    BY <1>4
  <2>4. \A j \in 1..Len(<< >>) : r[Len(s) - 1 + j] = << >>[j]
    BY <2>1, <2>2
  <2>5. Len(r) = Len(s) - 1 + Len(<< >>)
    BY <1>5, <2>1, <2>3
  <2>6. QED BY <1>2, <1>5, <2>1, <2>4, <2>5 DEF Moved
<1>9. QED BY <1>2, <1>3, <1>6, <1>7, <1>8 DEF OnlyOf, SameFirst

LEMMA Began ==
  ASSUME StacksOK, NEW t \in OSThreads, calls[t] = << >>, NEW r, StackOK(t, r),
         calls' = [calls EXCEPT ![t] = r]
  PROVE  OnlyOf(t) /\ Moved(t, 0, r) /\ calls'[t] = r
<1>1. calls \in [OSThreads -> Seq(Frames)] /\ r \in Seq(Frames)
  BY DEF StacksOK, StackOK
<1>2. calls'[t] = r /\ calls' \in [OSThreads -> Seq(Frames)] /\ \A u \in OSThreads \ {t} : calls'[u] = calls[u]
  BY <1>1
<1>3. Len(r) \in Nat
  BY <1>1
<1>4. Len(calls[t]) = 0 /\ Len(r) = 0 + Len(r) /\ (\A k \in 1..0 : FALSE) /\ \A j \in 1..Len(r) : 0 + j = j
  BY <1>3
<1>5. QED BY <1>2, <1>4 DEF OnlyOf, Moved

(* Callbacks are processed at the bottom of main()'s stack.                    *)
LEMMA ProcessingFirst ==
  ASSUME NEW s, StackOK(MainThread, s)
  PROVE  (\E k \in DOMAIN s : s[k].fn = "callbacks") <=> s # << >> /\ s[1].fn = "callbacks"
<1>1. s \in Seq(Frames)
  BY DEF StackOK
<1>2. DOMAIN s = 1..Len(s) /\ Len(s) \in Nat
  BY <1>1
<1>3. \A k \in DOMAIN s : s[k].fn = "callbacks" => k = 1
  BY <1>2, Positions
<1>4. s # << >> => 1 \in DOMAIN s
  BY <1>1, <1>2
<1>5. \A k \in DOMAIN s : s # << >>
  BY <1>1, <1>2
<1>6. QED BY <1>3, <1>4, <1>5

LEMMA WhoProcesses ==
  ASSUME StacksOK, Processing
  PROVE  /\ calls[MainThread] # << >> /\ calls[MainThread][1].fn = "callbacks"
         /\ \A t \in OSThreads : calls[t] # << >> /\ t # MainThread => calls[t][1].fn = "exits"
<1>1. StackOK(MainThread, calls[MainThread])
  BY OSThreadsAssumption DEF StacksOK
<1>2. QED BY <1>1, ProcessingFirst DEF StacksOK, Processing, Holds

LEMMA StillProcessing ==
  ASSUME StacksOK, NEW t \in OSThreads, calls[t] # << >>, OnlyOf(t), SameFirst(t), Processing'
  PROVE  Processing /\ calls'[MainThread] # << >> /\ calls'[MainThread][1].fn = "callbacks"
<1>1. StackOK(MainThread, calls[MainThread]) /\ MainThread \in OSThreads
  BY OSThreadsAssumption DEF StacksOK
<1>2. StackOK(MainThread, calls'[MainThread])
  BY <1>1 DEF OnlyOf
<1>3. calls'[MainThread] # << >> /\ calls'[MainThread][1].fn = "callbacks"
  BY <1>2, ProcessingFirst DEF Processing, Holds
<1>4. calls[MainThread] # << >> /\ calls[MainThread][1].fn = "callbacks"
  BY <1>1, <1>3 DEF OnlyOf, SameFirst
<1>5. QED BY <1>1, <1>3, <1>4, ProcessingFirst DEF Processing, Holds

LEMMA StacksStayIn ==
  ASSUME StacksOK, NEW t \in OSThreads, calls[t] # << >>, OnlyOf(t), SameFirst(t),
         managers # << >> /\ calls'[MainThread] # << >> => managers' # << >>
  PROVE  StacksOK'
<1>1. calls' \in [OSThreads -> Seq(Frames)] /\ \A u \in OSThreads : StackOK(u, calls'[u])
  BY DEF OnlyOf, StacksOK
<1>2. ASSUME Processing'
      PROVE  managers' # << >> /\ \A u \in OSThreads \ {MainThread} : calls'[u] # << >> => calls'[u][1].fn = "exits"
  <2>1. Processing /\ calls'[MainThread] # << >>
    BY <1>2, StillProcessing
  <2>2. managers # << >> /\ \A u \in OSThreads \ {MainThread} : calls[u] # << >> => calls[u][1].fn = "exits"
    BY <2>1 DEF StacksOK
  <2>3. QED BY <2>1, <2>2 DEF OnlyOf, SameFirst
<1>3. StacksOK' <=>
        /\ calls' \in [OSThreads -> Seq(Frames)]
        /\ \A u \in OSThreads : StackOK(u, calls'[u])
        /\ Processing' =>
             managers' # << >> /\ \A u \in OSThreads \ {MainThread} : calls'[u] # << >> => calls'[u][1].fn = "exits"
  BY DEF StacksOK, StackOK, Frames, Pcs, Locals, FrameOK, CalledBy, Rank, Passed
<1>4. QED BY <1>1, <1>2, <1>3

LEMMA StacksStayFrom ==
  ASSUME StacksOK, NEW t \in OSThreads, calls[t] = << >>, OnlyOf(t), managers' = managers,
         \/ calls'[t] # << >> => calls'[t][1].fn = "exits"
         \/ MayCall /\ (calls'[t] # << >> => calls'[t][1].fn # "callbacks")
         \/ MayCall /\ OthersIdle /\ t = MainThread
  PROVE  StacksOK'
<1>1. calls' \in [OSThreads -> Seq(Frames)] /\ \A u \in OSThreads : StackOK(u, calls'[u])
  BY DEF OnlyOf, StacksOK
<1>2. ASSUME Processing'
      PROVE  managers' # << >> /\ \A u \in OSThreads \ {MainThread} : calls'[u] # << >> => calls'[u][1].fn = "exits"
  <2>1. StackOK(MainThread, calls[MainThread]) /\ MainThread \in OSThreads /\ StackOK(MainThread, calls'[MainThread])
    BY <1>1, OSThreadsAssumption DEF StacksOK
  <2>2. calls'[MainThread] # << >> /\ calls'[MainThread][1].fn = "callbacks"
    BY <1>2, <2>1, ProcessingFirst DEF Processing, Holds
  <2>3. CASE MayCall /\ OthersIdle /\ t = MainThread
    BY <2>3 DEF OnlyOf, MayCall, OthersIdle, Idle
  <2>4. CASE MayCall /\ (calls'[t] # << >> => calls'[t][1].fn # "callbacks")
    <3>1. t # MainThread
      BY <2>2, <2>4
    <3>2. calls'[MainThread] = calls[MainThread]
      BY <2>1, <3>1 DEF OnlyOf
    <3>3. Processing
      BY <2>1, <2>2, <3>2, ProcessingFirst DEF Processing, Holds
    <3>4. QED BY <2>4, <3>3 DEF MayCall
  <2>5. CASE calls'[t] # << >> => calls'[t][1].fn = "exits"
    <3>1. t # MainThread
      BY <2>2, <2>5
    <3>2. calls'[MainThread] = calls[MainThread]
      BY <2>1, <3>1 DEF OnlyOf
    <3>3. Processing
      BY <2>1, <2>2, <3>2, ProcessingFirst DEF Processing, Holds
    <3>4. QED BY <2>5, <3>3 DEF StacksOK, OnlyOf
  <2>6. QED BY <2>3, <2>4, <2>5
<1>3. StacksOK' <=>
        /\ calls' \in [OSThreads -> Seq(Frames)]
        /\ \A u \in OSThreads : StackOK(u, calls'[u])
        /\ Processing' =>
             managers' # << >> /\ \A u \in OSThreads \ {MainThread} : calls'[u] # << >> => calls'[u][1].fn = "exits"
  BY DEF StacksOK, StackOK, Frames, Pcs, Locals, FrameOK, CalledBy, Rank, Passed
<1>4. QED BY <1>1, <1>2, <1>3

(* The calls that make or destroy an object, after a step.                     *)
LEMMA SiteAfter ==
  ASSUME NEW t \in OSThreads, NEW n, NEW new, Len(new) \in Nat, Moved(t, n, new),
         NEW o, NEW u \in OSThreads, NEW k \in Nat
  PROVE  /\ <<u, k>> \in Sites(o)' <=>
              \/ <<u, k>> \in Sites(o) /\ (u # t \/ k <= n)
              \/ u = t /\ \E j \in 1..Len(new) : k = n + j /\ Handles(new[j], o)
         /\ <<u, k>> \in Sites(o) /\ ~(u # t \/ k <= n) => u = t /\ k = n + 1 /\ Len(calls[t]) = n + 1
<1>1. /\ n \in Nat /\ Len(calls[t]) \in {n, n + 1} /\ Len(calls'[t]) = n + Len(new)
      /\ \A i \in 1..n : calls'[t][i] = calls[t][i]
      /\ \A j \in 1..Len(new) : calls'[t][n + j] = new[j]
  BY DEF Moved
<1>2. /\ <<u, k>> \in Sites(o) <=> k \in 1..Len(calls[u]) /\ Handles(calls[u][k], o)
      /\ <<u, k>> \in Sites(o)' <=> k \in 1..Len(calls'[u]) /\ Handles(calls'[u][k], o)
  BY DEF Sites, Handles
<1>3. CASE u # t
  <2>1. calls'[u] = calls[u]
    BY <1>3 DEF Moved
  <2>2. QED BY <1>2, <1>3, <2>1
<1>4. CASE u = t
  <2>1. CASE k <= n
    <3>1. \A j \in 1..Len(new) : k # n + j
      BY <1>1, <2>1
    <3>2. k \in 1..Len(calls'[t]) <=> k \in 1..n
      BY <1>1, <2>1
    <3>3. k \in 1..Len(calls[t]) <=> k \in 1..n
      BY <1>1, <2>1
    <3>4. QED BY <1>1, <1>2, <1>4, <2>1, <3>1, <3>2, <3>3
  <2>2. CASE ~(k <= n)
    <3>1. \A j \in 1..Len(new) : k = n + j => k \in 1..Len(calls'[t]) /\ calls'[t][k] = new[j]
      BY <1>1
    <3>2. k \in 1..Len(calls'[t]) => k - n \in 1..Len(new) /\ k = n + (k - n)
      BY <1>1, <2>2
    <3>3. k \in 1..Len(calls[t]) => k = n + 1 /\ Len(calls[t]) = n + 1
      BY <1>1, <2>2
    <3>4. <<u, k>> \in Sites(o)' <=> \E j \in 1..Len(new) : k = n + j /\ Handles(new[j], o)
      BY <1>2, <1>4, <3>1, <3>2
    <3>5. QED BY <1>2, <1>4, <2>2, <3>3, <3>4
  <2>3. QED BY <2>1, <2>2
<1>5. QED BY <1>3, <1>4

LEMMA SitesPairs ==
  ASSUME NEW o
  PROVE  /\ \A x \in Sites(o) : x \in OSThreads \X Nat /\ x = <<x[1], x[2]>> /\ x[1] \in OSThreads /\ x[2] \in Nat
         /\ \A x \in Sites(o)' : x \in OSThreads \X Nat /\ x = <<x[1], x[2]>> /\ x[1] \in OSThreads /\ x[2] \in Nat
<1>1. \A x \in OSThreads \X Nat : x = <<x[1], x[2]>> /\ x[1] \in OSThreads /\ x[2] \in Nat
  OBVIOUS
<1>2. \A x \in Sites(o) : x \in OSThreads \X Nat
  BY DEF Sites
<1>3. \A x \in Sites(o)' : x \in OSThreads \X Nat
  BY DEF Sites
<1>4. QED BY <1>1, <1>2, <1>3

(* The innermost call of t, above its first n, is one of them.                 *)
TopHandles(t, n, o) == Len(calls[t]) = n + 1 /\ Handles(calls[t][n + 1], o)

LEMMA SitesSame ==
  ASSUME NEW t \in OSThreads, NEW n, NEW new, Len(new) \in Nat, Moved(t, n, new), NEW o,
         TopHandles(t, n, o) <=> Len(new) > 0 /\ Handles(new[1], o),
         \A j \in 1..Len(new) : Handles(new[j], o) => j = 1
  PROVE  Sites(o)' = Sites(o)
<1>1. n \in Nat
  BY DEF Moved
<1>2. ASSUME NEW u \in OSThreads, NEW k \in Nat PROVE <<u, k>> \in Sites(o)' <=> <<u, k>> \in Sites(o)
  <2>1. (\E j \in 1..Len(new) : k = n + j /\ Handles(new[j], o)) <=> k = n + 1 /\ TopHandles(t, n, o)
    <3>1. ASSUME NEW j \in 1..Len(new), k = n + j, Handles(new[j], o) PROVE k = n + 1 /\ TopHandles(t, n, o)
      <4>1. j = 1
        BY <3>1
      <4>2. Len(new) > 0
        BY <3>1, <4>1
      <4>3. QED BY <3>1, <4>1, <4>2
    <3>2. ASSUME k = n + 1, TopHandles(t, n, o) PROVE \E j \in 1..Len(new) : k = n + j /\ Handles(new[j], o)
      <4>1. Len(new) > 0 /\ Handles(new[1], o)
        BY <3>2
      <4>2. 1 \in 1..Len(new)
        BY <4>1
      <4>3. QED BY <3>2, <4>1, <4>2
    <3>3. QED BY <3>1, <3>2
  <2>2. <<u, k>> \in Sites(o) /\ ~(u # t \/ k <= n) <=> u = t /\ k = n + 1 /\ TopHandles(t, n, o)
    <3>1. ASSUME u = t, k = n + 1, TopHandles(t, n, o) PROVE <<u, k>> \in Sites(o) /\ ~(u # t \/ k <= n)
      <4>1. k \in 1..Len(calls[u]) /\ ~(k <= n)
        BY <1>1, <3>1 DEF TopHandles
      <4>2. Handles(calls[u][k], o)
        BY <3>1 DEF TopHandles
      <4>3. <<u, k>> \in Sites(o)
        BY <4>1, <4>2 DEF Sites
      <4>4. QED BY <3>1, <4>1, <4>3
    <3>2. ASSUME <<u, k>> \in Sites(o), ~(u # t \/ k <= n) PROVE u = t /\ k = n + 1 /\ TopHandles(t, n, o)
      <4>1. u = t /\ k = n + 1 /\ Len(calls[t]) = n + 1
        <5>1. <<u, k>> \in Sites(o) /\ ~(u # t \/ k <= n) => u = t /\ k = n + 1 /\ Len(calls[t]) = n + 1
          BY SiteAfter
        <5>2. QED BY <3>2, <5>1
      <4>2. Handles(calls[u][k], o)
        BY <3>2 DEF Sites
      <4>3. QED BY <4>1, <4>2 DEF TopHandles
    <3>3. QED BY <3>1, <3>2
  <2>3. <<u, k>> \in Sites(o)' <=>
          \/ <<u, k>> \in Sites(o) /\ (u # t \/ k <= n)
          \/ u = t /\ k = n + 1 /\ TopHandles(t, n, o)
    BY <2>1, SiteAfter
  <2>4. QED BY <2>2, <2>3
<1>3. \A x \in Sites(o)' : x \in Sites(o)
  BY <1>2, SitesPairs
<1>4. \A x \in Sites(o) : x \in Sites(o)'
  BY <1>2, SitesPairs
<1>5. QED BY <1>3, <1>4

LEMMA SitesGained ==
  ASSUME NEW t \in OSThreads, NEW n, NEW new, Len(new) \in Nat, Moved(t, n, new), NEW o,
         ~TopHandles(t, n, o), NEW i \in 1..Len(new), \A j \in 1..Len(new) : Handles(new[j], o) <=> j = i
  PROVE  Sites(o)' = Sites(o) \cup {<<t, n + i>>}
<1>1. n \in Nat /\ i \in Nat
  BY DEF Moved
<1>2. ASSUME NEW u \in OSThreads, NEW k \in Nat
      PROVE  <<u, k>> \in Sites(o)' <=> <<u, k>> \in Sites(o) \/ (u = t /\ k = n + i)
  <2>1. (\E j \in 1..Len(new) : k = n + j /\ Handles(new[j], o)) <=> k = n + i
    OBVIOUS
  <2>2. <<u, k>> \in Sites(o) => u # t \/ k <= n
    <3>1. ASSUME <<u, k>> \in Sites(o), ~(u # t \/ k <= n) PROVE FALSE
      <4>1. u = t /\ k = n + 1 /\ Len(calls[t]) = n + 1
        BY <3>1, SiteAfter
      <4>2. Handles(calls[u][k], o)
        BY <3>1 DEF Sites
      <4>3. QED BY <4>1, <4>2 DEF TopHandles
    <3>2. QED BY <3>1
  <2>3. QED BY <2>1, <2>2, SiteAfter
<1>3. <<t, n + i>> \in OSThreads \X Nat
  BY <1>1
<1>4. QED BY <1>2, <1>3, SitesPairs

LEMMA SitesGainedFirst ==
  ASSUME NEW t \in OSThreads, NEW n, NEW new, Len(new) \in Nat, Moved(t, n, new), NEW o,
         ~TopHandles(t, n, o), 1 \in 1..Len(new), \A j \in 1..Len(new) : Handles(new[j], o) <=> j = 1
  PROVE  Sites(o)' = Sites(o) \cup {<<t, n + 1>>}
BY SitesGained

LEMMA SitesLost ==
  ASSUME NEW t \in OSThreads, NEW n, NEW new, Len(new) \in Nat, Moved(t, n, new), NEW o,
         TopHandles(t, n, o), \A j \in 1..Len(new) : ~Handles(new[j], o), \A x, y \in Sites(o) : x = y
  PROVE  Sites(o)' = {}
<1>1. n \in Nat
  BY DEF Moved
<1>2. <<t, n + 1>> \in Sites(o) /\ ~(n + 1 <= n) /\ n + 1 \in Nat
  <2>1. n + 1 \in 1..Len(calls[t]) /\ n + 1 \in Nat
    BY <1>1 DEF TopHandles
  <2>2. QED BY <1>1, <2>1 DEF TopHandles, Sites
<1>3. ASSUME NEW u \in OSThreads, NEW k \in Nat, <<u, k>> \in Sites(o)' PROVE FALSE
  <2>1. <<u, k>> \in Sites(o) /\ (u # t \/ k <= n)
    BY <1>3, SiteAfter
  <2>2. u = t /\ k = n + 1
    BY <1>2, <2>1
  <2>3. QED BY <1>2, <2>1, <2>2
<1>4. QED BY <1>3, SitesPairs

-----------------------------------------------------------------------------
(* The managers' stacks, of which steps change the top one.                    *)
TopReplaced(ms, q) == Front(ms) \o <<q>>
LEMMA AtTopReplaced ==
  ASSUME NEW O, NEW ms \in Seq(Seq(O)), ms # << >>, NEW q \in Seq(O)
  PROVE  /\ TopReplaced(ms, q) \in Seq(Seq(O)) /\ TopReplaced(ms, q) # << >>
         /\ Len(ms) \in Nat \ {0} /\ Last(ms) = ms[Len(ms)] /\ Last(ms) \in Seq(O)
         /\ DOMAIN ms = 1..Len(ms)
         /\ \A m, k, o : AtIn(TopReplaced(ms, q), m, k, o) <=>
              \/ m # Len(ms) /\ AtIn(ms, m, k, o)
              \/ m = Len(ms) /\ k \in 1..Len(q) /\ q[k] = o
<1> DEFINE r == TopReplaced(ms, q)
<1>1. /\ Len(ms) \in Nat \ {0} /\ Last(ms) = ms[Len(ms)] /\ Last(ms) \in Seq(O)
      /\ Front(ms) \in Seq(Seq(O)) /\ Len(Front(ms)) = Len(ms) - 1
      /\ \A k \in 1..Len(ms) - 1 : Front(ms)[k] = ms[k]
  BY FrontAndLast
<1>2. /\ r \in Seq(Seq(O)) /\ Len(r) = Len(ms) /\ r[Len(ms)] = q
      /\ \A k \in 1..Len(ms) - 1 : r[k] = ms[k]
  <2>1. r = Append(Front(ms), q)
    BY <1>1 DEF TopReplaced
  <2> HIDE DEF r
  <2>2. QED BY <1>1, <2>1
<1> HIDE DEF r
<1>3. DOMAIN ms = 1..Len(ms) /\ DOMAIN r = 1..Len(ms) /\ DOMAIN q = 1..Len(q)
  BY <1>2
<1>4. Len(ms) \in 1..Len(ms) /\ \A m \in 1..Len(ms) : m # Len(ms) => m \in 1..Len(ms) - 1
  BY <1>1
<1>5. ASSUME NEW m, NEW k, NEW o
      PROVE  AtIn(r, m, k, o) <=>
               \/ m # Len(ms) /\ AtIn(ms, m, k, o)
               \/ m = Len(ms) /\ k \in 1..Len(q) /\ q[k] = o
  <2>1. CASE m = Len(ms)
    BY <1>2, <1>3, <1>4, <2>1 DEF AtIn
  <2>2. CASE m # Len(ms)
    <3>1. m \in DOMAIN ms => r[m] = ms[m]
      BY <1>2, <1>3, <1>4, <2>2
    <3>2. QED BY <1>3, <2>2, <3>1 DEF AtIn
  <2>3. QED BY <2>1, <2>2
<1>6. r # << >>
  BY <1>1, <1>2
<1>7. QED BY <1>1, <1>2, <1>3, <1>5, <1>6 DEF r

LEMMA AtBounds ==
  ASSUME NEW O, NEW ms \in Seq(Seq(O)), NEW m, NEW k, NEW o, AtIn(ms, m, k, o)
  PROVE  /\ m \in Nat /\ k \in Nat /\ Len(ms) \in Nat /\ m <= Len(ms) /\ o \in O /\ ms # << >>
         /\ Last(ms) = ms[Len(ms)] /\ Last(ms) \in Seq(O) /\ Len(Last(ms)) \in Nat
         /\ m = Len(ms) => k <= Len(Last(ms)) /\ Last(ms) # << >> /\ Last(ms)[k] = o
<1>1. Len(ms) \in Nat /\ DOMAIN ms = 1..Len(ms)
  OBVIOUS
<1>2. m \in 1..Len(ms) /\ k \in DOMAIN ms[m] /\ ms[m][k] = o
  BY <1>1 DEF AtIn
<1>3. ms[m] \in Seq(O)
  BY <1>2
<1>4. ms # << >>
  BY <1>1, <1>2
<1>5. Last(ms) = ms[Len(ms)] /\ Last(ms) \in Seq(O)
  BY <1>4, FrontAndLast
<1>6. Len(Last(ms)) \in Nat /\ Len(ms[m]) \in Nat /\ DOMAIN ms[m] = 1..Len(ms[m])
  BY <1>3, <1>5
<1>7. k \in 1..Len(ms[m])
  BY <1>2, <1>6
<1>8. o \in O
  BY <1>2, <1>3, <1>7
<1>9. m = Len(ms) => k <= Len(Last(ms)) /\ Last(ms)[k] = o /\ Last(ms) # << >>
  <2>1. SUFFICES ASSUME m = Len(ms) PROVE k <= Len(Last(ms)) /\ Last(ms)[k] = o /\ Last(ms) # << >>
    OBVIOUS
  <2>2. ms[m] = Last(ms)
    BY <1>5, <2>1
  <2>3. k \in 1..Len(Last(ms)) /\ Last(ms)[k] = o
    BY <1>2, <1>7, <2>2
  <2>4. Last(ms) # << >>
    BY <1>6, <2>3
  <2>5. QED BY <1>6, <2>3, <2>4
<1>10. m \in Nat /\ k \in Nat /\ m <= Len(ms)
  BY <1>1, <1>2, <1>6, <1>7
<1>11. QED BY <1>1, <1>4, <1>5, <1>6, <1>8, <1>9, <1>10

LEMMA AtRegistered ==
  ASSUME NEW O, NEW ms \in Seq(Seq(O)), ms # << >>, NEW p_ \in O
  PROVE  /\ TopReplaced(ms, Append(Last(ms), p_)) \in Seq(Seq(O))
         /\ Len(ms) \in Nat /\ Len(Last(ms)) + 1 \in Nat
         /\ \A m, k, o : AtIn(TopReplaced(ms, Append(Last(ms), p_)), m, k, o) <=>
              \/ AtIn(ms, m, k, o)
              \/ m = Len(ms) /\ k = Len(Last(ms)) + 1 /\ p_ = o
<1> DEFINE l == Last(ms)
           q == Append(l, p_)
<1>1. Len(ms) \in Nat \ {0} /\ l \in Seq(O) /\ l = ms[Len(ms)] /\ Len(ms) \in DOMAIN ms
  <2>1. Len(ms) \in Nat \ {0} /\ l \in Seq(O) /\ l = ms[Len(ms)] /\ Len(ms) \in 1..Len(ms)
    BY FrontAndLast
  <2>2. DOMAIN ms = 1..Len(ms)
    OBVIOUS
  <2>3. QED BY <2>1, <2>2
<1> HIDE DEF l
<1>2. q \in Seq(O) /\ Len(q) = Len(l) + 1 /\ q[Len(l) + 1] = p_ /\ (\A k \in 1..Len(l) : q[k] = l[k])
      /\ Len(l) \in Nat /\ DOMAIN l = 1..Len(l)
  BY <1>1
<1> HIDE DEF q
<1>3. TopReplaced(ms, q) \in Seq(Seq(O))
  BY <1>2, AtTopReplaced
<1>4. \A k : k \in 1..Len(q) <=> k \in 1..Len(l) \/ k = Len(l) + 1
  BY <1>2
<1>5. \A k \in 1..Len(l) : k # Len(l) + 1
  BY <1>2
<1>6. ASSUME NEW m, NEW k, NEW o
      PROVE  AtIn(TopReplaced(ms, q), m, k, o) <=>
               \/ AtIn(ms, m, k, o)
               \/ m = Len(ms) /\ k = Len(l) + 1 /\ p_ = o
  <2>1. AtIn(TopReplaced(ms, q), m, k, o) <=>
          \/ m # Len(ms) /\ AtIn(ms, m, k, o)
          \/ m = Len(ms) /\ k \in 1..Len(q) /\ q[k] = o
    BY <1>2, AtTopReplaced
  <2>2. m = Len(ms) => (AtIn(ms, m, k, o) <=> k \in 1..Len(l) /\ l[k] = o)
    BY <1>1, <1>2 DEF AtIn
  <2>3. k \in 1..Len(q) /\ q[k] = o <=> (k \in 1..Len(l) /\ l[k] = o) \/ (k = Len(l) + 1 /\ p_ = o)
    BY <1>2, <1>4, <1>5
  <2>4. QED BY <2>1, <2>2, <2>3
<1>7. Len(l) + 1 \in Nat
  BY <1>2
<1>8. QED BY <1>1, <1>3, <1>6, <1>7 DEF q, l

LEMMA AtPopped ==
  ASSUME NEW O, NEW ms \in Seq(Seq(O)), ms # << >>, Last(ms) # << >>
  PROVE  /\ TopReplaced(ms, RemoveAt(Last(ms), Len(Last(ms)))) \in Seq(Seq(O))
         /\ TopReplaced(ms, RemoveAt(Last(ms), Len(Last(ms)))) # << >>
         /\ AtIn(ms, Len(ms), Len(Last(ms)), Last(ms)[Len(Last(ms))])
         /\ \A m, k, o : AtIn(TopReplaced(ms, RemoveAt(Last(ms), Len(Last(ms)))), m, k, o) <=>
              AtIn(ms, m, k, o) /\ ~(m = Len(ms) /\ k = Len(Last(ms)))
<1> DEFINE l == Last(ms)
           q == RemoveAt(l, Len(l))
<1>1. Len(ms) \in Nat \ {0} /\ l \in Seq(O) /\ l = ms[Len(ms)] /\ Len(ms) \in DOMAIN ms
  <2>1. Len(ms) \in Nat \ {0} /\ l \in Seq(O) /\ l = ms[Len(ms)] /\ Len(ms) \in 1..Len(ms)
    BY FrontAndLast
  <2>2. DOMAIN ms = 1..Len(ms)
    OBVIOUS
  <2>3. QED BY <2>1, <2>2
<1>2. l # << >>
  OBVIOUS
<1> HIDE DEF l
<1>3. Len(l) \in Nat \ {0} /\ Len(l) \in 1..Len(l) /\ DOMAIN l = 1..Len(l)
  <2>1. Len(l) \in Nat \ {0} /\ Len(l) \in 1..Len(l)
    BY <1>1, <1>2, FrontAndLast
  <2>2. DOMAIN l = 1..Len(l)
    BY <1>1
  <2>3. QED BY <2>1, <2>2
<1>4. q \in Seq(O) /\ Len(q) = Len(l) - 1 /\ \A k \in 1..Len(l) - 1 : q[k] = l[k]
  <2>1. q = SubSeq(l, 1, Len(l) - 1) \o SubSeq(l, Len(l) + 1, Len(l))
    BY DEF RemoveAt
  <2>2. SubSeq(l, Len(l) + 1, Len(l)) = << >>
    BY <1>1, <1>3
  <2>3. Front(l) = SubSeq(l, 1, Len(l) - 1)
    BY DEF Front
  <2>4. Front(l) \in Seq(O) /\ Len(Front(l)) = Len(l) - 1 /\ \A k \in 1..Len(l) - 1 : Front(l)[k] = l[k]
    BY <1>1, <1>2, FrontAndLast
  <2>5. Front(l) \o << >> = Front(l)
    BY <2>4
  <2>6. q = Front(l)
    BY <2>1, <2>2, <2>3, <2>5
  <2> HIDE DEF q
  <2>7. QED BY <2>4, <2>6
<1> HIDE DEF q
<1>5. TopReplaced(ms, q) \in Seq(Seq(O)) /\ TopReplaced(ms, q) # << >>
  BY <1>4, AtTopReplaced
<1>6. \A k : k \in 1..Len(q) <=> k \in 1..Len(l) /\ k # Len(l)
  BY <1>3, <1>4
<1>7. ASSUME NEW m, NEW k, NEW o
      PROVE  AtIn(TopReplaced(ms, q), m, k, o) <=> AtIn(ms, m, k, o) /\ ~(m = Len(ms) /\ k = Len(l))
  <2>1. AtIn(TopReplaced(ms, q), m, k, o) <=>
          \/ m # Len(ms) /\ AtIn(ms, m, k, o)
          \/ m = Len(ms) /\ k \in 1..Len(q) /\ q[k] = o
    BY <1>4, AtTopReplaced
  <2>2. m = Len(ms) => (AtIn(ms, m, k, o) <=> k \in 1..Len(l) /\ l[k] = o)
    BY <1>1, <1>3 DEF AtIn
  <2>3. k \in 1..Len(q) /\ q[k] = o <=> k \in 1..Len(l) /\ l[k] = o /\ k # Len(l)
    BY <1>4, <1>6
  <2>4. QED BY <2>1, <2>2, <2>3
<1>8. AtIn(ms, Len(ms), Len(l), l[Len(l)])
  BY <1>1, <1>3 DEF AtIn
<1>9. QED BY <1>5, <1>7, <1>8 DEF q, l

LEMMA AtDropped ==
  ASSUME NEW O, NEW ms \in Seq(Seq(O)), ms # << >>, Last(ms) = << >>
  PROVE  Front(ms) \in Seq(Seq(O)) /\ \A m, k, o : AtIn(Front(ms), m, k, o) <=> AtIn(ms, m, k, o)
<1>1. /\ Len(ms) \in Nat \ {0} /\ Last(ms) = ms[Len(ms)]
      /\ Front(ms) \in Seq(Seq(O)) /\ Len(Front(ms)) = Len(ms) - 1
      /\ \A k \in 1..Len(ms) - 1 : Front(ms)[k] = ms[k]
  BY FrontAndLast
<1>2. DOMAIN ms = 1..Len(ms) /\ DOMAIN Front(ms) = 1..Len(ms) - 1
  BY <1>1
<1>3. \A m : m \in 1..Len(ms) <=> m \in 1..Len(ms) - 1 \/ m = Len(ms)
  BY <1>1
<1>4. DOMAIN ms[Len(ms)] = {}
  BY <1>1
<1>5. ASSUME NEW m, NEW k, NEW o PROVE AtIn(Front(ms), m, k, o) <=> AtIn(ms, m, k, o)
  <2>1. CASE m = Len(ms)
    <3>1. m \notin 1..Len(ms) - 1
      BY <1>1, <2>1
    <3>2. QED BY <1>2, <1>4, <2>1, <3>1 DEF AtIn
  <2>2. CASE m # Len(ms)
    BY <1>1, <1>2, <1>3, <2>2 DEF AtIn
  <2>3. QED BY <2>1, <2>2
<1>6. QED BY <1>1, <1>5

LEMMA AtShadowed ==
  ASSUME NEW O, NEW ms \in Seq(Seq(O))
  PROVE  /\ Append(ms, << >>) \in Seq(Seq(O)) /\ Append(ms, << >>) # << >>
         /\ \A m, k, o : AtIn(Append(ms, << >>), m, k, o) <=> AtIn(ms, m, k, o)
<1> DEFINE r == Append(ms, << >>)
<1>1. << >> \in Seq(O) /\ Len(ms) \in Nat /\ DOMAIN ms = 1..Len(ms)
  OBVIOUS
<1>2. r \in Seq(Seq(O)) /\ Len(r) = Len(ms) + 1 /\ r[Len(ms) + 1] = << >> /\ \A k \in 1..Len(ms) : r[k] = ms[k]
  BY <1>1
<1> HIDE DEF r
<1>3. DOMAIN r = 1..Len(ms) + 1 /\ r # << >>
  BY <1>1, <1>2
<1>4. \A m : m \in 1..Len(ms) + 1 <=> m \in 1..Len(ms) \/ m = Len(ms) + 1
  BY <1>1
<1>5. DOMAIN r[Len(ms) + 1] = {} /\ Len(ms) + 1 \notin 1..Len(ms)
  BY <1>1, <1>2
<1>6. ASSUME NEW m, NEW k, NEW o PROVE AtIn(r, m, k, o) <=> AtIn(ms, m, k, o)
  BY <1>1, <1>2, <1>3, <1>4, <1>5 DEF AtIn
<1>7. QED BY <1>2, <1>3, <1>6 DEF r

-----------------------------------------------------------------------------
(* The objects, after a step of t that keeps the first n calls of its stack.   *)
Kept(t, n, u, k) == u \in OSThreads /\ k \in 1..Len(calls[u]) /\ (u # t \/ k <= n)

LEMMA KeptFrames ==
  ASSUME NEW t \in OSThreads, NEW n, NEW new, Len(new) \in Nat, Moved(t, n, new),
         NEW u \in OSThreads, NEW k \in 1..Len(calls'[u]), StacksOK
  PROVE  \/ Kept(t, n, u, k) /\ calls'[u][k] = calls[u][k]
         \/ u = t /\ \E j \in 1..Len(new) : k = n + j /\ calls'[u][k] = new[j]
<1>1. /\ n \in Nat /\ Len(calls[t]) \in {n, n + 1} /\ Len(calls'[t]) = n + Len(new)
      /\ \A i \in 1..n : calls'[t][i] = calls[t][i]
      /\ \A j \in 1..Len(new) : calls'[t][n + j] = new[j]
  BY DEF Moved
<1>2. CASE u # t
  <2>1. calls'[u] = calls[u]
    BY <1>2 DEF Moved
  <2>2. QED BY <1>2, <2>1 DEF Kept
<1>3. CASE u = t
  <2>1. k \in 1..n + Len(new)
    BY <1>1, <1>3
  <2>2. CASE k <= n
    <3>1. k \in 1..n /\ k \in 1..Len(calls[t])
      BY <1>1, <2>1, <2>2
    <3>2. QED BY <1>1, <1>3, <2>2, <3>1 DEF Kept
  <2>3. CASE ~(k <= n)
    <3>1. k - n \in 1..Len(new) /\ k = n + (k - n)
      BY <1>1, <2>1, <2>3
    <3>2. QED BY <1>1, <1>3, <3>1
  <2>4. QED BY <2>2, <2>3
<1>4. QED BY <1>2, <1>3

LEMMA FrameIn ==
  ASSUME StacksOK, NEW u \in OSThreads, NEW k \in 1..Len(calls[u])
  PROVE  calls[u][k] \in Frames /\ FrameOK(calls[u][k]) /\ calls[u] # << >> /\ k \in Nat /\ Len(calls[u]) \in Nat
<1>1. calls[u] \in Seq(Frames) /\ FrameOK(calls[u][k])
  BY DEF StacksOK, StackOK
<1>2. Len(calls[u]) \in Nat
  BY <1>1
<1>3. k \in Nat /\ calls[u] # << >> /\ calls[u][k] \in Frames
  BY <1>1, <1>2
<1>4. QED BY <1>1, <1>2, <1>3

(* An object handled by t's innermost call is not handled by another one.      *)
LEMMA KeptDoNotHandle ==
  ASSUME NEW t \in OSThreads, NEW n \in Nat, NEW o, \A x, y \in Sites(o) : x = y,
         TopHandles(t, n, o) \/ Sites(o) = {},
         NEW u, NEW k, Kept(t, n, u, k)
  PROVE  ~Handles(calls[u][k], o)
<1>1. SUFFICES ASSUME Handles(calls[u][k], o), k \in Nat PROVE FALSE
  BY DEF Kept
<1>2. <<u, k>> \in Sites(o)
  BY <1>1 DEF Kept, Sites
<1>3. TopHandles(t, n, o)
  BY <1>2
<1>4. <<t, n + 1>> \in Sites(o)
  <2>1. n + 1 \in 1..Len(calls[t]) /\ n + 1 \in Nat
    BY <1>3 DEF TopHandles
  <2>2. QED BY <1>3, <2>1 DEF Sites, TopHandles
<1>5. u = t /\ k = n + 1
  BY <1>2, <1>4
<1>6. QED BY <1>1, <1>5 DEF Kept

LEMMA FitsStill ==
  ASSUME NEW c, NEW cells, NEW lives, NEW laterCells, NEW laterLives,
         \/ FitsIn(c, cells, lives) /\ laterCells[c.on] = cells[c.on] /\ laterLives[c.on] = lives[c.on]
         \/ c.fn \notin {"use", "get", "exit"}
         \/ /\ ~Handles(c, c.on) /\ laterCells[c.on] # "empty"
            /\ laterCells[c.on] = "created" => laterLives[c.on] = "alive"
  PROVE  FitsIn(c, laterCells, laterLives)
<1>1. CASE FitsIn(c, cells, lives) /\ laterCells[c.on] = cells[c.on] /\ laterLives[c.on] = lives[c.on]
  BY <1>1 DEF FitsIn
<1>2. CASE c.fn \notin {"use", "get", "exit"}
  BY <1>2 DEF FitsIn
<1>3. CASE /\ ~Handles(c, c.on) /\ laterCells[c.on] # "empty"
           /\ laterCells[c.on] = "created" => laterLives[c.on] = "alive"
  BY <1>3 DEF FitsIn, Handles
<1>4. QED BY <1>1, <1>2, <1>3

(* What calls say of o stays true when they do not handle it.                  *)
LEMMA CallsFitAfter ==
  ASSUME ObjectsInv, StacksOK, NEW t \in OSThreads, NEW n, NEW new, Len(new) \in Nat, Moved(t, n, new),
         NEW o, \A q \in Objects : q # o => cell'[q] = cell[q] /\ life'[q] = life[q],
         \A u, k : Kept(t, n, u, k) => ~Handles(calls[u][k], o) \/ (cell'[o] = cell[o] /\ life'[o] = life[o]),
         \/ cell'[o] = cell[o] /\ life'[o] = life[o]
         \/ cell'[o] # "empty" /\ (cell'[o] = "created" => life'[o] = "alive")
         \/ \A u, k : Kept(t, n, u, k) => calls[u][k].fn \in {"callbacks", "exits"},
         \A j \in 1..Len(new) : FitsIn(new[j], cell', life')
  PROVE  CallsFit'
<1>1. ASSUME NEW u, NEW k, Kept(t, n, u, k) PROVE FitsIn(calls[u][k], cell', life')
  <2> DEFINE c == calls[u][k]
  <2>1. u \in OSThreads /\ k \in 1..Len(calls[u])
    BY <1>1 DEF Kept
  <2>2. FitsIn(c, cell, life) /\ FrameOK(c)
    BY <2>1, FrameIn DEF ObjectsInv, CallsFit, ObjectFits
  <2>3. c.fn \in {"use", "get", "exit"} => c.on \in Objects
    BY <2>2 DEF FrameOK
  <2>4. ~Handles(c, o) \/ (cell'[o] = cell[o] /\ life'[o] = life[o])
    BY <1>1
  <2>5. \/ cell'[o] = cell[o] /\ life'[o] = life[o]
        \/ cell'[o] # "empty" /\ (cell'[o] = "created" => life'[o] = "alive")
        \/ c.fn \in {"callbacks", "exits"}
    BY <1>1
  <2>6. CASE cell'[c.on] = cell[c.on] /\ life'[c.on] = life[c.on]
    BY <2>2, <2>6, FitsStill
  <2>7. CASE c.fn \notin {"use", "get", "exit"}
    BY <2>7, FitsStill
  <2>8. CASE c.on = o /\ ~Handles(c, o) /\ cell'[o] # "empty" /\ (cell'[o] = "created" => life'[o] = "alive")
    BY <2>8, FitsStill
  <2>9. QED BY <2>3, <2>4, <2>5, <2>6, <2>7, <2>8
<1>2. \A u \in OSThreads : \A k \in 1..Len(calls'[u]) : FitsIn(calls'[u][k], cell', life')
  BY <1>1, KeptFrames
<1>3. QED BY <1>2 DEF CallsFit, ObjectFits, FitsIn

TopRelies(c) ==
  IF c.fn = "use" /\ c.pc = "got" THEN {c.on}
  ELSE IF (c.fn = "get" /\ c.pc = "new") \/ (c.fn = "exit" /\ c.pc = "delete") THEN {Uses[c.on]} \ {NULL} ELSE {}

LEMMA ReliesTop ==
  ASSUME NEW t \in OSThreads
  PROVE  /\ Relies(t) = IF calls[t] = << >> THEN {} ELSE TopRelies(Last(calls[t]))
         /\ Relies(t)' = IF calls'[t] = << >> THEN {} ELSE TopRelies(Last(calls'[t]))
<1>1. Relies(t) = IF calls[t] = << >> THEN {} ELSE TopRelies(Last(calls[t]))
  BY DEF Relies, TopRelies, In, On
<1>2. Relies(t)' = IF calls'[t] = << >> THEN {} ELSE TopRelies(Last(calls'[t]))
  BY DEF Relies, TopRelies, In, On
<1>3. QED BY <1>1, <1>2

LEMMA ReliesObjects ==
  ASSUME StacksOK, NEW t \in OSThreads
  PROVE  Relies(t) \subseteq Objects
<1>1. CASE calls[t] = << >>
  BY <1>1, ReliesTop
<1>2. CASE calls[t] # << >>
  <2>1. FrameOK(Last(calls[t]))
    BY <1>2, StackTop DEF StacksOK
  <2>2. Uses \in [Objects -> Objects \cup {NULL}]
    BY ObjectsAssumption
  <2>3. TopRelies(Last(calls[t])) \subseteq Objects
    BY <2>1, <2>2 DEF TopRelies, FrameOK
  <2>4. QED BY <1>2, <2>3, ReliesTop
<1>3. QED BY <1>1, <1>2

LEMMA TopAfter ==
  ASSUME NEW t \in OSThreads, NEW n, NEW new, Len(new) \in Nat, Moved(t, n, new), OnlyOf(t)
  PROVE  /\ Len(new) > 0 => calls'[t] # << >> /\ Last(calls'[t]) = new[Len(new)]
         /\ Len(new) = 0 /\ n = 0 => calls'[t] = << >>
         /\ Len(new) = 0 /\ n > 0 => calls'[t] # << >> /\ Last(calls'[t]) = calls[t][n]
<1>1. /\ n \in Nat /\ Len(calls'[t]) = n + Len(new)
      /\ \A i \in 1..n : calls'[t][i] = calls[t][i]
      /\ \A j \in 1..Len(new) : calls'[t][n + j] = new[j]
  BY DEF Moved
<1>2. calls'[t] \in Seq(Frames)
  BY DEF OnlyOf, StackOK
<1>3. calls'[t] # << >> => Last(calls'[t]) = calls'[t][Len(calls'[t])]
  BY <1>2, FrontAndLast
<1>4. Len(calls'[t]) = 0 <=> calls'[t] = << >>
  BY <1>2
<1>5. ASSUME Len(new) > 0 PROVE calls'[t] # << >> /\ Last(calls'[t]) = new[Len(new)]
  <2>1. Len(new) \in 1..Len(new) /\ n + Len(new) # 0
    BY <1>1, <1>5
  <2>2. QED BY <1>1, <1>3, <1>4, <2>1
<1>6. ASSUME Len(new) = 0, n = 0 PROVE calls'[t] = << >>
  BY <1>1, <1>4, <1>6
<1>7. ASSUME Len(new) = 0, n > 0 PROVE calls'[t] # << >> /\ Last(calls'[t]) = calls[t][n]
  <2>1. n \in 1..n /\ n + Len(new) = n /\ n # 0
    BY <1>1, <1>7
  <2>2. QED BY <1>1, <1>3, <1>4, <2>1
<1>8. QED BY <1>5, <1>6, <1>7

LEMMA ReliedAfter ==
  ASSUME ObjectsInv, StacksOK, NEW t \in OSThreads, OnlyOf(t),
         NEW o, \A q \in Objects : q # o => life'[q] = life[q],
         \/ life'[o] = life[o] \/ life[o] # "alive" \/ life'[o] = "alive"
         \/ \A u \in OSThreads \ {t} : Relies(u) = {},
         \A q \in Relies(t)' : life'[q] = "alive"
  PROVE  ReliedAlive'
<1>1. SUFFICES ASSUME NEW u \in OSThreads, NEW q \in Relies(u)' PROVE life'[q] = "alive"
  BY DEF ReliedAlive
<1>2. CASE u = t
  BY <1>2
<1>3. CASE u # t
  <2>1. calls'[u] = calls[u]
    BY <1>3 DEF OnlyOf
  <2>2. Relies(u)' = Relies(u)
    BY <2>1, ReliesTop
  <2>3. q \in Relies(u) /\ q \in Objects
    BY <2>2, ReliesObjects
  <2>4. life[q] = "alive"
    BY <2>3 DEF ObjectsInv, ReliedAlive
  <2>5. QED BY <1>3, <2>3, <2>4
<1>4. QED BY <1>2, <1>3

(* Whoever called get relies on what it got.                                   *)
LEMMA ReturnRelies ==
  ASSUME StacksOK, NEW t \in OSThreads, NEW pc_, In(t, "get", pc_), Return(t), NEW q \in Relies(t)'
  PROVE  /\ q = On(t) /\ Len(calls[t]) - 1 \in 1..Len(calls[t])
         /\ LET c == calls[t][Len(calls[t]) - 1]
            IN  (c.fn = "use" /\ c.on = q) \/ (c.on \in Objects /\ q = Uses[c.on] /\ q # NULL)
<1> DEFINE n == Len(calls[t]) - 1
           c == calls[t][n]
           d == calls[t][n + 1]
<1>1. TopIs(t, n, "get", pc_) /\ Last(calls[t]) \in Frames
  BY InTop
<1>2. calls[t] # << >> /\ StackOK(t, calls[t]) /\ n \in Nat /\ Len(calls[t]) = n + 1 /\ d = Last(calls[t]) /\ d.fn = "get"
  BY <1>1 DEF StacksOK, TopIs
<1>3. OnlyOf(t) /\ Moved(t, n, << >>)
  BY <1>2, CameBack
<1> HIDE DEF n
<1>4. n + 1 \in 1..Len(calls[t])
  BY <1>2
<1>5. n + 1 > 1
  BY <1>2, <1>4, Positions
<1>6. n \in 1..Len(calls[t]) - 1 /\ n \in 1..Len(calls[t]) /\ n > 0
  BY <1>2, <1>5
<1>7. CalledBy(d, c)
  BY <1>2, <1>6 DEF StackOK
<1>8. calls'[t] # << >> /\ Last(calls'[t]) = c
  <2>1. Len(<< >>) = 0
    OBVIOUS
  <2>2. QED BY <1>3, <1>6, <2>1, TopAfter
<1>9. q \in TopRelies(c)
  BY <1>8, ReliesTop
<1>10. c.fn \in {"get", "exit"} => c.on \in Objects
  BY <1>6, FrameIn DEF FrameOK
<1>11. (c.fn = "use" /\ q = c.on /\ d.on = q) \/ (c.on \in Objects /\ q = Uses[c.on] /\ q # NULL /\ d.on = q)
  <2> HIDE DEF c, d
  <2>1. CASE c.fn = "use"
    BY <1>2, <1>7, <1>9, <2>1 DEF TopRelies, CalledBy
  <2>2. CASE c.fn = "get"
    BY <1>2, <1>7, <1>9, <1>10, <2>2 DEF TopRelies, CalledBy
  <2>3. CASE c.fn = "exit"
    BY <1>2, <1>7, <1>9, <1>10, <2>3 DEF TopRelies, CalledBy
  <2>4. c.fn \in {"use", "get", "exit"}
    BY <1>9 DEF TopRelies
  <2>5. QED BY <2>1, <2>2, <2>3, <2>4
<1>12. q = On(t)
  BY <1>2, <1>11 DEF On
<1>13. QED BY <1>6, <1>11, <1>12 DEF n

(* An object whose cell, life and calls are as they were.                      *)
LEMMA CellFitsStill ==
  ASSUME NEW o, CellFits(o), cell'[o] = cell[o], life'[o] = life[o], Sites(o)' = Sites(o)
  PROVE  CellFits(o)'
BY DEF CellFits, Handled

(* A step that changes nothing about the objects, their calls or their order.  *)
LEMMA QuietStep ==
  ASSUME ObjectsInv, StacksOK, NEW t \in OSThreads, NEW n, NEW new, Len(new) \in Nat, Moved(t, n, new), OnlyOf(t),
         cell' = cell, life' = life, under' = under,
         managers' \in Seq(Seq(Objects)), \A m, k, q : AtIn(managers', m, k, q) <=> AtIn(managers, m, k, q),
         \A q : ~TopHandles(t, n, q), \A j \in 1..Len(new) : \A q : ~Handles(new[j], q),
         \A j \in 1..Len(new) : FitsIn(new[j], cell, life),
         \A q \in Relies(t)' : life[q] = "alive"
  PROVE  ObjectsInv'
<1>1. \A q : Sites(q)' = Sites(q)
  <2>1. TAKE q
  <2>2. TopHandles(t, n, q) <=> Len(new) > 0 /\ Handles(new[1], q)
    <3>1. Len(new) > 0 => 1 \in 1..Len(new)
      OBVIOUS
    <3>2. QED BY <3>1
  <2>3. QED BY <2>2, SitesSame
<1>2. ObjectTypes'
  BY DEF ObjectsInv, ObjectTypes
<1>3. CellsFit'
  BY <1>1, CellFitsStill DEF ObjectsInv, CellsFit
<1>4. CallsFit'
  <2>1. \A j \in 1..Len(new) : FitsIn(new[j], cell', life')
    OBVIOUS
  <2>2. \A q \in Objects : cell'[q] = cell[q] /\ life'[q] = life[q]
    OBVIOUS
  <2>3. cell'[NULL] = cell[NULL] /\ life'[NULL] = life[NULL]
    OBVIOUS
  <2>4. QED BY <2>1, <2>2, <2>3, CallsFitAfter
<1>5. OneSite'
  BY <1>1 DEF ObjectsInv, OneSite
<1>6. ReliedAlive'
  <2>1. \A q \in Relies(t)' : life'[q] = "alive"
    OBVIOUS
  <2>2. \A q \in Objects : life'[q] = life[q]
    OBVIOUS
  <2>3. life'[NULL] = life[NULL]
    OBVIOUS
  <2>4. QED BY <2>1, <2>2, <2>3, ReliedAfter
<1>7. \A m, k, q : At(m, k, q)' <=> At(m, k, q)
  BY DEF At, AtIn
<1>8. \A q : InPlace(q)' <=> InPlace(q)
  BY <1>7 DEF InPlace
<1>9. \A q : Handled(q)' <=> Handled(q)
  BY <1>1 DEF Handled
<1>10. Placed'
  BY <1>8, <1>9 DEF ObjectsInv, Placed
<1>11. PlacedOnce'
  BY <1>7 DEF ObjectsInv, PlacedOnce
<1>12. Ordered'
  BY <1>7, <1>8 DEF ObjectsInv, Ordered, Sooner
<1>13. QED BY <1>2, <1>3, <1>4, <1>5, <1>6, <1>10, <1>11, <1>12 DEF ObjectsInv

-----------------------------------------------------------------------------
(* Steps of calls about objects.                                             *)
LEMMA FrameFields ==
  ASSUME NEW fn, NEW on, NEW pc_, NEW x
  PROVE  /\ Frame(fn, on, pc_, x).fn = fn /\ Frame(fn, on, pc_, x).on = on
         /\ Frame(fn, on, pc_, x).pc = pc_ /\ Frame(fn, on, pc_, x).x = x
BY DEF Frame

LEMMA FrameType ==
  ASSUME NEW fn \in {"use", "get", "callbacks", "exit", "initialize", "table", "getSlot", "setSlot", "exits"},
         NEW on \in Objects \cup Slots \cup {NULL, "now", "destructor"},
         NEW pc_ \in Pcs, NEW x \in Locals
  PROVE  Frame(fn, on, pc_, x) \in Frames
BY DEF Frame, Frames

LEMMA NoLocals == << >> \in Locals
BY DEF Locals

LEMMA GoesOn ==
  ASSUME StacksOK, NEW t \in OSThreads, NEW fn, NEW pc_, In(t, fn, pc_), NEW next \in Pcs, NEW x \in Locals,
         GoTo(t, next, x, << >>), FrameOK(Frame(fn, On(t), next, x))
  PROVE  /\ calls[t] # << >> /\ OnlyOf(t) /\ SameFirst(t) /\ TopIs(t, Len(calls[t]) - 1, fn, pc_)
         /\ calls[t][Len(calls[t])].on = On(t) /\ Len(calls[t]) = Len(calls[t]) - 1 + 1
         /\ Moved(t, Len(calls[t]) - 1, <<Frame(fn, On(t), next, x)>>)
<1>1. /\ calls[t] # << >> /\ Last(calls[t]).fn = fn /\ On(t) = Last(calls[t]).on
  BY DEF In, On
<1>2. TopIs(t, Len(calls[t]) - 1, fn, pc_) /\ Last(calls[t]) \in Frames
  BY InTop
<1>3. Frame(Last(calls[t]).fn, Last(calls[t]).on, next, x) \in Frames
  <2>1. /\ Last(calls[t]).fn \in {"use", "get", "callbacks", "exit", "initialize", "table", "getSlot", "setSlot", "exits"}
        /\ Last(calls[t]).on \in Objects \cup Slots \cup {NULL, "now", "destructor"}
    BY <1>2 DEF Frames
  <2>2. QED BY <2>1, FrameType
<1>4. calls[t][Len(calls[t])] = Last(calls[t]) /\ Len(calls[t]) = Len(calls[t]) - 1 + 1
  BY <1>2 DEF TopIs
<1>5. /\ OnlyOf(t) /\ SameFirst(t)
      /\ Moved(t, Len(calls[t]) - 1, <<Frame(Last(calls[t]).fn, Last(calls[t]).on, next, x)>>)
  BY <1>1, <1>3, WentOn
<1>6. QED BY <1>1, <1>2, <1>4, <1>5

LEMMA GoesIn ==
  ASSUME StacksOK, NEW t \in OSThreads, NEW fn, NEW pc_, In(t, fn, pc_), NEW next \in Pcs, NEW x \in Locals,
         NEW f \in Frames, GoTo(t, next, x, <<f>>), FrameOK(Frame(fn, On(t), next, x)), FrameOK(f),
         CalledBy(f, Frame(fn, On(t), next, x))
  PROVE  /\ calls[t] # << >> /\ OnlyOf(t) /\ SameFirst(t) /\ TopIs(t, Len(calls[t]) - 1, fn, pc_)
         /\ calls[t][Len(calls[t])].on = On(t) /\ Len(calls[t]) = Len(calls[t]) - 1 + 1
         /\ Moved(t, Len(calls[t]) - 1, <<Frame(fn, On(t), next, x), f>>)
<1>1. /\ calls[t] # << >> /\ Last(calls[t]).fn = fn /\ On(t) = Last(calls[t]).on
  BY DEF In, On
<1>2. TopIs(t, Len(calls[t]) - 1, fn, pc_) /\ Last(calls[t]) \in Frames
  BY InTop
<1>3. Frame(Last(calls[t]).fn, Last(calls[t]).on, next, x) \in Frames
  <2>1. /\ Last(calls[t]).fn \in {"use", "get", "callbacks", "exit", "initialize", "table", "getSlot", "setSlot", "exits"}
        /\ Last(calls[t]).on \in Objects \cup Slots \cup {NULL, "now", "destructor"}
    BY <1>2 DEF Frames
  <2>2. QED BY <2>1, FrameType
<1>4. calls[t][Len(calls[t])] = Last(calls[t]) /\ Len(calls[t]) = Len(calls[t]) - 1 + 1
  BY <1>2 DEF TopIs
<1>5. /\ OnlyOf(t) /\ SameFirst(t)
      /\ Moved(t, Len(calls[t]) - 1, <<Frame(Last(calls[t]).fn, Last(calls[t]).on, next, x), f>>)
  BY <1>1, <1>3, WentIn
<1>6. QED BY <1>1, <1>2, <1>4, <1>5

LEMMA ComesBack ==
  ASSUME StacksOK, NEW t \in OSThreads, NEW fn, NEW pc_, In(t, fn, pc_), Return(t)
  PROVE  /\ calls[t] # << >> /\ OnlyOf(t) /\ SameFirst(t) /\ TopIs(t, Len(calls[t]) - 1, fn, pc_)
         /\ calls[t][Len(calls[t])].on = On(t) /\ Len(calls[t]) = Len(calls[t]) - 1 + 1
         /\ Moved(t, Len(calls[t]) - 1, << >>) /\ Len(<< >>) = 0
<1>1. calls[t] # << >> /\ On(t) = Last(calls[t]).on
  BY DEF In, On
<1>2. TopIs(t, Len(calls[t]) - 1, fn, pc_)
  BY InTop
<1>3. OnlyOf(t) /\ SameFirst(t) /\ Moved(t, Len(calls[t]) - 1, << >>)
  BY <1>1, CameBack
<1>4. calls[t][Len(calls[t])] = Last(calls[t]) /\ Len(calls[t]) = Len(calls[t]) - 1 + 1
  BY <1>2 DEF TopIs
<1>5. Len(<< >>) = 0
  OBVIOUS
<1>6. QED BY <1>1, <1>2, <1>3, <1>4, <1>5

(* Stacks of calls about objects, and stacks of calls about slots.             *)
ObjectStack(s) == s = << >> \/ s[1].fn \in {"use", "callbacks"}

LEMMA SlotStacks ==
  ASSUME NEW t, NEW s, StackOK(t, s), s # << >>, s[1].fn \in {"initialize", "getSlot", "setSlot", "exits"}
  PROVE  /\ Len(s) \in 1..2 /\ Last(s) = s[Len(s)]
         /\ Len(s) = 2 => s[2].fn = "table" /\ CalledBy(s[2], s[1])
<1>1. Len(s) \in Nat \ {0} /\ Last(s) = s[Len(s)]
  BY StackTop
<1>2. \A k \in 1..Len(s) - 1 : CalledBy(s[k + 1], s[k])
  BY DEF StackOK
<1>3. ASSUME Len(s) > 1 PROVE CalledBy(s[2], s[1]) /\ s[2].fn = "table"
  <2>1. 1 \in 1..Len(s) - 1 /\ 1 + 1 = 2
    BY <1>1, <1>3
  <2>2. CalledBy(s[2], s[1])
    BY <1>2, <2>1
  <2>3. QED BY <2>2 DEF CalledBy
<1>4. ASSUME Len(s) > 2 PROVE FALSE
  <2>1. 2 \in 1..Len(s) - 1 /\ 2 + 1 = 3 /\ Len(s) > 1
    BY <1>1, <1>4
  <2>2. CalledBy(s[3], s[2])
    BY <1>2, <2>1
  <2>3. QED BY <1>3, <2>1, <2>2 DEF CalledBy
<1>5. Len(s) \in 1..2
  <2>1. Len(s) \in Nat \ {0} /\ ~(Len(s) > 2)
    BY <1>1, <1>4
  <2>2. \A m \in Nat \ {0} : ~(m > 2) => m \in 1..2
    OBVIOUS
  <2>3. QED BY <2>1, <2>2
<1>6. QED BY <1>1, <1>3, <1>5

LEMMA ObjectTop ==
  ASSUME StacksOK, NEW t \in OSThreads, NEW fn \in {"use", "get", "callbacks", "exit"}, NEW pc_, In(t, fn, pc_)
  PROVE  ObjectStack(calls[t])
<1>1. SUFFICES ASSUME calls[t][1].fn \notin {"use", "callbacks"} PROVE FALSE
  BY DEF ObjectStack
<1>2. calls[t] # << >> /\ StackOK(t, calls[t]) /\ Last(calls[t]).fn = fn
  BY DEF In, StacksOK
<1>3. calls[t][1].fn \in {"initialize", "getSlot", "setSlot", "exits"}
  BY <1>1, <1>2 DEF StackOK
<1>4. /\ Len(calls[t]) \in 1..2 /\ Last(calls[t]) = calls[t][Len(calls[t])]
      /\ Len(calls[t]) = 2 => calls[t][2].fn = "table"
  BY <1>2, <1>3, SlotStacks
<1>5. Len(calls[t]) = 1 \/ Len(calls[t]) = 2
  BY <1>4
<1>6. QED BY <1>2, <1>3, <1>4, <1>5

(* What the rest of the invariant needs to know of a step about objects.        *)
ObjectMoved(t) == t \in OSThreads /\ OnlyOf(t) /\ ObjectStack(calls[t]) /\ ObjectStack(calls'[t])

LEMMA ObjectMovedIn ==
  ASSUME StacksOK, NEW t \in OSThreads, NEW fn \in {"use", "get", "callbacks", "exit"}, NEW pc_, In(t, fn, pc_),
         OnlyOf(t), SameFirst(t)
  PROVE  ObjectMoved(t)
<1>1. ObjectStack(calls[t]) /\ calls[t] # << >>
  BY ObjectTop DEF In
<1>2. QED BY <1>1 DEF ObjectMoved, ObjectStack, SameFirst

Making(fn, pc_) == fn = "exit" \/ (fn = "get" /\ pc_ \in {"new", "store", "register"})
LEMMA NotMaking ==
  ASSUME NEW t, NEW n, NEW fn, NEW pc_, TopIs(t, n, fn, pc_), ~Making(fn, pc_)
  PROVE  \A q : ~TopHandles(t, n, q)
BY DEF TopIs, TopHandles, Handles, Making
LEMMA FrameNotMaking ==
  ASSUME NEW fn, NEW on, NEW pc_, NEW x, ~Making(fn, pc_)
  PROVE  \A q : ~Handles(Frame(fn, on, pc_, x), q)
BY FrameFields DEF Handles, Making

LEMMA One == \A c : Len(<<c>>) = 1 /\ Len(<<c>>) \in Nat /\ <<c>>[1] = c /\ \A j \in 1..Len(<<c>>) : j = 1 /\ <<c>>[j] = c
OBVIOUS
LEMMA Two ==
  \A c, f : /\ Len(<<c, f>>) = 2 /\ Len(<<c, f>>) \in Nat /\ <<c, f>>[1] = c /\ <<c, f>>[2] = f
            /\ \A j \in 1..Len(<<c, f>>) : (j = 1 /\ <<c, f>>[j] = c) \/ (j = 2 /\ <<c, f>>[j] = f)
OBVIOUS

LEMMA QuietStay ==
  ASSUME ObjectsInv, StacksOK, NEW t \in OSThreads, NEW n, NEW new, Len(new) \in Nat, Moved(t, n, new), OnlyOf(t),
         UNCHANGED objectVars,
         \A q : ~TopHandles(t, n, q), \A j \in 1..Len(new) : \A q : ~Handles(new[j], q),
         \A j \in 1..Len(new) : FitsIn(new[j], cell, life),
         \A q \in Relies(t)' : life[q] = "alive"
  PROVE  ObjectsInv'
<1>1. cell' = cell /\ life' = life /\ under' = under /\ managers' = managers
  BY DEF objectVars
<1>2. managers' \in Seq(Seq(Objects))
  BY <1>1 DEF ObjectsInv, ObjectTypes
<1>3. \A m, k, q : AtIn(managers', m, k, q) <=> AtIn(managers, m, k, q)
  BY <1>1
<1>4. QED BY <1>1, <1>2, <1>3, QuietStep

LEMMA SameManagers ==
  ASSUME StacksOK, NEW t \in OSThreads, calls[t] # << >>, OnlyOf(t), SameFirst(t), managers' = managers
  PROVE  StacksOK'
BY StacksStayIn

LEMMA QuietReturn ==
  ASSUME StacksOK, ObjectsInv, NEW t \in OSThreads, NEW fn, NEW pc_, In(t, fn, pc_), ~Making(fn, pc_), Return(t),
         UNCHANGED objectVars, \A q \in Relies(t)' : life[q] = "alive"
  PROVE  StacksOK' /\ ObjectsInv'
<1>1. /\ calls[t] # << >> /\ OnlyOf(t) /\ SameFirst(t) /\ TopIs(t, Len(calls[t]) - 1, fn, pc_)
      /\ Moved(t, Len(calls[t]) - 1, << >>) /\ Len(<< >>) = 0
  BY ComesBack
<1>2. \A q : ~TopHandles(t, Len(calls[t]) - 1, q)
  BY <1>1, NotMaking
<1>3. managers' = managers
  BY DEF objectVars
<1>4. StacksOK'
  BY <1>1, <1>3, SameManagers
<1>5. \A j \in 1..Len(<< >>) : FALSE
  BY <1>1
<1>6. Len(<< >>) \in Nat
  BY <1>1
<1>7. ObjectsInv'
  BY <1>1, <1>2, <1>5, <1>6, QuietStay
<1>8. QED BY <1>4, <1>7

LEMMA QuietOn ==
  ASSUME StacksOK, ObjectsInv, NEW t \in OSThreads, NEW fn, NEW pc_, In(t, fn, pc_), ~Making(fn, pc_),
         NEW next \in Pcs, NEW x \in Locals, GoTo(t, next, x, << >>), FrameOK(Frame(fn, On(t), next, x)),
         ~Making(fn, next), FitsIn(Frame(fn, On(t), next, x), cell, life), TopRelies(Frame(fn, On(t), next, x)) = {},
         UNCHANGED objectVars
  PROVE  StacksOK' /\ ObjectsInv'
<1> DEFINE c == Frame(fn, On(t), next, x)
<1>1. /\ calls[t] # << >> /\ OnlyOf(t) /\ SameFirst(t) /\ TopIs(t, Len(calls[t]) - 1, fn, pc_)
      /\ Moved(t, Len(calls[t]) - 1, <<c>>)
  BY GoesOn
<1>2. \A q : ~TopHandles(t, Len(calls[t]) - 1, q)
  BY <1>1, NotMaking
<1>3. managers' = managers
  BY DEF objectVars
<1>4. StacksOK'
  BY <1>1, <1>3, SameManagers
<1>5. \A j \in 1..Len(<<c>>) : <<c>>[j] = c
  BY One
<1>6. Len(<<c>>) \in Nat /\ Len(<<c>>) > 0 /\ <<c>>[Len(<<c>>)] = c
  BY One
<1>7. \A q : ~Handles(c, q)
  BY FrameNotMaking
<1>8. FitsIn(c, cell, life) /\ TopRelies(c) = {}
  OBVIOUS
<1> HIDE DEF c
<1>9. Relies(t)' = {}
  <2>1. calls'[t] # << >> /\ Last(calls'[t]) = c
    BY <1>1, <1>6, TopAfter
  <2>2. QED BY <1>8, <2>1, ReliesTop
<1>10. \A j \in 1..Len(<<c>>) : FitsIn(<<c>>[j], cell, life) /\ \A q : ~Handles(<<c>>[j], q)
  BY <1>5, <1>7, <1>8
<1>11. ObjectsInv'
  BY <1>1, <1>2, <1>6, <1>9, <1>10, QuietStay
<1>12. QED BY <1>4, <1>11

LEMMA QuietBegan ==
  ASSUME StacksOK, ObjectsInv, NEW t \in OSThreads, calls[t] = << >>, NEW r, StackOK(t, r),
         calls' = [calls EXCEPT ![t] = r], UNCHANGED objectVars,
         \A j \in 1..Len(r) : FitsIn(r[j], cell, life) /\ \A q : ~Handles(r[j], q),
         r # << >> => TopRelies(Last(r)) = {}
  PROVE  OnlyOf(t) /\ calls'[t] = r /\ ObjectsInv'
<1>1. OnlyOf(t) /\ Moved(t, 0, r) /\ calls'[t] = r
  BY Began
<1>2. Len(r) \in Nat
  <2>1. r \in Seq(Frames)
    BY DEF StackOK
  <2>2. QED BY <2>1
<1>3. \A q : ~TopHandles(t, 0, q)
  <2>1. Len(calls[t]) # 0 + 1
    OBVIOUS
  <2>2. QED BY <2>1 DEF TopHandles
<1>4. Relies(t)' = {}
  BY <1>1, ReliesTop
<1>5. ObjectsInv'
  BY <1>1, <1>2, <1>3, <1>4, QuietStay
<1>6. QED BY <1>1, <1>5

(* Only callbacks destroy objects.                                            *)
LEMMA ExitsWhileProcessing ==
  ASSUME StacksOK, NEW u \in OSThreads, NEW k \in 1..Len(calls[u]), calls[u][k].fn = "exit"
  PROVE  Processing /\ u = MainThread /\ k = 2
<1>1. StackOK(u, calls[u]) /\ calls[u] # << >>
  BY FrameIn DEF StacksOK
<1>2. k = 2 /\ calls[u][1].fn = "callbacks" /\ u = MainThread
  BY <1>1, Positions
<1>3. 1 \in DOMAIN calls[u]
  <2>1. calls[u] \in Seq(Frames) /\ 1 \in 1..Len(calls[u])
    BY <1>1, StackTop
  <2>2. QED BY <2>1
<1>4. QED BY <1>2, <1>3 DEF Processing, Holds

LEMMA DestroyedWhileProcessing ==
  ASSUME StacksOK, ObjectsInv, NEW o \in Objects, life[o] = "destroying"
  PROVE  Processing
<1>1. CellFits(o)
  BY DEF ObjectsInv, CellsFit
<1>2. PICK s \in Sites(o) : TRUE
  BY <1>1 DEF CellFits, Handled
<1>3. /\ s[1] \in OSThreads /\ s[2] \in 1..Len(calls[s[1]]) /\ Handles(calls[s[1]][s[2]], o)
  BY <1>2, SitesPairs DEF Sites
<1>4. ObjectFits(calls[s[1]][s[2]])
  BY <1>3 DEF ObjectsInv, CallsFit
<1>5. calls[s[1]][s[2]].fn = "exit"
  BY <1>3, <1>4 DEF Handles, ObjectFits, FitsIn
<1>6. QED BY <1>3, <1>5, ExitsWhileProcessing

(* While main() processes callbacks, other threads at most exit.               *)
LEMMA OthersExit ==
  ASSUME StacksOK, Processing, NEW u \in OSThreads, u # MainThread, NEW k \in 1..Len(calls[u])
  PROVE  calls[u][k].fn = "exits" /\ k = 1
<1>1. calls[u] # << >> /\ StackOK(u, calls[u])
  BY FrameIn DEF StacksOK
<1>2. calls[u][1].fn = "exits"
  BY <1>1, WhoProcesses
<1>3. k = 1
  BY <1>1, <1>2, Positions
<1>4. QED BY <1>2, <1>3

LEMMA UsableUnspent ==
  ASSUME NEW o, Usable(o)
  PROVE  o \in Objects /\ ~Spent(o) /\ (Uses[o] # NULL => Usable(Uses[o]))
<1>1. PICK S \in SUBSET {q \in Objects : ~Spent(q)} : o \in S /\ \A q \in S : Uses[q] \in S \cup {NULL}
  BY DEF Usable
<1>2. Uses[o] # NULL => Uses[o] \in S
  BY <1>1
<1>3. QED BY <1>1, <1>2 DEF Usable

LEMMA UsableWhenCreated ==
  ASSUME StacksOK, ObjectsInv, NEW o \in Objects, ~Processing, ~Spent(o), cell[o] = "created"
  PROVE  life[o] = "alive"
<1>1. CellFits(o)
  BY DEF ObjectsInv, CellsFit
<1>2. life[o] # "destroying"
  BY DestroyedWhileProcessing
<1>3. QED BY <1>1, <1>2 DEF CellFits, Spent

(* What t's innermost call, of get, may be while callbacks are processed.      *)
LEMMA TopGet ==
  ASSUME StacksOK, CallsFree, NEW t \in OSThreads, NEW pc_, In(t, "get", pc_)
  PROVE  On(t) \in Objects /\ IF Processing THEN pc_ = "load" ELSE Usable(On(t))
<1>1. TopIs(t, Len(calls[t]) - 1, "get", pc_) /\ FrameOK(Last(calls[t]))
  BY InTop
<1>2. Len(calls[t]) \in 1..Len(calls[t]) /\ calls[t][Len(calls[t])] = Last(calls[t])
  BY <1>1, StackTop DEF StacksOK, TopIs
<1>3. Last(calls[t]).fn = "get" /\ Last(calls[t]).pc = pc_
  BY DEF In
<1>4. PICK o : o = On(t)
  OBVIOUS
<1>5. o \in Objects /\ Last(calls[t]).on = o
  BY <1>1, <1>3, <1>4 DEF On, FrameOK
<1>6. FreeFor(Last(calls[t]), o)
  BY <1>2, <1>5 DEF CallsFree
<1>7. QED BY <1>3, <1>4, <1>5, <1>6 DEF FreeFor

(* A destructor gets what exists still.                                      *)
LEMMA GetWhileProcessing ==
  ASSUME StacksOK, ObjectsInv, LockInv, Processing, NEW t \in OSThreads, NEW pc_, In(t, "get", pc_)
  PROVE  pc_ = "load" /\ life[On(t)] = "alive" /\ cell[On(t)] = "created"
<1> DEFINE n == Len(calls[t]) - 1
           b == calls[t][n]
           d == calls[t][n + 1]
<1>1. TopIs(t, n, "get", pc_) /\ pc_ = "load" /\ On(t) \in Objects
  BY InTop, TopGet DEF LockInv
<1>2. /\ calls[t] # << >> /\ StackOK(t, calls[t]) /\ n \in Nat /\ Len(calls[t]) = n + 1 /\ d.fn = "get" /\ d.on = On(t)
  BY <1>1 DEF StacksOK, TopIs, On
<1> HIDE DEF n
<1>3. n + 1 \in 1..Len(calls[t])
  BY <1>2
<1>4. n + 1 > 1 /\ t = MainThread /\ calls[t][1].fn = "callbacks"
  BY <1>2, <1>3, Positions, OthersExit, WhoProcesses
<1>5. n \in 1..Len(calls[t]) - 1 /\ n \in 1..Len(calls[t])
  BY <1>2, <1>4
<1>6. CalledBy(d, b)
  BY <1>2, <1>5 DEF StackOK
<1>7. FrameOK(b) /\ ObjectFits(b)
  BY <1>5, FrameIn DEF ObjectsInv, CallsFit
<1>8. b.fn # "use"
  BY <1>2, <1>4, <1>5, Positions
<1>9. ~(b.fn = "get" /\ b.pc = "new")
  <2>1. SUFFICES ASSUME b.fn = "get", b.pc = "new" PROVE FALSE
    OBVIOUS
  <2>2. PICK o \in Objects : b.on = o
    BY <1>7, <2>1 DEF FrameOK
  <2>3. FreeFor(b, o)
    BY <1>5, <2>2 DEF LockInv, CallsFree
  <2>4. QED BY <2>1, <2>3 DEF FreeFor
<1> HIDE DEF b, d
<1>10. b.fn = "exit" /\ b.pc = "delete" /\ On(t) = Uses[b.on]
  BY <1>2, <1>6, <1>8, <1>9 DEF CalledBy
<1>11. b.on \in Objects \ Leaky /\ life[b.on] = "destroying"
  BY <1>7, <1>10 DEF FrameOK, ObjectFits, FitsIn
<1>12. On(t) # NULL
  BY <1>1, ObjectsAssumption
<1>13. life[On(t)] = "alive"
  BY <1>10, <1>11, <1>12 DEF LockInv, UsedAlive
<1>14. cell[On(t)] # "creating"
  <2>1. PICK o \in Objects : o = On(t)
    BY <1>1
  <2>2. SUFFICES ASSUME cell[o] = "creating" PROVE FALSE
    BY <2>1
  <2>3. PICK s \in Sites(o) : TRUE
    BY <2>2 DEF ObjectsInv, CellsFit, CellFits, Handled
  <2>4. PICK u, k : u = s[1] /\ k = s[2]
    OBVIOUS
  <2>5. u \in OSThreads /\ k \in 1..Len(calls[u]) /\ Handles(calls[u][k], o)
    BY <2>3, <2>4, SitesPairs DEF Sites
  <2>6. ObjectFits(calls[u][k]) /\ calls[u][k].on = o
    BY <2>5 DEF ObjectsInv, CallsFit, Handles
  <2>7. calls[u][k].fn = "get" /\ calls[u][k].pc # "load"
    BY <2>2, <2>5, <2>6, FrameIn DEF ObjectFits, FitsIn, Handles, FrameOK
  <2>8. FreeFor(calls[u][k], o)
    BY <2>5, <2>6 DEF LockInv, CallsFree
  <2>9. QED BY <2>7, <2>8 DEF FreeFor
<1>15. cell[On(t)] = "created"
  BY <1>1, <1>13, <1>14 DEF ObjectsInv, ObjectTypes, CellsFit, CellFits
<1>16. QED BY <1>1, <1>13, <1>15

(* Whoever gets what is there gets it alive.                                  *)
LEMMA CreatedThenAlive ==
  ASSUME StacksOK, ObjectsInv, LockInv, NEW t \in OSThreads, NEW pc_, In(t, "get", pc_), Return(t),
         cell[On(t)] = "created", NEW q \in Relies(t)'
  PROVE  life[q] = "alive"
<1>1. q = On(t)
  BY ReturnRelies
<1>2. CASE Processing
  BY <1>1, <1>2, GetWhileProcessing
<1>3. CASE ~Processing
  <2>1. On(t) \in Objects /\ Usable(On(t))
    BY <1>3, TopGet DEF LockInv
  <2>2. ~Spent(On(t))
    BY <2>1, UsableUnspent
  <2>3. QED BY <1>1, <1>3, <2>1, <2>2, UsableWhenCreated
<1>4. QED BY <1>2, <1>3

LEMMA GetCallOK ==
  ASSUME NEW o \in Objects
  PROVE  /\ GetCall(o) \in Frames /\ FrameOK(GetCall(o)) /\ GetCall(o).fn = "get" /\ GetCall(o).on = o
         /\ GetCall(o).pc = "load" /\ TopRelies(GetCall(o)) = {}
         /\ (\A q : ~Handles(GetCall(o), q)) /\ \A cells, lives : FitsIn(GetCall(o), cells, lives)
<1>1. GetCall(o).fn = "get" /\ GetCall(o).on = o /\ GetCall(o).pc = "load"
  BY FrameFields DEF GetCall
<1>2. GetCall(o) \in Frames
  <2>1. "load" \in Pcs /\ << >> \in Locals
    BY NoLocals DEF Pcs
  <2>2. QED BY <2>1, FrameType DEF GetCall
<1>3. FrameOK(GetCall(o))
  BY <1>1 DEF FrameOK
<1>4. TopRelies(GetCall(o)) = {} /\ \A q : ~Handles(GetCall(o), q)
  BY <1>1 DEF TopRelies, Handles
<1>5. \A cells, lives : FitsIn(GetCall(o), cells, lives)
  BY <1>1 DEF FitsIn
<1>6. QED BY <1>1, <1>2, <1>3, <1>4, <1>5

LEMMA AppendToOne ==
  ASSUME NEW c, NEW f
  PROVE  Append(<<c>>, f) = <<c, f>>
<1> DEFINE r == Append(<<c>>, f)
<1>1. <<c>> \in Seq({c, f}) /\ Len(<<c>>) = 1 /\ <<c>>[1] = c
  OBVIOUS
<1>2. r \in Seq({c, f}) /\ Len(r) = 2 /\ r[1] = c /\ r[2] = f
  BY <1>1, AppendProperties
<1>3. <<c, f>> \in Seq({c, f}) /\ Len(<<c, f>>) = 2 /\ <<c, f>>[1] = c /\ <<c, f>>[2] = f
  OBVIOUS
<1> HIDE DEF r
<1>4. \A i \in 1..Len(r) : i = 1 \/ i = 2
  BY <1>2
<1>5. r = <<c, f>>
  BY <1>2, <1>3, <1>4, SeqEqual
<1>6. QED BY <1>5 DEF r

LEMMA UseKeeps ==
  ASSUME StacksOK, ObjectsInv, NEW t \in OSThreads, NEW o \in Objects, Use(t, o)
  PROVE  StacksOK' /\ ObjectsInv' /\ ObjectMoved(t)
<1> DEFINE f == Frame("use", o, "got", << >>)
           g == GetCall(o)
<1>1. /\ MayCall /\ ~Spent(o) /\ calls[t] = << >> /\ calls' = [calls EXCEPT ![t] = <<f, g>>]
      /\ UNCHANGED objectVars
  <2>1. ~Spent(o)
    BY UsableUnspent DEF Use
  <2>2. QED BY <2>1 DEF Use, UserCalls, Spend, Idle
<1>2. /\ f.fn = "use" /\ f.on = o /\ f.pc = "got" /\ f \in Frames /\ FrameOK(f)
  <2>1. f.fn = "use" /\ f.on = o /\ f.pc = "got"
    BY FrameFields
  <2>2. "got" \in Pcs /\ << >> \in Locals
    BY NoLocals DEF Pcs
  <2>3. f \in Frames
    BY <2>2, FrameType
  <2>4. FrameOK(f)
    BY <2>1 DEF FrameOK
  <2>5. QED BY <2>1, <2>3, <2>4
<1>3. FitsIn(f, cell, life) /\ \A q : ~Handles(f, q)
  <2>1. cell[o] = "created" => life[o] = "alive"
    BY <1>1, UsableWhenCreated DEF MayCall
  <2>2. QED BY <1>2, <2>1 DEF FitsIn, Handles
<1>4. g \in Frames /\ FrameOK(g) /\ g.fn = "get" /\ g.on = o /\ FitsIn(g, cell, life) /\ TopRelies(g) = {}
      /\ \A q : ~Handles(g, q)
  BY GetCallOK
<1> HIDE DEF f, g
<1>5. StackOK(t, <<f, g>>)
  <2>1. StackOK(t, <<f>>)
    BY <1>2, StackStarts
  <2>2. <<f>> # << >> /\ <<f>>[Len(<<f>>)] = f /\ Append(<<f>>, g) = <<f, g>>
    <3>1. Append(<<f>>, g) = <<f, g>>
      BY AppendToOne
    <3>2. Len(<<f>>) = 1 /\ <<f>>[1] = f
      BY One
    <3>3. <<f>> # << >>
      OBVIOUS
    <3>4. QED BY <3>1, <3>2, <3>3
  <2>3. CalledBy(g, f)
    BY <1>2, <1>4 DEF CalledBy
  <2>4. QED BY <1>4, <2>1, <2>2, <2>3, StackCalls
<1>6. \A j \in 1..Len(<<f, g>>) : FitsIn(<<f, g>>[j], cell, life) /\ \A q : ~Handles(<<f, g>>[j], q)
  BY <1>3, <1>4, Two
<1>7. Last(<<f, g>>) = g /\ <<f, g>> # << >> /\ <<f, g>>[1] = f
  BY Two DEF Last
<1>8. OnlyOf(t) /\ calls'[t] = <<f, g>> /\ ObjectsInv'
  BY <1>1, <1>4, <1>5, <1>6, <1>7, QuietBegan
<1>9. StacksOK'
  <2>1. MayCall /\ (calls'[t] # << >> => calls'[t][1].fn # "callbacks")
    BY <1>1, <1>2, <1>7, <1>8
  <2>2. managers' = managers
    BY <1>1 DEF objectVars
  <2>3. QED BY <1>1, <1>8, <2>1, <2>2, StacksStayFrom
<1>10. ObjectMoved(t)
  BY <1>1, <1>2, <1>7, <1>8 DEF ObjectMoved, ObjectStack
<1>11. QED BY <1>8, <1>9, <1>10

LEMMA UsedKeeps ==
  ASSUME StacksOK, ObjectsInv, NEW t \in OSThreads, Used(t)
  PROVE  StacksOK' /\ ObjectsInv' /\ ObjectMoved(t)
<1>1. In(t, "use", "got") /\ Return(t) /\ UNCHANGED objectVars /\ ~Making("use", "got")
  BY DEF Used, Making
<1>2. /\ calls[t] # << >> /\ OnlyOf(t) /\ SameFirst(t) /\ TopIs(t, Len(calls[t]) - 1, "use", "got")
      /\ Moved(t, Len(calls[t]) - 1, << >>) /\ Len(<< >>) = 0 /\ Len(calls[t]) = Len(calls[t]) - 1 + 1
  BY <1>1, ComesBack
<1>3. Relies(t)' = {}
  <2>1. Len(calls[t]) \in 1..Len(calls[t]) /\ calls[t][Len(calls[t])].fn = "use" /\ Len(calls[t]) \in Nat
    BY <1>2, StackTop DEF StacksOK, TopIs
  <2>2. Len(calls[t]) = 1
    BY <2>1, Positions DEF StacksOK
  <2>3. Len(calls[t]) - 1 = 0
    BY <2>2
  <2>4. calls'[t] = << >>
    BY <1>2, <2>3, TopAfter
  <2>5. QED BY <2>4, ReliesTop
<1>4. StacksOK' /\ ObjectsInv'
  BY <1>1, <1>3, QuietReturn
<1>5. QED BY <1>1, <1>2, <1>4, ObjectMovedIn

LEMMA LoadKeeps ==
  ASSUME StacksOK, ObjectsInv, LockInv, NEW t \in OSThreads, Load(t)
  PROVE  StacksOK' /\ ObjectsInv' /\ ObjectMoved(t)
<1>1. In(t, "get", "load") /\ UNCHANGED objectVars /\ ~Making("get", "load") /\ ~Making("get", "swap")
  BY DEF Load, Making
<1>2. CASE cell[On(t)] = "created" /\ Return(t)
  <2>1. StacksOK' /\ ObjectsInv'
    BY <1>1, <1>2, QuietReturn, CreatedThenAlive
  <2>2. OnlyOf(t) /\ SameFirst(t)
    BY <1>1, <1>2, ComesBack
  <2>3. QED BY <1>1, <2>1, <2>2, ObjectMovedIn
<1>3. CASE GoTo(t, "swap", << >>, << >>)
  <2> DEFINE c == Frame("get", On(t), "swap", << >>)
  <2>1. On(t) \in Objects
    BY <1>1, InTop DEF In, On, FrameOK
  <2>2. c.fn = "get" /\ c.on = On(t) /\ c.pc = "swap"
    BY FrameFields
  <2>3. "swap" \in Pcs /\ << >> \in Locals
    BY NoLocals DEF Pcs
  <2>4. FrameOK(c) /\ FitsIn(c, cell, life) /\ TopRelies(c) = {}
    BY <2>1, <2>2 DEF FrameOK, FitsIn, TopRelies
  <2>5. StacksOK' /\ ObjectsInv'
    BY <1>1, <1>3, <2>3, <2>4, QuietOn
  <2>6. OnlyOf(t) /\ SameFirst(t)
    BY <1>1, <1>3, <2>3, <2>4, GoesOn
  <2>7. QED BY <1>1, <2>5, <2>6, ObjectMovedIn
<1>4. QED BY <1>2, <1>3 DEF Load

LEMMA SpinKeeps ==
  ASSUME StacksOK, ObjectsInv, LockInv, NEW t \in OSThreads, Spin(t)
  PROVE  StacksOK' /\ ObjectsInv' /\ ObjectMoved(t)
<1>1. In(t, "get", "spin") /\ UNCHANGED objectVars /\ ~Making("get", "spin") /\ Return(t)
  BY DEF Spin, Making
<1>2. On(t) \in Objects /\ cell[On(t)] # "empty"
  <2>1. TopIs(t, Len(calls[t]) - 1, "get", "spin") /\ FrameOK(Last(calls[t]))
    BY <1>1, InTop
  <2>2. Len(calls[t]) \in 1..Len(calls[t]) /\ calls[t][Len(calls[t])] = Last(calls[t])
    BY <2>1, StackTop DEF StacksOK, TopIs
  <2>3. ObjectFits(Last(calls[t]))
    BY <2>2 DEF ObjectsInv, CallsFit
  <2>4. Last(calls[t]).fn = "get" /\ Last(calls[t]).pc = "spin"
    BY <1>1 DEF In
  <2>5. QED BY <2>1, <2>3, <2>4 DEF On, FrameOK, ObjectFits, FitsIn
<1>3. cell[On(t)] = "created"
  BY <1>2 DEF Spin, ObjectsInv, ObjectTypes
<1>4. StacksOK' /\ ObjectsInv'
  BY <1>1, <1>3, QuietReturn, CreatedThenAlive
<1>5. OnlyOf(t) /\ SameFirst(t)
  BY <1>1, ComesBack
<1>6. QED BY <1>1, <1>4, <1>5, ObjectMovedIn

LEMMA CallbacksBegin ==
  ASSUME StacksOK, ObjectsInv, MayCall, OthersIdle, Idle(MainThread), UNCHANGED objectVars,
         NEW on \in {"now", "destructor"},
         calls' = [calls EXCEPT ![MainThread] = <<Frame("callbacks", on, "pop", << >>)>>]
  PROVE  StacksOK' /\ ObjectsInv' /\ ObjectMoved(MainThread)
<1> DEFINE f == Frame("callbacks", on, "pop", << >>)
<1>1. MainThread \in OSThreads /\ calls[MainThread] = << >>
  BY OSThreadsAssumption DEF Idle
<1>2. f.fn = "callbacks" /\ f.pc = "pop" /\ f \in Frames
  <2>1. "pop" \in Pcs /\ << >> \in Locals
    BY NoLocals DEF Pcs
  <2>2. f \in Frames
    BY <2>1, FrameType
  <2>3. QED BY <2>2, FrameFields
<1>3. FrameOK(f) /\ FitsIn(f, cell, life) /\ TopRelies(f) = {} /\ \A q : ~Handles(f, q)
  BY <1>2 DEF FrameOK, FitsIn, TopRelies, Handles
<1>4. calls' = [calls EXCEPT ![MainThread] = <<f>>]
  OBVIOUS
<1> HIDE DEF f
<1>5. StackOK(MainThread, <<f>>)
  BY <1>2, <1>3, StackStarts
<1>6. \A j \in 1..Len(<<f>>) : FitsIn(<<f>>[j], cell, life) /\ \A q : ~Handles(<<f>>[j], q)
  BY <1>3, One
<1>7. Last(<<f>>) = f /\ <<f>>[1] = f
  BY One DEF Last
<1>8. OnlyOf(MainThread) /\ calls'[MainThread] = <<f>> /\ ObjectsInv'
  BY <1>1, <1>3, <1>4, <1>5, <1>6, <1>7, QuietBegan
<1>9. StacksOK'
  <2>1. managers' = managers
    BY DEF objectVars
  <2>2. QED BY <1>1, <1>8, <2>1, StacksStayFrom
<1>10. ObjectMoved(MainThread)
  BY <1>1, <1>2, <1>7, <1>8 DEF ObjectMoved, ObjectStack
<1>11. QED BY <1>8, <1>9, <1>10

LEMMA ProcessCallbacksNowKeeps ==
  ASSUME StacksOK, ObjectsInv, ProcessCallbacksNow
  PROVE  StacksOK' /\ ObjectsInv' /\ ObjectMoved(MainThread)
<1>1. /\ MayCall /\ OthersIdle /\ Idle(MainThread) /\ UNCHANGED objectVars
      /\ calls' = [calls EXCEPT ![MainThread] = <<Frame("callbacks", "now", "pop", << >>)>>]
  BY DEF ProcessCallbacksNow, UserCalls, Spend
<1>2. QED BY <1>1, CallbacksBegin

LEMMA DestroyManagerKeeps ==
  ASSUME StacksOK, ObjectsInv, DestroyManager
  PROVE  StacksOK' /\ ObjectsInv' /\ ObjectMoved(MainThread)
<1>1. /\ MayCall /\ OthersIdle /\ Idle(MainThread) /\ UNCHANGED objectVars
      /\ calls' = [calls EXCEPT ![MainThread] = <<Frame("callbacks", "destructor", "pop", << >>)>>]
  BY DEF DestroyManager
<1>2. QED BY <1>1, CallbacksBegin

LEMMA ShadowKeeps ==
  ASSUME StacksOK, ObjectsInv, Shadow
  PROVE  StacksOK' /\ ObjectsInv' /\ ObjectMoved(MainThread)
<1>1. /\ ~Processing /\ calls[MainThread] = << >> /\ MainThread \in OSThreads /\ calls' = calls
      /\ managers' = Append(managers, << >>) /\ cell' = cell /\ life' = life /\ under' = under
  BY OSThreadsAssumption DEF Shadow, MayCall, Spend, Idle
<1>2. calls \in [OSThreads -> Seq(Frames)] /\ StackOK(MainThread, << >>)
  BY <1>1 DEF StacksOK
<1>3. calls' = [calls EXCEPT ![MainThread] = << >>]
  BY <1>1, <1>2
<1>4. OnlyOf(MainThread) /\ Moved(MainThread, 0, << >>) /\ calls'[MainThread] = << >>
  BY <1>1, <1>2, <1>3, Began
<1>5. managers \in Seq(Seq(Objects))
  BY DEF ObjectsInv, ObjectTypes
<1>6. managers' \in Seq(Seq(Objects)) /\ managers' # << >> /\ \A m, k, q : AtIn(managers', m, k, q) <=> AtIn(managers, m, k, q)
  BY <1>1, <1>5, AtShadowed
<1>7. \A q : ~TopHandles(MainThread, 0, q)
  <2>1. Len(calls[MainThread]) # 0 + 1
    BY <1>1
  <2>2. QED BY <2>1 DEF TopHandles
<1>8. Relies(MainThread)' = {}
  BY <1>1, <1>4, ReliesTop
<1>9. Len(<< >>) \in Nat /\ \A j \in 1..Len(<< >>) : FALSE
  OBVIOUS
<1>10. ObjectsInv'
  BY <1>1, <1>4, <1>6, <1>7, <1>8, <1>9, QuietStep
<1>11. StacksOK'
  <2>1. Processing' <=> Processing
    BY <1>1 DEF Processing, Holds
  <2>2. StacksOK' <=>
          /\ calls' \in [OSThreads -> Seq(Frames)]
          /\ \A u \in OSThreads : StackOK(u, calls'[u])
          /\ Processing' =>
               managers' # << >> /\ \A u \in OSThreads \ {MainThread} : calls'[u] # << >> => calls'[u][1].fn = "exits"
    BY DEF StacksOK, StackOK, Frames, Pcs, Locals, FrameOK, CalledBy, Rank, Passed
  <2>3. QED BY <1>1, <2>1, <2>2 DEF StacksOK
<1>12. QED BY <1>1, <1>4, <1>10, <1>11 DEF ObjectMoved, ObjectStack

LEMMA ProcessedKeeps ==
  ASSUME StacksOK, ObjectsInv, NEW t \in OSThreads, Processed(t)
  PROVE  StacksOK' /\ ObjectsInv' /\ ObjectMoved(t)
<1>1. /\ In(t, "callbacks", "pop") /\ Return(t) /\ ~Making("callbacks", "pop") /\ Last(managers) = << >>
      /\ managers' = (IF On(t) = "destructor" THEN Front(managers) ELSE managers)
      /\ cell' = cell /\ life' = life /\ under' = under
  BY DEF Processed, Making
<1>2. /\ calls[t] # << >> /\ OnlyOf(t) /\ SameFirst(t) /\ TopIs(t, Len(calls[t]) - 1, "callbacks", "pop")
      /\ Moved(t, Len(calls[t]) - 1, << >>) /\ Len(<< >>) = 0 /\ Len(calls[t]) = Len(calls[t]) - 1 + 1
  BY <1>1, ComesBack
<1>3. Len(calls[t]) = 1 /\ t = MainThread /\ Processing
  <2>1. Len(calls[t]) \in 1..Len(calls[t]) /\ calls[t][Len(calls[t])].fn = "callbacks" /\ StackOK(t, calls[t])
    BY <1>2, StackTop DEF StacksOK, TopIs
  <2>2. Len(calls[t]) = 1
    BY <2>1, Positions
  <2>3. t = MainThread
    BY <1>2, <2>1, <2>2 DEF StackOK
  <2>4. DOMAIN calls[t] = 1..Len(calls[t])
    BY <2>1 DEF StackOK
  <2>5. QED BY <2>1, <2>2, <2>3, <2>4 DEF Processing, Holds
<1>4. calls'[t] = << >>
  <2>1. Len(calls[t]) - 1 = 0
    BY <1>3
  <2>2. QED BY <1>2, <2>1, TopAfter
<1>5. Relies(t)' = {}
  BY <1>4, ReliesTop
<1>6. managers \in Seq(Seq(Objects)) /\ managers # << >>
  BY <1>3 DEF ObjectsInv, ObjectTypes, StacksOK
<1>7. managers' \in Seq(Seq(Objects)) /\ \A m, k, q : AtIn(managers', m, k, q) <=> AtIn(managers, m, k, q)
  <2>1. CASE On(t) = "destructor"
    BY <1>1, <1>6, <2>1, AtDropped
  <2>2. CASE On(t) # "destructor"
    BY <1>1, <1>6, <2>2
  <2>3. QED BY <2>1, <2>2
<1>8. \A q : ~TopHandles(t, Len(calls[t]) - 1, q)
  BY <1>1, <1>2, NotMaking
<1>9. Len(<< >>) \in Nat /\ \A j \in 1..Len(<< >>) : FALSE
  OBVIOUS
<1>10. ObjectsInv'
  BY <1>1, <1>2, <1>5, <1>7, <1>8, <1>9, QuietStep
<1>11. StacksOK'
  BY <1>2, <1>3, <1>4, StacksStayIn
<1>12. QED BY <1>1, <1>2, <1>10, <1>11, ObjectMovedIn

-----------------------------------------------------------------------------
(* The steps that make, register or destroy an object o.                       *)
WorkCells(o) ==
  /\ cell' \in [Objects -> {"empty", "creating", "created"}]
  /\ life' \in [Objects -> {"none", "constructing", "alive", "destroying"}]
  /\ \A q \in Objects : q # o => cell'[q] = cell[q] /\ life'[q] = life[q]
WorkFrames(t, n, new, o) ==
  /\ t \in OSThreads /\ Len(new) \in Nat /\ Moved(t, n, new) /\ OnlyOf(t)
  /\ \A q : TopHandles(t, n, q) => q = o
  /\ \A j \in 1..Len(new) : \A q : Handles(new[j], q) => q = o
  /\ TopHandles(t, n, o) \/ Sites(o) = {}
OthersSame(o) == \A q \in Objects : q # o => Sites(q)' = Sites(q) /\ life'[q] = life[q]

LEMMA OtherSites ==
  ASSUME NEW t, NEW n, NEW new, NEW o, WorkFrames(t, n, new, o)
  PROVE  \A q : q # o => Sites(q)' = Sites(q)
<1>1. SUFFICES ASSUME NEW q, q # o PROVE Sites(q)' = Sites(q)
  OBVIOUS
<1>2. t \in OSThreads /\ Len(new) \in Nat /\ Moved(t, n, new)
  BY DEF WorkFrames
<1>3. ~TopHandles(t, n, q) /\ \A j \in 1..Len(new) : ~Handles(new[j], q)
  BY <1>1 DEF WorkFrames
<1>4. TopHandles(t, n, q) <=> Len(new) > 0 /\ Handles(new[1], q)
  <2>1. Len(new) > 0 => 1 \in 1..Len(new)
    BY <1>2
  <2>2. QED BY <1>3, <2>1
<1>5. QED BY <1>2, <1>3, <1>4, SitesSame

LEMMA WorkStep ==
  ASSUME ObjectsInv, StacksOK, NEW t, NEW n, NEW new, NEW o \in Objects, WorkFrames(t, n, new, o), WorkCells(o),
         \/ cell'[o] # "empty" /\ (cell'[o] = "created" => life'[o] = "alive")
         \/ \A u, k : Kept(t, n, u, k) => calls[u][k].fn \in {"callbacks", "exits"},
         \A j \in 1..Len(new) : FitsIn(new[j], cell', life'),
         CellFits(o)', \A x, y \in Sites(o)' : x = y,
         \/ life[o] # "alive" \/ life'[o] = "alive"
         \/ \A u \in OSThreads \ {t} : Relies(u) = {},
         \A q \in Relies(t)' : life'[q] = "alive"
  PROVE  CellsFit' /\ CallsFit' /\ OneSite' /\ ReliedAlive' /\ OthersSame(o)
<1>1. /\ t \in OSThreads /\ Len(new) \in Nat /\ Moved(t, n, new) /\ OnlyOf(t) /\ n \in Nat
      /\ \A q : TopHandles(t, n, q) => q = o
      /\ \A j \in 1..Len(new) : \A q : Handles(new[j], q) => q = o
      /\ TopHandles(t, n, o) \/ Sites(o) = {}
  BY DEF WorkFrames, Moved
<1>2. \A q \in Objects : q # o => cell'[q] = cell[q] /\ life'[q] = life[q]
  BY DEF WorkCells
<1>3. OthersSame(o)
  <2>1. \A q : q # o => Sites(q)' = Sites(q)
    BY OtherSites
  <2>2. QED BY <1>2, <2>1 DEF OthersSame
<1>4. CellsFit'
  <2>1. SUFFICES ASSUME NEW q \in Objects PROVE CellFits(q)'
    BY DEF CellsFit
  <2>2. CASE q = o
    BY <2>2
  <2>3. CASE q # o
    <3>1. CellFits(q)
      BY DEF ObjectsInv, CellsFit
    <3>2. QED BY <1>2, <1>3, <2>3, <3>1, CellFitsStill DEF OthersSame
  <2>4. QED BY <2>2, <2>3
<1>5. \A x, y \in Sites(o) : x = y
  BY DEF ObjectsInv, OneSite
<1>6. CallsFit'
  <2>1. \A u, k : Kept(t, n, u, k) => ~Handles(calls[u][k], o)
    BY <1>1, <1>5, KeptDoNotHandle
  <2>2. QED BY <1>1, <1>2, <2>1, CallsFitAfter
<1>7. OneSite'
  <2>1. \A q \in Objects : q # o => \A x, y \in Sites(q)' : x = y
    BY <1>3 DEF OthersSame, ObjectsInv, OneSite
  <2>2. QED BY <2>1 DEF OneSite
<1>8. ReliedAlive'
  BY <1>1, <1>2, ReliedAfter
<1>9. QED BY <1>3, <1>4, <1>6, <1>7, <1>8

(* When the managers do not change.                                          *)
LEMMA SamePlaces ==
  ASSUME managers' = managers
  PROVE  /\ \A m, k, q : At(m, k, q)' <=> At(m, k, q)
         /\ \A q : InPlace(q)' <=> InPlace(q)
<1>1. \A m, k, q : At(m, k, q)' <=> At(m, k, q)
  BY DEF At, AtIn
<1>2. QED BY <1>1 DEF InPlace

LEMMA PlacedAfter ==
  ASSUME ObjectsInv, managers' = managers, NEW o \in Objects, OthersSame(o),
         ~(life[o] = "alive" /\ o \notin Leaky /\ ~Handled(o)),
         ~(life'[o] = "alive" /\ o \notin Leaky /\ ~(Sites(o)' # {}))
  PROVE  Placed' /\ PlacedOnce'
<1>1. \A q \in Objects : InPlace(q) <=> life[q] = "alive" /\ q \notin Leaky /\ ~Handled(q)
  BY DEF ObjectsInv, Placed
<1>2. \A q \in Objects : InPlace(q)' <=> life'[q] = "alive" /\ q \notin Leaky /\ ~Handled(q)'
  <2>1. TAKE q \in Objects
  <2>2. Handled(q)' <=> Sites(q)' # {}
    BY DEF Handled
  <2>3. CASE q = o
    BY <1>1, <2>2, <2>3, SamePlaces
  <2>4. CASE q # o
    <3>1. Handled(q)' <=> Handled(q)
      BY <2>4 DEF Handled, OthersSame
    <3>2. life'[q] = life[q]
      BY <2>4 DEF OthersSame
    <3>3. QED BY <1>1, <3>1, <3>2, SamePlaces
  <2>5. QED BY <2>3, <2>4
<1>3. Placed'
  BY <1>2 DEF Placed
<1>4. PlacedOnce'
  BY SamePlaces DEF PlacedOnce, ObjectsInv
<1>5. QED BY <1>3, <1>4

LEMMA OrderedAfter ==
  ASSUME ObjectsInv, managers' = managers,
         \A o \in Objects, q \in Objects \ Leaky : o \in under'[q] /\ life'[q] \in {"constructing", "alive"} =>
           \/ o \in under[q] /\ life[q] \in {"constructing", "alive"}
           \/ InPlace(o) /\ ~InPlace(q)
  PROVE  Ordered'
<1>1. ASSUME NEW o \in Objects, NEW q \in Objects \ Leaky, o \in under'[q], life'[q] \in {"constructing", "alive"}
      PROVE  InPlace(o) /\ \A m, n, j, k \in Nat : At(m, k, o) /\ At(n, j, q) => Sooner(m, k, n, j)
  <2>1. CASE o \in under[q] /\ life[q] \in {"constructing", "alive"}
    BY <2>1 DEF ObjectsInv, Ordered
  <2>2. CASE InPlace(o) /\ ~InPlace(q)
    BY <2>2 DEF InPlace
  <2>3. QED BY <1>1, <2>1, <2>2
<1>2. \A o \in Objects, q \in Objects \ Leaky : o \in under'[q] /\ life'[q] \in {"constructing", "alive"} =>
        InPlace(o)' /\ \A m, n, j, k \in Nat : At(m, k, o)' /\ At(n, j, q)' => Sooner(m, k, n, j)
  BY <1>1, SamePlaces
<1>3. QED BY <1>2 DEF Ordered, Sooner

(* What t's innermost call, about o, says of it.                               *)
LEMMA TopSays ==
  ASSUME StacksOK, ObjectsInv, NEW t \in OSThreads, NEW fn, NEW pc_, In(t, fn, pc_)
  PROVE  LET c == Last(calls[t])
         IN  /\ FitsIn(c, cell, life) /\ FrameOK(c) /\ c.fn = fn /\ c.pc = pc_ /\ c.on = On(t)
             /\ fn \in {"use", "get", "exit"} => On(t) \in Objects
             /\ Making(fn, pc_) => TopHandles(t, Len(calls[t]) - 1, On(t)) /\ Handled(On(t))
             /\ \A q : TopHandles(t, Len(calls[t]) - 1, q) => q = On(t) /\ Making(fn, pc_)
<1> DEFINE c == Last(calls[t])
           n == Len(calls[t]) - 1
<1>1. TopIs(t, n, fn, pc_) /\ FrameOK(c)
  BY InTop
<1>2. calls[t] # << >> /\ c.fn = fn /\ c.pc = pc_ /\ c.on = On(t)
  BY DEF In, On
<1>3. Len(calls[t]) = n + 1 /\ calls[t][n + 1] = c /\ n + 1 \in Nat
  BY <1>1 DEF TopIs
<1>4. Len(calls[t]) \in 1..Len(calls[t])
  BY <1>2, StackTop DEF StacksOK
<1> HIDE DEF n
<1>5. FitsIn(c, cell, life)
  BY <1>3, <1>4 DEF ObjectsInv, CallsFit, ObjectFits
<1>6. \A q : TopHandles(t, n, q) <=> Handles(c, q)
  BY <1>3 DEF TopHandles
<1>7. \A q : Handles(c, q) => <<t, n + 1>> \in Sites(q)
  BY <1>3, <1>4 DEF Sites
<1>8. fn \in {"use", "get", "exit"} => On(t) \in Objects
  BY <1>1, <1>2 DEF FrameOK
<1>9. Making(fn, pc_) <=> Handles(c, On(t))
  BY <1>2 DEF Making, Handles
<1>10. \A q : Handles(c, q) => q = On(t)
  BY <1>2 DEF Handles
<1>11. QED BY <1>1, <1>2, <1>5, <1>6, <1>7, <1>8, <1>9, <1>10 DEF n, Handled

(* The call get goes on with, or returns from, is only one about o.            *)
LEMMA WorkFramesOn ==
  ASSUME StacksOK, ObjectsInv, NEW t \in OSThreads, NEW fn, NEW pc_, In(t, fn, pc_), NEW o, o = On(t), NEW next, NEW x,
         Moved(t, Len(calls[t]) - 1, <<Frame(fn, o, next, x)>>), OnlyOf(t),
         Making(fn, pc_) \/ Sites(o) = {}
  PROVE  /\ WorkFrames(t, Len(calls[t]) - 1, <<Frame(fn, o, next, x)>>, o)
         /\ Making(fn, pc_) /\ Making(fn, next) => Sites(o)' = Sites(o)
         /\ ~Making(fn, pc_) /\ Making(fn, next) => Sites(o)' = {<<t, Len(calls[t])>>}
<1> DEFINE c == Frame(fn, o, next, x)
           n == Len(calls[t]) - 1
<1>1. c.fn = fn /\ c.on = o /\ c.pc = next
  BY FrameFields
<1>2. \A q : Handles(c, q) => q = o
  BY <1>1 DEF Handles
<1>3. Handles(c, o) <=> Making(fn, next)
  BY <1>1 DEF Handles, Making
<1>4. /\ Making(fn, pc_) => TopHandles(t, n, o)
      /\ \A q : TopHandles(t, n, q) => q = o /\ Making(fn, pc_)
  BY TopSays
<1>5. Moved(t, n, <<c>>)
  OBVIOUS
<1>6. n + 1 = Len(calls[t])
  <2>1. TopIs(t, n, fn, pc_)
    BY InTop
  <2>2. QED BY <2>1 DEF TopIs
<1> HIDE DEF c, n
<1>7. /\ Len(<<c>>) \in Nat /\ Len(<<c>>) > 0 /\ <<c>>[1] = c /\ 1 \in 1..Len(<<c>>)
      /\ \A j \in 1..Len(<<c>>) : j = 1 /\ <<c>>[j] = c
  BY One
<1>8. WorkFrames(t, n, <<c>>, o)
  BY <1>2, <1>4, <1>5, <1>7 DEF WorkFrames
<1>9. ASSUME Making(fn, pc_), Making(fn, next) PROVE Sites(o)' = Sites(o)
  <2>1. TopHandles(t, n, o) <=> Len(<<c>>) > 0 /\ Handles(<<c>>[1], o)
    BY <1>3, <1>4, <1>7, <1>9
  <2>2. QED BY <1>5, <1>7, <2>1, SitesSame
<1>10. ASSUME ~Making(fn, pc_), Making(fn, next) PROVE Sites(o)' = {<<t, Len(calls[t])>>}
  <2>1. ~TopHandles(t, n, o) /\ Sites(o) = {}
    BY <1>4, <1>10
  <2>2. \A j \in 1..Len(<<c>>) : Handles(<<c>>[j], o) <=> j = 1
    BY <1>3, <1>7, <1>10
  <2>3. Sites(o)' = Sites(o) \cup {<<t, n + 1>>}
    BY <1>5, <1>7, <2>1, <2>2, SitesGainedFirst
  <2>4. QED BY <1>6, <2>1, <2>3
<1>11. QED BY <1>8, <1>9, <1>10 DEF c, n

LEMMA WorkFramesIn ==
  ASSUME StacksOK, ObjectsInv, NEW t \in OSThreads, NEW fn, NEW pc_, In(t, fn, pc_), NEW o, o = On(t), NEW next, NEW x, NEW f,
         \A q : ~Handles(f, q),
         Moved(t, Len(calls[t]) - 1, <<Frame(fn, o, next, x), f>>), OnlyOf(t),
         Making(fn, pc_) \/ Sites(o) = {}
  PROVE  /\ WorkFrames(t, Len(calls[t]) - 1, <<Frame(fn, o, next, x), f>>, o)
         /\ Making(fn, pc_) /\ Making(fn, next) => Sites(o)' = Sites(o)
         /\ ~Making(fn, pc_) /\ Making(fn, next) => Sites(o)' = {<<t, Len(calls[t])>>}
<1> DEFINE c == Frame(fn, o, next, x)
           n == Len(calls[t]) - 1
<1>1. c.fn = fn /\ c.on = o /\ c.pc = next
  BY FrameFields
<1>2. \A q : Handles(c, q) => q = o
  BY <1>1 DEF Handles
<1>3. Handles(c, o) <=> Making(fn, next)
  BY <1>1 DEF Handles, Making
<1>4. /\ Making(fn, pc_) => TopHandles(t, n, o)
      /\ \A q : TopHandles(t, n, q) => q = o /\ Making(fn, pc_)
  BY TopSays
<1>5. Moved(t, n, <<c, f>>)
  OBVIOUS
<1>6. n + 1 = Len(calls[t])
  <2>1. TopIs(t, n, fn, pc_)
    BY InTop
  <2>2. QED BY <2>1 DEF TopIs
<1> HIDE DEF c, n
<1>7. /\ Len(<<c, f>>) \in Nat /\ Len(<<c, f>>) > 0 /\ <<c, f>>[1] = c /\ 1 \in 1..Len(<<c, f>>)
      /\ \A j \in 1..Len(<<c, f>>) : (j = 1 /\ <<c, f>>[j] = c) \/ (j = 2 /\ <<c, f>>[j] = f)
  BY Two
<1>8. WorkFrames(t, n, <<c, f>>, o)
  BY <1>2, <1>4, <1>5, <1>7 DEF WorkFrames
<1>9. ASSUME Making(fn, pc_), Making(fn, next) PROVE Sites(o)' = Sites(o)
  <2>1. TopHandles(t, n, o) <=> Len(<<c, f>>) > 0 /\ Handles(<<c, f>>[1], o)
    BY <1>3, <1>4, <1>7, <1>9
  <2>2. \A j \in 1..Len(<<c, f>>) : Handles(<<c, f>>[j], o) => j = 1
    BY <1>7
  <2>3. QED BY <1>5, <1>7, <2>1, <2>2, SitesSame
<1>10. ASSUME ~Making(fn, pc_), Making(fn, next) PROVE Sites(o)' = {<<t, Len(calls[t])>>}
  <2>1. ~TopHandles(t, n, o) /\ Sites(o) = {}
    BY <1>4, <1>10
  <2>2. \A j \in 1..Len(<<c, f>>) : Handles(<<c, f>>[j], o) <=> j = 1
    BY <1>3, <1>7, <1>10
  <2>3. Sites(o)' = Sites(o) \cup {<<t, n + 1>>}
    BY <1>5, <1>7, <2>1, <2>2, SitesGainedFirst
  <2>4. QED BY <1>6, <2>1, <2>3
<1>11. QED BY <1>8, <1>9, <1>10 DEF c, n

LEMMA WorkFramesBack ==
  ASSUME StacksOK, ObjectsInv, NEW t \in OSThreads, NEW fn \in {"get", "exit"}, NEW pc_, In(t, fn, pc_), Making(fn, pc_),
         NEW o, o = On(t),
         Moved(t, Len(calls[t]) - 1, << >>), OnlyOf(t)
  PROVE  /\ WorkFrames(t, Len(calls[t]) - 1, << >>, o) /\ Sites(o)' = {}
<1> DEFINE n == Len(calls[t]) - 1
<1>1. TopHandles(t, n, o) /\ (\A q : TopHandles(t, n, q) => q = o) /\ o \in Objects
  BY TopSays
<1>2. Moved(t, n, << >>)
  OBVIOUS
<1> HIDE DEF n
<1>3. Len(<< >>) \in Nat /\ \A j \in 1..Len(<< >>) : FALSE
  OBVIOUS
<1>4. WorkFrames(t, n, << >>, o)
  BY <1>1, <1>2, <1>3 DEF WorkFrames
<1>5. \A x, y \in Sites(o) : x = y
  BY <1>1 DEF ObjectsInv, OneSite
<1>6. Sites(o)' = {}
  BY <1>1, <1>2, <1>3, <1>5, SitesLost
<1>7. QED BY <1>4, <1>6 DEF n

(* The constructor or the destructor of o begins: it gets what it uses, if any. *)
LEMMA BeginsWork ==
  ASSUME StacksOK, ObjectsInv, NEW t \in OSThreads, NEW fn \in {"get", "exit"}, NEW pc_, In(t, fn, pc_),
         NEW o, o = On(t), NEW next \in {"new", "delete"}, fn = "get" <=> next = "new",
         GoTo(t, next, << >>, GetUsed(o)), Making(fn, pc_) \/ Sites(o) = {},
         FitsIn(Frame(fn, o, next, << >>), cell', life')
  PROVE  /\ OnlyOf(t) /\ SameFirst(t) /\ calls[t] # << >> /\ o \in Objects /\ Relies(t)' = {}
         /\ \E new : /\ WorkFrames(t, Len(calls[t]) - 1, new, o)
                     /\ \A j \in 1..Len(new) : FitsIn(new[j], cell', life')
         /\ Making(fn, pc_) => Sites(o)' = Sites(o)
         /\ ~Making(fn, pc_) => Sites(o)' = {<<t, Len(calls[t])>>}
<1> DEFINE c == Frame(fn, o, next, << >>)
           n == Len(calls[t]) - 1
<1>1. o \in Objects
  BY TopSays
<1>2. /\ c.fn = fn /\ c.on = o /\ c.pc = next /\ Making(fn, next)
  BY FrameFields DEF Making
<1>3. next \in Pcs /\ << >> \in Locals /\ FrameOK(c)
  BY <1>1, <1>2, NoLocals DEF Pcs, FrameOK
<1>4. FitsIn(c, cell', life')
  OBVIOUS
<1>5. CASE Uses[o] = NULL
  <2>1. GoTo(t, next, << >>, << >>)
    BY <1>5 DEF GetUsed
  <2>2. /\ calls[t] # << >> /\ OnlyOf(t) /\ SameFirst(t) /\ Moved(t, Len(calls[t]) - 1, <<Frame(fn, o, next, << >>)>>)
    BY <1>3, <2>1, GoesOn
  <2>3. /\ WorkFrames(t, Len(calls[t]) - 1, <<Frame(fn, o, next, << >>)>>, o)
        /\ Making(fn, pc_) => Sites(o)' = Sites(o)
        /\ ~Making(fn, pc_) => Sites(o)' = {<<t, Len(calls[t])>>}
    BY <1>2, <2>2, WorkFramesOn
  <2>4. calls'[t] # << >> /\ Last(calls'[t]) = c
    <3>1. Len(<<c>>) \in Nat /\ Len(<<c>>) > 0 /\ <<c>>[Len(<<c>>)] = c
      BY One
    <3>2. Moved(t, Len(calls[t]) - 1, <<c>>) /\ OnlyOf(t)
      BY <2>2
    <3> HIDE DEF c
    <3>3. QED BY <3>1, <3>2, TopAfter
  <2>5. TopRelies(c) = {}
    BY <1>2, <1>5 DEF TopRelies
  <2>6. Relies(t)' = {}
    BY <2>4, <2>5, ReliesTop
  <2>7. \A j \in 1..Len(<<c>>) : FitsIn(<<c>>[j], cell', life')
    BY <1>4, One
  <2>8. QED BY <1>1, <2>2, <2>3, <2>6, <2>7
<1>6. CASE Uses[o] # NULL
  <2> DEFINE f == GetCall(Uses[o])
  <2>1. GoTo(t, next, << >>, <<f>>)
    BY <1>6 DEF GetUsed
  <2>2. Uses[o] \in Objects
    BY <1>1, <1>6, RankFact
  <2>3. f \in Frames /\ FrameOK(f) /\ f.fn = "get" /\ f.on = Uses[o] /\ TopRelies(f) = {} /\ FitsIn(f, cell', life')
        /\ \A q : ~Handles(f, q)
    BY <2>2, GetCallOK
  <2> HIDE DEF f
  <2>4. CalledBy(f, c)
    BY <1>2, <2>3 DEF CalledBy
  <2>5. /\ calls[t] # << >> /\ OnlyOf(t) /\ SameFirst(t) /\ Moved(t, Len(calls[t]) - 1, <<Frame(fn, o, next, << >>), f>>)
    BY <1>3, <2>1, <2>3, <2>4, GoesIn
  <2>6. /\ WorkFrames(t, Len(calls[t]) - 1, <<Frame(fn, o, next, << >>), f>>, o)
        /\ Making(fn, pc_) => Sites(o)' = Sites(o)
        /\ ~Making(fn, pc_) => Sites(o)' = {<<t, Len(calls[t])>>}
    BY <1>2, <2>3, <2>5, WorkFramesIn
  <2>7. calls'[t] # << >> /\ Last(calls'[t]) = f
    BY <2>5, Two, TopAfter
  <2>8. Relies(t)' = {}
    BY <2>3, <2>7, ReliesTop
  <2>9. \A j \in 1..Len(<<c, f>>) : FitsIn(<<c, f>>[j], cell', life')
    BY <1>4, <2>3, Two
  <2>10. QED BY <1>1, <2>5, <2>6, <2>8, <2>9
<1>7. QED BY <1>5, <1>6

(* Nobody makes or destroys what nobody has made.                              *)
LEMMA NoSites ==
  ASSUME StacksOK, ObjectsInv, NEW t \in OSThreads, In(t, "get", "swap"), NEW o, o = On(t), cell[o] = "empty"
  PROVE  Sites(o) = {}
<1>1. SUFFICES ASSUME NEW s \in Sites(o) PROVE FALSE
  OBVIOUS
<1> DEFINE u == s[1]
           k == s[2]
           d == calls[u][k]
<1>2. u \in OSThreads /\ k \in 1..Len(calls[u]) /\ Handles(d, o)
  BY <1>1, SitesPairs DEF Sites
<1>3. FitsIn(d, cell, life) /\ FrameOK(d)
  BY <1>2, FrameIn DEF ObjectsInv, CallsFit, ObjectFits
<1> HIDE DEF u, k
<1>4. d.fn = "exit" /\ d.on = o
  BY <1>2, <1>3 DEF Handles, FitsIn
<1>5. Processing /\ u = MainThread /\ k = 2
  BY <1>2, <1>4, ExitsWhileProcessing
<1>6. ObjectStack(calls[t]) /\ calls[t] # << >>
  BY ObjectTop DEF In
<1>7. t = MainThread
  <2>1. calls[t][1].fn # "exits"
    BY <1>6 DEF ObjectStack
  <2>2. QED BY <1>5, <1>6, <2>1, WhoProcesses
<1>8. /\ Len(calls[t]) \in 1..Len(calls[t]) /\ calls[t][Len(calls[t])].fn = "get" /\ StackOK(t, calls[t])
      /\ calls[t][Len(calls[t])].on = o
  <2>1. Last(calls[t]) = calls[t][Len(calls[t])] /\ Len(calls[t]) \in 1..Len(calls[t])
    BY <1>6, StackTop DEF StacksOK
  <2>2. QED BY <2>1, TopSays DEF StacksOK
<1>9. 2 \in 1..Len(calls[t]) /\ calls[t][2].fn = "exit" /\ calls[t][2].on = o
  BY <1>2, <1>4, <1>5, <1>7
<1>10. 2 < Len(calls[t])
  <2>1. Len(calls[t]) # 2
    BY <1>8, <1>9
  <2>2. QED BY <1>8, <1>9, <2>1
<1>11. Rank[o] < Rank[o]
  <2>1. Rank[calls[t][Len(calls[t])].on] < Rank[calls[t][2].on]
    BY <1>8, <1>9, <1>10 DEF StackOK
  <2>2. QED BY <1>8, <1>9, <2>1
<1>12. o \in Objects
  BY TopSays
<1>13. QED BY <1>11, <1>12, RankFact

LEMMA RegisteredInPlace ==
  ASSUME ObjectsInv
  PROVE  \A q \in Registered : InPlace(q) /\ q \in Objects
<1>1. SUFFICES ASSUME NEW q \in Registered PROVE InPlace(q) /\ q \in Objects
  OBVIOUS
<1>2. PICK m \in DOMAIN managers : q \in Range(managers[m])
  BY <1>1 DEF Registered
<1>3. PICK k \in DOMAIN managers[m] : managers[m][k] = q
  BY <1>2 DEF Range
<1>4. AtIn(managers, m, k, q)
  BY <1>2, <1>3 DEF AtIn
<1>5. managers \in Seq(Seq(Objects))
  BY DEF ObjectsInv, ObjectTypes
<1>6. m \in Nat /\ k \in Nat /\ q \in Objects
  BY <1>4, <1>5, AtBounds
<1>7. QED BY <1>4, <1>6 DEF InPlace, At

LEMMA SwapKeeps ==
  ASSUME StacksOK, ObjectsInv, NEW t \in OSThreads, Swap(t)
  PROVE  StacksOK' /\ ObjectsInv' /\ ObjectMoved(t)
<1>1. In(t, "get", "swap") /\ managers' = managers /\ ~Making("get", "swap")
  BY DEF Swap, Making
<1>2. PICK o \in Objects : o = On(t)
  BY <1>1, TopSays
<1>3. CASE ~Wins(o)
  <2> DEFINE c == Frame("get", On(t), "spin", << >>)
  <2>1. GoTo(t, "spin", << >>, << >>) /\ UNCHANGED objectVars
    BY <1>2, <1>3 DEF Swap, objectVars
  <2>2. c.fn = "get" /\ c.on = On(t) /\ c.pc = "spin" /\ ~Making("get", "spin")
    BY FrameFields DEF Making
  <2>3. "spin" \in Pcs /\ << >> \in Locals
    BY NoLocals DEF Pcs
  <2>4. FrameOK(c) /\ FitsIn(c, cell, life) /\ TopRelies(c) = {}
    BY <1>2, <1>3, <2>2 DEF FrameOK, FitsIn, TopRelies, Wins
  <2>5. StacksOK' /\ ObjectsInv'
    BY <1>1, <2>1, <2>2, <2>3, <2>4, QuietOn
  <2>6. OnlyOf(t) /\ SameFirst(t)
    BY <1>1, <2>1, <2>3, <2>4, GoesOn
  <2>7. QED BY <1>1, <2>5, <2>6, ObjectMovedIn
<1>4. CASE Wins(o)
  <2>1. /\ cell' = [cell EXCEPT ![o] = "creating"] /\ life' = [life EXCEPT ![o] = "constructing"]
        /\ under' = [under EXCEPT ![o] = Registered] /\ GoTo(t, "new", << >>, GetUsed(o)) /\ cell[o] = "empty"
    BY <1>2, <1>4 DEF Swap, Wins
  <2>2. Sites(o) = {}
    BY <1>1, <1>2, <2>1, NoSites
  <2>3. /\ cell \in [Objects -> {"empty", "creating", "created"}]
        /\ life \in [Objects -> {"none", "constructing", "alive", "destroying"}]
        /\ under \in [Objects -> SUBSET Objects] /\ managers \in Seq(Seq(Objects))
    BY DEF ObjectsInv, ObjectTypes
  <2>4. WorkCells(o) /\ cell'[o] = "creating" /\ life'[o] = "constructing"
    BY <2>1, <2>3 DEF WorkCells
  <2>5. FitsIn(Frame("get", o, "new", << >>), cell', life')
    BY <2>4, FrameFields DEF FitsIn
  <2>6. /\ OnlyOf(t) /\ SameFirst(t) /\ calls[t] # << >> /\ Relies(t)' = {}
        /\ \E new : /\ WorkFrames(t, Len(calls[t]) - 1, new, o)
                    /\ \A j \in 1..Len(new) : FitsIn(new[j], cell', life')
        /\ Sites(o)' = {<<t, Len(calls[t])>>}
    BY <1>1, <1>2, <2>1, <2>2, <2>5, BeginsWork
  <2>7. CellFits(o)'
    BY <2>4, <2>6 DEF CellFits, Handled
  <2>8. life[o] # "alive"
    BY <2>1 DEF ObjectsInv, CellsFit, CellFits
  <2>9. CellsFit' /\ CallsFit' /\ OneSite' /\ ReliedAlive' /\ OthersSame(o)
    <3>1. \A x, y \in Sites(o)' : x = y
      BY <2>6
    <3>2. cell'[o] # "empty" /\ (cell'[o] = "created" => life'[o] = "alive")
      BY <2>4
    <3>3. PICK new : /\ WorkFrames(t, Len(calls[t]) - 1, new, o)
                     /\ \A j \in 1..Len(new) : FitsIn(new[j], cell', life')
      BY <2>6
    <3>4. \A q \in Relies(t)' : life'[q] = "alive"
      BY <2>6
    <3>5. QED BY <2>4, <2>7, <2>8, <3>1, <3>2, <3>3, <3>4, WorkStep
  <2>10. Placed' /\ PlacedOnce'
    BY <1>1, <2>4, <2>8, <2>9, PlacedAfter
  <2>11. Ordered'
    <3>1. ~InPlace(o)
      BY <2>8 DEF ObjectsInv, Placed
    <3>2. under'[o] = Registered /\ \A q \in Objects : q # o => under'[q] = under[q]
      BY <2>1, <2>3
    <3>3. \A p_ \in under'[o] : InPlace(p_)
      BY <3>2, RegisteredInPlace
    <3>4. \A q \in Objects : q # o => life'[q] = life[q]
      BY <2>4 DEF WorkCells
    <3>5. QED BY <1>1, <3>1, <3>2, <3>3, <3>4, OrderedAfter
  <2>12. ObjectTypes'
    <3>1. Registered \subseteq Objects
      BY RegisteredInPlace
    <3>2. under' \in [Objects -> SUBSET Objects]
      BY <2>1, <2>3, <3>1
    <3>3. QED BY <1>1, <2>3, <2>4, <3>2 DEF ObjectTypes, WorkCells
  <2>13. StacksOK'
    BY <1>1, <2>6, SameManagers
  <2>14. ObjectMoved(t)
    BY <1>1, <2>6, ObjectMovedIn
  <2>15. QED BY <2>9, <2>10, <2>11, <2>12, <2>13, <2>14 DEF ObjectsInv
<1>5. QED BY <1>3, <1>4

LEMMA NewKeeps ==
  ASSUME StacksOK, ObjectsInv, NEW t \in OSThreads, New(t)
  PROVE  StacksOK' /\ ObjectsInv' /\ ObjectMoved(t)
<1>1. /\ In(t, "get", "new") /\ managers' = managers /\ cell' = cell /\ under' = under
      /\ Making("get", "new") /\ Making("get", "store")
  BY DEF New, Making
<1>2. PICK o \in Objects : o = On(t)
  BY <1>1, TopSays
<1>3. life' = [life EXCEPT ![o] = "alive"] /\ GoTo(t, "store", << >>, << >>)
  BY <1>2 DEF New
<1>4. cell[o] = "creating" /\ life[o] = "constructing" /\ Handled(o)
  BY <1>1, <1>2, TopSays DEF FitsIn
<1>5. /\ cell \in [Objects -> {"empty", "creating", "created"}]
      /\ life \in [Objects -> {"none", "constructing", "alive", "destroying"}]
  BY DEF ObjectsInv, ObjectTypes
<1>6. WorkCells(o) /\ cell'[o] = "creating" /\ life'[o] = "alive"
  BY <1>1, <1>3, <1>4, <1>5 DEF WorkCells
<1> DEFINE c == Frame("get", o, "store", << >>)
<1>7. c.fn = "get" /\ c.on = o /\ c.pc = "store"
  BY FrameFields
<1>8. "store" \in Pcs /\ << >> \in Locals /\ FrameOK(c) /\ FitsIn(c, cell', life') /\ TopRelies(c) = {}
  BY <1>6, <1>7, NoLocals DEF Pcs, FrameOK, FitsIn, TopRelies
<1>9. /\ calls[t] # << >> /\ OnlyOf(t) /\ SameFirst(t) /\ Moved(t, Len(calls[t]) - 1, <<c>>)
  BY <1>1, <1>2, <1>3, <1>8, GoesOn
<1>10. WorkFrames(t, Len(calls[t]) - 1, <<c>>, o) /\ Sites(o)' = Sites(o)
  BY <1>1, <1>2, <1>9, WorkFramesOn
<1> HIDE DEF c
<1>11. Sites(o)' # {}
  BY <1>4, <1>10 DEF Handled
<1>12. Relies(t)' = {}
  <2>1. Len(<<c>>) \in Nat /\ Len(<<c>>) > 0 /\ <<c>>[Len(<<c>>)] = c
    BY One
  <2>2. calls'[t] # << >> /\ Last(calls'[t]) = c
    BY <1>9, <2>1, TopAfter
  <2>3. QED BY <1>8, <2>2, ReliesTop
<1>13. CellsFit' /\ CallsFit' /\ OneSite' /\ ReliedAlive' /\ OthersSame(o)
  <2>1. \A x, y \in Sites(o)' : x = y
    BY <1>10 DEF ObjectsInv, OneSite
  <2>2. cell'[o] # "empty" /\ (cell'[o] = "created" => life'[o] = "alive")
    BY <1>6
  <2>3. \A j \in 1..Len(<<c>>) : FitsIn(<<c>>[j], cell', life')
    BY <1>8, One
  <2>4. \A q \in Relies(t)' : life'[q] = "alive"
    BY <1>12
  <2>5. CellFits(o)'
    BY <1>6, <1>11 DEF CellFits, Handled
  <2>6. QED BY <1>4, <1>6, <1>10, <2>1, <2>2, <2>3, <2>4, <2>5, WorkStep
<1>14. Placed' /\ PlacedOnce'
  BY <1>1, <1>4, <1>11, <1>13, PlacedAfter
<1>15. Ordered'
  <2>1. \A q \in Objects : life'[q] \in {"constructing", "alive"} => life[q] \in {"constructing", "alive"}
    BY <1>4, <1>6 DEF WorkCells
  <2>2. QED BY <1>1, <2>1, OrderedAfter
<1>16. ObjectTypes'
  BY <1>1, <1>6 DEF ObjectsInv, ObjectTypes, WorkCells
<1>17. StacksOK'
  BY <1>1, <1>9, SameManagers
<1>18. ObjectMoved(t)
  BY <1>1, <1>9, ObjectMovedIn
<1>19. QED BY <1>13, <1>14, <1>15, <1>16, <1>17, <1>18 DEF ObjectsInv

LEMMA StoreKeeps ==
  ASSUME StacksOK, ObjectsInv, NEW t \in OSThreads, Store(t)
  PROVE  StacksOK' /\ ObjectsInv' /\ ObjectMoved(t)
<1>1. /\ In(t, "get", "store") /\ managers' = managers /\ life' = life /\ under' = under
      /\ Making("get", "store") /\ Making("get", "register")
  BY DEF Store, Making
<1>2. PICK o \in Objects : o = On(t)
  BY <1>1, TopSays
<1>3. cell' = [cell EXCEPT ![o] = "created"]
  BY <1>2 DEF Store, Stored
<1>4. cell[o] = "creating" /\ life[o] = "alive" /\ Handled(o)
  BY <1>1, <1>2, TopSays DEF FitsIn
<1>5. /\ cell \in [Objects -> {"empty", "creating", "created"}]
      /\ life \in [Objects -> {"none", "constructing", "alive", "destroying"}]
  BY DEF ObjectsInv, ObjectTypes
<1>6. WorkCells(o) /\ cell'[o] = "created" /\ life'[o] = "alive"
  BY <1>1, <1>3, <1>4, <1>5 DEF WorkCells
<1>7. CellFits(o)'
  BY <1>6 DEF CellFits
<1>8. Ordered'
  BY <1>1, OrderedAfter
<1>9. ObjectTypes'
  BY <1>1, <1>6 DEF ObjectsInv, ObjectTypes, WorkCells
<1>10. cell'[o] # "empty" /\ (cell'[o] = "created" => life'[o] = "alive")
  BY <1>6
<1>11. CASE o \in Leaky
  <2>1. Return(t)
    BY <1>2, <1>11 DEF Store
  <2>2. /\ OnlyOf(t) /\ SameFirst(t) /\ calls[t] # << >> /\ Moved(t, Len(calls[t]) - 1, << >>)
    BY <1>1, <2>1, ComesBack
  <2>3. WorkFrames(t, Len(calls[t]) - 1, << >>, o) /\ Sites(o)' = {}
    BY <1>1, <1>2, <2>2, WorkFramesBack
  <2>4. \A q \in Relies(t)' : life'[q] = "alive"
    BY <1>1, <1>2, <1>6, <2>1, ReturnRelies
  <2>5. CellsFit' /\ CallsFit' /\ OneSite' /\ ReliedAlive' /\ OthersSame(o)
    <3>1. \A x, y \in Sites(o)' : x = y
      BY <2>3
    <3>2. \A j \in 1..Len(<< >>) : FitsIn(<< >>[j], cell', life')
      OBVIOUS
    <3>3. QED BY <1>6, <1>7, <1>10, <2>3, <2>4, <3>1, <3>2, WorkStep
  <2>6. Placed' /\ PlacedOnce'
    BY <1>1, <1>4, <1>11, <2>5, PlacedAfter
  <2>7. StacksOK'
    BY <1>1, <2>2, SameManagers
  <2>8. ObjectMoved(t)
    BY <1>1, <2>2, ObjectMovedIn
  <2>9. QED BY <1>8, <1>9, <2>5, <2>6, <2>7, <2>8 DEF ObjectsInv
<1>12. CASE o \notin Leaky
  <2> DEFINE c == Frame("get", o, "register", << >>)
  <2>1. GoTo(t, "register", << >>, << >>)
    BY <1>2, <1>12 DEF Store
  <2>2. c.fn = "get" /\ c.on = o /\ c.pc = "register"
    BY FrameFields
  <2>3. "register" \in Pcs /\ << >> \in Locals /\ FrameOK(c) /\ FitsIn(c, cell', life') /\ TopRelies(c) = {}
    BY <1>6, <1>12, <2>2, NoLocals DEF Pcs, FrameOK, FitsIn, TopRelies
  <2>4. /\ calls[t] # << >> /\ OnlyOf(t) /\ SameFirst(t) /\ Moved(t, Len(calls[t]) - 1, <<c>>)
    BY <1>1, <1>2, <2>1, <2>3, GoesOn
  <2>5. WorkFrames(t, Len(calls[t]) - 1, <<c>>, o) /\ Sites(o)' = Sites(o)
    BY <1>1, <1>2, <2>4, WorkFramesOn
  <2> HIDE DEF c
  <2>6. Sites(o)' # {}
    BY <1>4, <2>5 DEF Handled
  <2>7. Relies(t)' = {}
    <3>1. Len(<<c>>) \in Nat /\ Len(<<c>>) > 0 /\ <<c>>[Len(<<c>>)] = c
      BY One
    <3>2. calls'[t] # << >> /\ Last(calls'[t]) = c
      BY <2>4, <3>1, TopAfter
    <3>3. QED BY <2>3, <3>2, ReliesTop
  <2>8. CellsFit' /\ CallsFit' /\ OneSite' /\ ReliedAlive' /\ OthersSame(o)
    <3>1. \A x, y \in Sites(o)' : x = y
      BY <2>5 DEF ObjectsInv, OneSite
    <3>2. \A j \in 1..Len(<<c>>) : FitsIn(<<c>>[j], cell', life')
      BY <2>3, One
    <3>3. \A q \in Relies(t)' : life'[q] = "alive"
      BY <2>7
    <3>4. QED BY <1>6, <1>7, <1>10, <2>5, <3>1, <3>2, <3>3, WorkStep
  <2>9. Placed' /\ PlacedOnce'
    BY <1>1, <1>4, <2>6, <2>8, PlacedAfter
  <2>10. StacksOK'
    BY <1>1, <2>4, SameManagers
  <2>11. ObjectMoved(t)
    BY <1>1, <2>4, ObjectMovedIn
  <2>12. QED BY <1>8, <1>9, <2>8, <2>9, <2>10, <2>11 DEF ObjectsInv
<1>13. QED BY <1>11, <1>12

LEMMA RegisterKeeps ==
  ASSUME StacksOK, ObjectsInv, NEW t \in OSThreads, Register(t)
  PROVE  StacksOK' /\ ObjectsInv' /\ ObjectMoved(t)
<1>1. /\ In(t, "get", "register") /\ managers # << >> /\ Return(t) /\ cell' = cell /\ life' = life /\ under' = under
      /\ Making("get", "register")
  BY DEF Register, Making
<1>2. PICK o \in Objects : o = On(t)
  BY <1>1, TopSays
<1>3. managers' = TopReplaced(managers, Append(Last(managers), o))
  BY <1>2 DEF Register, TopReplaced
<1>4. cell[o] = "created" /\ life[o] = "alive" /\ Handled(o) /\ o \notin Leaky
  BY <1>1, <1>2, TopSays DEF FitsIn, FrameOK
<1>5. /\ cell \in [Objects -> {"empty", "creating", "created"}]
      /\ life \in [Objects -> {"none", "constructing", "alive", "destroying"}]
      /\ managers \in Seq(Seq(Objects))
  BY DEF ObjectsInv, ObjectTypes
<1>6. WorkCells(o) /\ cell'[o] = "created" /\ life'[o] = "alive" /\ CellFits(o)'
  BY <1>1, <1>4, <1>5 DEF WorkCells, CellFits
<1>7. /\ OnlyOf(t) /\ SameFirst(t) /\ calls[t] # << >> /\ Moved(t, Len(calls[t]) - 1, << >>)
  BY <1>1, ComesBack
<1>8. WorkFrames(t, Len(calls[t]) - 1, << >>, o) /\ Sites(o)' = {}
  BY <1>1, <1>2, <1>7, WorkFramesBack
<1>9. CellsFit' /\ CallsFit' /\ OneSite' /\ ReliedAlive' /\ OthersSame(o)
  <2>1. \A x, y \in Sites(o)' : x = y
    BY <1>8
  <2>2. \A j \in 1..Len(<< >>) : FitsIn(<< >>[j], cell', life')
    OBVIOUS
  <2>3. \A q \in Relies(t)' : life'[q] = "alive"
    BY <1>1, <1>2, <1>6, ReturnRelies
  <2>4. cell'[o] # "empty" /\ (cell'[o] = "created" => life'[o] = "alive")
    BY <1>6
  <2>5. QED BY <1>6, <1>8, <2>1, <2>2, <2>3, <2>4, WorkStep
<1> DEFINE M == Len(managers)
           L == Len(Last(managers)) + 1
<1>10. /\ managers' \in Seq(Seq(Objects)) /\ M \in Nat /\ L \in Nat
       /\ \A m, k, q : At(m, k, q)' <=> At(m, k, q) \/ (m = M /\ k = L /\ o = q)
  <2>1. /\ managers' \in Seq(Seq(Objects)) /\ M \in Nat /\ L \in Nat
        /\ \A m, k, q : AtIn(managers', m, k, q) <=> AtIn(managers, m, k, q) \/ (m = M /\ k = L /\ o = q)
    BY <1>1, <1>3, <1>5, AtRegistered
  <2>2. QED BY <2>1 DEF At, AtIn
<1>11. \A m, k, q : At(m, k, q) => m \in Nat /\ m <= M /\ (m = M => k < L)
  <2>1. TAKE m, k, q
  <2>2. HAVE At(m, k, q)
  <2>3. /\ m \in Nat /\ k \in Nat /\ m <= Len(managers) /\ Len(Last(managers)) \in Nat
        /\ m = Len(managers) => k <= Len(Last(managers))
    BY <1>5, <2>2, AtBounds DEF At
  <2>4. QED BY <2>3
<1> HIDE DEF M, L
<1>12. ~InPlace(o)
  BY <1>4 DEF ObjectsInv, Placed
<1>13. \A q : q # o => (InPlace(q)' <=> InPlace(q))
  BY <1>10 DEF InPlace
<1>14. InPlace(o)'
  BY <1>10 DEF InPlace
<1>15. Placed'
  <2>1. SUFFICES ASSUME NEW q \in Objects
                 PROVE  InPlace(q)' <=> life'[q] = "alive" /\ q \notin Leaky /\ ~Handled(q)'
    BY DEF Placed
  <2>2. CASE q = o
    BY <1>4, <1>6, <1>8, <1>14, <2>2 DEF Handled
  <2>3. CASE q # o
    <3>1. Handled(q)' <=> Handled(q)
      BY <1>9, <2>3 DEF Handled, OthersSame
    <3>2. InPlace(q) <=> life[q] = "alive" /\ q \notin Leaky /\ ~Handled(q)
      BY DEF ObjectsInv, Placed
    <3>3. QED BY <1>1, <1>13, <2>3, <3>1, <3>2
  <2>4. QED BY <2>2, <2>3
<1>16. PlacedOnce'
  <2>1. ASSUME NEW q \in Objects, NEW m \in Nat, NEW n \in Nat, NEW j \in Nat, NEW k \in Nat, At(m, k, q)', At(n, j, q)'
        PROVE  m = n /\ k = j
    <3>1. CASE q = o
      <4>1. ~At(m, k, q) /\ ~At(n, j, q)
        BY <1>12, <3>1 DEF InPlace
      <4>2. QED BY <1>10, <2>1, <4>1
    <3>2. CASE q # o
      <4>1. At(m, k, q) /\ At(n, j, q)
        BY <1>10, <2>1, <3>2
      <4>2. QED BY <4>1 DEF ObjectsInv, PlacedOnce
    <3>3. QED BY <3>1, <3>2
  <2>2. QED BY <2>1 DEF PlacedOnce
<1>17. Ordered'
  <2>1. ASSUME NEW p_ \in Objects, NEW q \in Objects \ Leaky, p_ \in under[q], life[q] \in {"constructing", "alive"}
        PROVE  InPlace(p_)' /\ \A m, n, j, k \in Nat : At(m, k, p_)' /\ At(n, j, q)' => Sooner(m, k, n, j)
    <3>1. InPlace(p_) /\ \A m, n, j, k \in Nat : At(m, k, p_) /\ At(n, j, q) => Sooner(m, k, n, j)
      BY <2>1 DEF ObjectsInv, Ordered
    <3>2. p_ # o
      BY <1>12, <3>1
    <3>3. ASSUME NEW m \in Nat, NEW n \in Nat, NEW j \in Nat, NEW k \in Nat, At(m, k, p_)', At(n, j, q)'
          PROVE  Sooner(m, k, n, j)
      <4>1. At(m, k, p_)
        BY <1>10, <3>2, <3>3
      <4>2. CASE At(n, j, q)
        BY <3>1, <4>1, <4>2
      <4>3. CASE n = M /\ j = L
        <5>1. m <= M /\ (m = M => k < L)
          BY <1>11, <4>1
        <5>2. QED BY <1>10, <4>3, <5>1 DEF Sooner
      <4>4. QED BY <1>10, <3>3, <4>2, <4>3
    <3>4. QED BY <1>13, <3>1, <3>2, <3>3
  <2>2. \A p_ \in Objects, q \in Objects \ Leaky : p_ \in under'[q] /\ life'[q] \in {"constructing", "alive"} =>
          InPlace(p_)' /\ \A m, n, j, k \in Nat : At(m, k, p_)' /\ At(n, j, q)' => Sooner(m, k, n, j)
    BY <1>1, <2>1
  <2>3. QED BY <2>2 DEF Ordered, Sooner
<1>18. ObjectTypes'
  BY <1>1, <1>5, <1>10 DEF ObjectsInv, ObjectTypes
<1>19. StacksOK'
  <2>1. managers' # << >>
    <3>1. PICK m \in Nat, k \in Nat : At(m, k, o)'
      BY <1>14 DEF InPlace
    <3>2. AtIn(managers', m, k, o)
      BY <3>1 DEF At, AtIn
    <3>3. QED BY <1>10, <3>2, AtBounds
  <2>2. QED BY <1>7, <2>1, StacksStayIn
<1>20. ObjectMoved(t)
  BY <1>1, <1>7, ObjectMovedIn
<1>21. QED BY <1>9, <1>15, <1>16, <1>17, <1>18, <1>19, <1>20 DEF ObjectsInv

LEMMA OthersRelyOnNothing ==
  ASSUME StacksOK, Processing, NEW u \in OSThreads, u # MainThread
  PROVE  Relies(u) = {}
<1>1. CASE calls[u] = << >>
  BY <1>1, ReliesTop
<1>2. CASE calls[u] # << >>
  <2>1. Last(calls[u]) = calls[u][Len(calls[u])] /\ Len(calls[u]) \in 1..Len(calls[u])
    BY <1>2, StackTop DEF StacksOK
  <2>2. Last(calls[u]).fn = "exits"
    BY <2>1, OthersExit
  <2>3. TopRelies(Last(calls[u])) = {}
    BY <2>2 DEF TopRelies
  <2>4. QED BY <1>2, <2>3, ReliesTop
<1>3. QED BY <1>1, <1>2

(* The call that destroys an object is above the one that processes callbacks.  *)
LEMMA ExitAt ==
  ASSUME StacksOK, NEW t \in OSThreads, NEW pc_, In(t, "exit", pc_)
  PROVE  /\ Processing /\ t = MainThread /\ Len(calls[t]) = 2 /\ calls[t][1].fn = "callbacks" /\ Len(calls[t]) - 1 = 1
         /\ \A u, k : Kept(t, 1, u, k) => calls[u][k].fn \in {"callbacks", "exits"}
<1>1. TopIs(t, Len(calls[t]) - 1, "exit", pc_)
  BY InTop
<1>2. Len(calls[t]) \in 1..Len(calls[t]) /\ StackOK(t, calls[t]) /\ calls[t][Len(calls[t])].fn = "exit"
  BY <1>1, StackTop DEF StacksOK, TopIs
<1>3. Len(calls[t]) = 2 /\ calls[t][1].fn = "callbacks"
  <2>1. PICK k \in 1..Len(calls[t]) : k = Len(calls[t])
    BY <1>2
  <2>2. calls[t][k].fn = "exit"
    BY <1>2, <2>1
  <2>3. k = 2 /\ calls[t][1].fn = "callbacks"
    BY <1>2, <2>2, Positions
  <2>4. QED BY <2>1, <2>3
<1>4. Processing /\ t = MainThread
  BY <1>2, ExitsWhileProcessing
<1>5. ASSUME NEW u, NEW k, Kept(t, 1, u, k) PROVE calls[u][k].fn \in {"callbacks", "exits"}
  <2>1. CASE u = t
    <3>1. k = 1
      BY <1>3, <1>5, <2>1 DEF Kept
    <3>2. QED BY <1>3, <2>1, <3>1
  <2>2. CASE u # t
    BY <1>4, <1>5, <2>2, OthersExit DEF Kept
  <2>3. QED BY <2>1, <2>2
<1>6. QED BY <1>3, <1>4, <1>5

LEMMA TakeKeeps ==
  ASSUME StacksOK, ObjectsInv, NEW t \in OSThreads, Take(t)
  PROVE  StacksOK' /\ ObjectsInv' /\ ObjectMoved(t)
<1>1. In(t, "exit", "take") /\ managers' = managers /\ under' = under /\ Making("exit", "take")
  BY DEF Take, Making
<1>2. PICK o \in Objects : o = On(t)
  BY <1>1, TopSays
<1>3. /\ cell' = (IF o \in Lazy THEN cell ELSE [cell EXCEPT ![o] = "empty"])
      /\ life' = [life EXCEPT ![o] = "destroying"] /\ GoTo(t, "delete", << >>, GetUsed(o))
  BY <1>2 DEF Take
<1>4. cell[o] = "created" /\ life[o] = "alive" /\ Handled(o) /\ o \notin Leaky
  BY <1>1, <1>2, TopSays DEF FitsIn
<1>5. /\ cell \in [Objects -> {"empty", "creating", "created"}]
      /\ life \in [Objects -> {"none", "constructing", "alive", "destroying"}]
  BY DEF ObjectsInv, ObjectTypes
<1>6. WorkCells(o) /\ cell'[o] = (IF o \in Lazy THEN "created" ELSE "empty") /\ life'[o] = "destroying"
  BY <1>3, <1>4, <1>5 DEF WorkCells
<1>7. FitsIn(Frame("exit", o, "delete", << >>), cell', life')
  BY <1>4, <1>6, FrameFields DEF FitsIn
<1>8. /\ OnlyOf(t) /\ SameFirst(t) /\ calls[t] # << >> /\ Relies(t)' = {}
      /\ \E new : /\ WorkFrames(t, Len(calls[t]) - 1, new, o)
                  /\ \A j \in 1..Len(new) : FitsIn(new[j], cell', life')
      /\ Sites(o)' = Sites(o)
  BY <1>1, <1>2, <1>3, <1>7, BeginsWork
<1>9. /\ Processing /\ t = MainThread /\ Len(calls[t]) - 1 = 1
      /\ \A u, k : Kept(t, Len(calls[t]) - 1, u, k) => calls[u][k].fn \in {"callbacks", "exits"}
  BY <1>1, ExitAt
<1>10. Sites(o)' # {}
  BY <1>4, <1>8 DEF Handled
<1>11. CellFits(o)'
  BY <1>6, <1>10 DEF CellFits, Handled
<1>12. CellsFit' /\ CallsFit' /\ OneSite' /\ ReliedAlive' /\ OthersSame(o)
  <2>1. \A x, y \in Sites(o)' : x = y
    BY <1>8 DEF ObjectsInv, OneSite
  <2>2. \A u \in OSThreads \ {t} : Relies(u) = {}
    BY <1>9, OthersRelyOnNothing
  <2>3. PICK new : /\ WorkFrames(t, Len(calls[t]) - 1, new, o)
                   /\ \A j \in 1..Len(new) : FitsIn(new[j], cell', life')
    BY <1>8
  <2>4. \A q \in Relies(t)' : life'[q] = "alive"
    BY <1>8
  <2>5. QED BY <1>6, <1>9, <1>11, <2>1, <2>2, <2>3, <2>4, WorkStep
<1>13. Placed' /\ PlacedOnce'
  BY <1>1, <1>4, <1>6, <1>12, PlacedAfter
<1>14. Ordered'
  <2>1. \A q \in Objects : life'[q] \in {"constructing", "alive"} => life[q] \in {"constructing", "alive"}
    BY <1>4, <1>6 DEF WorkCells
  <2>2. QED BY <1>1, <2>1, OrderedAfter
<1>15. ObjectTypes'
  BY <1>1, <1>6 DEF ObjectsInv, ObjectTypes, WorkCells
<1>16. StacksOK'
  BY <1>1, <1>8, SameManagers
<1>17. ObjectMoved(t)
  BY <1>1, <1>8, ObjectMovedIn
<1>18. QED BY <1>12, <1>13, <1>14, <1>15, <1>16, <1>17 DEF ObjectsInv

LEMMA DeleteKeeps ==
  ASSUME StacksOK, ObjectsInv, NEW t \in OSThreads, Delete(t)
  PROVE  StacksOK' /\ ObjectsInv' /\ ObjectMoved(t)
<1>1. In(t, "exit", "delete") /\ managers' = managers /\ cell' = cell /\ Making("exit", "delete") /\ Return(t)
  BY DEF Delete, Making
<1>2. PICK o \in Objects : o = On(t)
  BY <1>1, TopSays
<1>3. /\ life' = [life EXCEPT ![o] = "none"]
      /\ under' = [p_ \in Objects |-> IF p_ = o THEN {} ELSE under[p_] \ {o}]
  BY <1>2 DEF Delete
<1>4. cell[o] = (IF o \in Lazy THEN "created" ELSE "empty") /\ life[o] = "destroying" /\ o \notin Leaky
  BY <1>1, <1>2, TopSays DEF FitsIn
<1>5. /\ cell \in [Objects -> {"empty", "creating", "created"}]
      /\ life \in [Objects -> {"none", "constructing", "alive", "destroying"}]
      /\ under \in [Objects -> SUBSET Objects]
  BY DEF ObjectsInv, ObjectTypes
<1>6. WorkCells(o) /\ cell'[o] = cell[o] /\ life'[o] = "none"
  BY <1>1, <1>3, <1>4, <1>5 DEF WorkCells
<1>7. CellFits(o)'
  BY <1>4, <1>6 DEF CellFits
<1>8. /\ OnlyOf(t) /\ SameFirst(t) /\ calls[t] # << >> /\ Moved(t, Len(calls[t]) - 1, << >>)
  BY <1>1, ComesBack
<1>9. WorkFrames(t, Len(calls[t]) - 1, << >>, o) /\ Sites(o)' = {}
  BY <1>1, <1>2, <1>8, WorkFramesBack
<1>10. /\ Processing /\ t = MainThread /\ Len(calls[t]) - 1 = 1 /\ calls[t][1].fn = "callbacks"
       /\ \A u, k : Kept(t, Len(calls[t]) - 1, u, k) => calls[u][k].fn \in {"callbacks", "exits"}
  BY <1>1, ExitAt
<1>11. Relies(t)' = {}
  <2>1. Len(<< >>) = 0 /\ Len(<< >>) \in Nat /\ Len(calls[t]) - 1 > 0
    <3>1. \A m : m = 1 => m > 0
      OBVIOUS
    <3>2. QED BY <1>10, <3>1
  <2>2. calls'[t] # << >> /\ Last(calls'[t]) = calls[t][1]
    BY <1>8, <1>10, <2>1, TopAfter
  <2>3. TopRelies(Last(calls'[t])) = {}
    BY <1>10, <2>2 DEF TopRelies
  <2>4. QED BY <2>2, <2>3, ReliesTop
<1>12. CellsFit' /\ CallsFit' /\ OneSite' /\ ReliedAlive' /\ OthersSame(o)
  <2>1. \A x, y \in Sites(o)' : x = y
    BY <1>9
  <2>2. \A j \in 1..Len(<< >>) : FitsIn(<< >>[j], cell', life')
    OBVIOUS
  <2>3. life[o] # "alive" /\ \A q \in Relies(t)' : life'[q] = "alive"
    BY <1>4, <1>11
  <2>4. QED BY <1>6, <1>7, <1>9, <1>10, <2>1, <2>2, <2>3, WorkStep
<1>13. Placed' /\ PlacedOnce'
  BY <1>1, <1>4, <1>6, <1>12, PlacedAfter
<1>14. Ordered'
  <2>1. \A q \in Objects : life'[q] \in {"constructing", "alive"} => life[q] \in {"constructing", "alive"}
    BY <1>4, <1>6 DEF WorkCells
  <2>2. \A q \in Objects : under'[q] \subseteq under[q]
    BY <1>3
  <2>3. QED BY <1>1, <2>1, <2>2, OrderedAfter
<1>15. ObjectTypes'
  <2>1. under' \in [Objects -> SUBSET Objects]
    BY <1>3, <1>5
  <2>2. QED BY <1>1, <1>6, <2>1 DEF ObjectsInv, ObjectTypes, WorkCells
<1>16. StacksOK'
  BY <1>1, <1>8, SameManagers
<1>17. ObjectMoved(t)
  BY <1>1, <1>8, ObjectMovedIn
<1>18. QED BY <1>12, <1>13, <1>14, <1>15, <1>16, <1>17 DEF ObjectsInv

(* Nothing is made or destroyed when the next callback is about to be popped.   *)
LEMMA NoneHandled ==
  ASSUME StacksOK, NEW t \in OSThreads, In(t, "callbacks", "pop")
  PROVE  /\ t = MainThread /\ Len(calls[t]) = 1 /\ Len(calls[t]) - 1 = 0 /\ Processing
         /\ \A q : Sites(q) = {}
<1>1. TopIs(t, Len(calls[t]) - 1, "callbacks", "pop")
  BY InTop
<1>2. Len(calls[t]) \in 1..Len(calls[t]) /\ StackOK(t, calls[t]) /\ calls[t][Len(calls[t])].fn = "callbacks"
  BY <1>1, StackTop DEF StacksOK, TopIs
<1>3. Len(calls[t]) = 1
  <2>1. PICK k \in 1..Len(calls[t]) : k = Len(calls[t])
    BY <1>2
  <2>2. calls[t][k].fn = "callbacks"
    BY <1>2, <2>1
  <2>3. k = 1
    BY <1>2, <2>2, Positions
  <2>4. QED BY <2>1, <2>3
<1>4. t = MainThread
  BY <1>1, <1>2, <1>3 DEF StackOK, TopIs
<1>5. Processing
  <2>1. DOMAIN calls[t] = 1..Len(calls[t])
    BY <1>2 DEF StackOK
  <2>2. QED BY <1>2, <1>4, <2>1 DEF Processing, Holds
<1>6. \A q : Sites(q) = {}
  <2>1. SUFFICES ASSUME NEW q, NEW s \in Sites(q) PROVE FALSE
    OBVIOUS
  <2> DEFINE u == s[1]
             k == s[2]
  <2>2. u \in OSThreads /\ k \in 1..Len(calls[u]) /\ Handles(calls[u][k], q)
    BY <2>1, SitesPairs DEF Sites
  <2> HIDE DEF u, k
  <2>3. calls[u][k].fn \in {"exit", "get"}
    BY <2>2 DEF Handles
  <2>4. CASE u = MainThread
    <3>1. k = 1
      BY <1>3, <1>4, <2>2, <2>4
    <3>2. calls[u][k].fn = "callbacks"
      BY <1>2, <1>3, <1>4, <2>4, <3>1
    <3>3. QED BY <2>3, <3>2
  <2>5. CASE u # MainThread
    BY <1>5, <2>2, <2>3, <2>5, OthersExit
  <2>6. QED BY <2>4, <2>5
<1>7. QED BY <1>3, <1>4, <1>5, <1>6

LEMMA PopKeeps ==
  ASSUME StacksOK, ObjectsInv, NEW t \in OSThreads, Pop(t)
  PROVE  StacksOK' /\ ObjectsInv' /\ ObjectMoved(t)
<1>1. /\ In(t, "callbacks", "pop") /\ Last(managers) # << >> /\ cell' = cell /\ life' = life /\ under' = under
      /\ ~Making("callbacks", "pop")
  BY DEF Pop, Making
<1>2. t = MainThread /\ Len(calls[t]) = 1 /\ Len(calls[t]) - 1 = 0 /\ Processing /\ \A q : Sites(q) = {}
  BY <1>1, NoneHandled
<1> DEFINE M == Len(managers)
           L == Len(Last(managers))
<1>3. /\ cell \in [Objects -> {"empty", "creating", "created"}]
      /\ life \in [Objects -> {"none", "constructing", "alive", "destroying"}]
      /\ managers \in Seq(Seq(Objects)) /\ managers # << >>
  BY <1>2 DEF ObjectsInv, ObjectTypes, StacksOK
<1>4. PICK o : o = Last(managers)[L]
  OBVIOUS
<1>5. /\ managers' = TopReplaced(managers, RemoveAt(Last(managers), L))
      /\ GoTo(t, "pop", << >>, <<Frame("exit", o, "take", << >>)>>)
  BY <1>4 DEF Pop, TopReplaced, NextCallback
<1>6. /\ managers' \in Seq(Seq(Objects)) /\ managers' # << >> /\ AtIn(managers, M, L, o)
      /\ \A m, k, q : AtIn(managers', m, k, q) <=> AtIn(managers, m, k, q) /\ ~(m = M /\ k = L)
  BY <1>1, <1>3, <1>4, <1>5, AtPopped
<1>7. /\ At(M, L, o) /\ M \in Nat /\ L \in Nat /\ o \in Objects
      /\ \A m, k, q : At(m, k, q)' <=> At(m, k, q) /\ ~(m = M /\ k = L)
  <2>1. M \in Nat /\ L \in Nat /\ o \in Objects
    BY <1>3, <1>6, AtBounds
  <2>2. QED BY <1>6, <2>1 DEF At, AtIn
<1>8. \A m, k, q : At(m, k, q) => m \in Nat /\ m <= M /\ k \in Nat /\ (m = M => k <= L)
  BY <1>3, AtBounds DEF At
<1> HIDE DEF M, L
<1>9. InPlace(o)
  BY <1>7 DEF InPlace
<1>10. life[o] = "alive" /\ o \notin Leaky
  BY <1>7, <1>9 DEF ObjectsInv, Placed
<1>11. cell[o] = "created"
  BY <1>2, <1>3, <1>7, <1>10 DEF ObjectsInv, CellsFit, CellFits, Handled
<1> DEFINE c == Frame("callbacks", On(t), "pop", << >>)
           f == Frame("exit", o, "take", << >>)
<1>12. /\ c.fn = "callbacks" /\ c.pc = "pop" /\ f.fn = "exit" /\ f.on = o /\ f.pc = "take"
  BY FrameFields
<1>13. "pop" \in Pcs /\ "take" \in Pcs /\ << >> \in Locals /\ FrameOK(c) /\ f \in Frames /\ FrameOK(f) /\ CalledBy(f, c)
  <2>1. "pop" \in Pcs /\ "take" \in Pcs /\ << >> \in Locals
    BY NoLocals DEF Pcs
  <2>2. FrameOK(c) /\ FrameOK(f) /\ CalledBy(f, c)
    BY <1>7, <1>12 DEF FrameOK, CalledBy
  <2>3. f \in Frames
    BY <1>7, <2>1, FrameType
  <2>4. QED BY <2>1, <2>2, <2>3
<1>14. /\ OnlyOf(t) /\ SameFirst(t) /\ calls[t] # << >> /\ Moved(t, 0, <<c, f>>)
       /\ TopIs(t, Len(calls[t]) - 1, "callbacks", "pop")
  <2>1. /\ OnlyOf(t) /\ SameFirst(t) /\ calls[t] # << >> /\ Moved(t, Len(calls[t]) - 1, <<c, f>>)
        /\ TopIs(t, Len(calls[t]) - 1, "callbacks", "pop")
    BY <1>1, <1>5, <1>13, GoesIn
  <2>2. QED BY <1>2, <2>1
<1>15. FitsIn(c, cell', life') /\ FitsIn(f, cell', life')
  BY <1>1, <1>10, <1>11, <1>12 DEF FitsIn
<1>16. (\A q : ~Handles(c, q)) /\ (\A q : Handles(f, q) <=> q = o)
  BY <1>12 DEF Handles
<1>17. TopRelies(f) = {}
  BY <1>12 DEF TopRelies
<1>18. \A q : ~TopHandles(t, 0, q)
  <2>1. \A q : ~TopHandles(t, Len(calls[t]) - 1, q)
    BY <1>1, <1>14, NotMaking
  <2>2. QED BY <1>2, <2>1
<1> HIDE DEF c, f
<1>19. WorkFrames(t, 0, <<c, f>>, o)
  <2>1. \A j \in 1..Len(<<c, f>>) : \A q : Handles(<<c, f>>[j], q) => q = o
    BY <1>16, Two
  <2>2. QED BY <1>2, <1>14, <1>18, <2>1, Two DEF WorkFrames
<1>20. Sites(o)' = {<<t, 0 + 2>>}
  <2>1. PICK i \in 1..Len(<<c, f>>) : i = 2
    BY Two
  <2>2. PICK new : new = <<c, f>>
    OBVIOUS
  <2>3. \A j \in 1..Len(new) : Handles(new[j], o) <=> j = i
    BY <1>16, <2>1, <2>2, Two
  <2>4. PICK n \in Nat : n = 0
    OBVIOUS
  <2>5. Len(new) \in Nat /\ i \in 1..Len(new) /\ Moved(t, n, new) /\ ~TopHandles(t, n, o)
    BY <1>14, <1>18, <2>1, <2>2, <2>4, Two
  <2>6. Sites(o)' = Sites(o) \cup {<<t, n + i>>}
    BY <2>3, <2>5, SitesGained
  <2>7. QED BY <1>2, <2>1, <2>4, <2>6
<1>21. Relies(t)' = {}
  <2>1. Len(<<c, f>>) \in Nat /\ Len(<<c, f>>) > 0 /\ <<c, f>>[Len(<<c, f>>)] = f
    BY Two
  <2>2. calls'[t] # << >> /\ Last(calls'[t]) = f
    BY <1>14, <2>1, TopAfter
  <2>3. QED BY <1>17, <2>2, ReliesTop
<1>22. WorkCells(o) /\ cell'[o] = "created" /\ life'[o] = "alive" /\ CellFits(o)'
  BY <1>1, <1>3, <1>10, <1>11 DEF WorkCells, CellFits
<1>23. CellsFit' /\ CallsFit' /\ OneSite' /\ ReliedAlive' /\ OthersSame(o)
  <2>1. \A x, y \in Sites(o)' : x = y
    BY <1>20
  <2>2. \A j \in 1..Len(<<c, f>>) : FitsIn(<<c, f>>[j], cell', life')
    BY <1>15, Two
  <2>3. \A q \in Relies(t)' : life'[q] = "alive"
    BY <1>21
  <2>4. cell'[o] # "empty" /\ (cell'[o] = "created" => life'[o] = "alive")
    BY <1>22
  <2>5. QED BY <1>7, <1>19, <1>22, <2>1, <2>2, <2>3, <2>4, WorkStep
<1>24. \A q : q # o => (InPlace(q)' <=> InPlace(q))
  <2>1. \A q : At(M, L, q) => q = o
    BY <1>7 DEF At, AtIn
  <2>2. \A m, k, q : q # o => (At(m, k, q)' <=> At(m, k, q))
    BY <1>7, <2>1
  <2>3. QED BY <2>2 DEF InPlace
<1>25. ~InPlace(o)'
  <2>1. SUFFICES ASSUME NEW m \in Nat, NEW k \in Nat, At(m, k, o)' PROVE FALSE
    BY DEF InPlace
  <2>2. At(m, k, o) /\ ~(m = M /\ k = L)
    BY <1>7, <2>1
  <2>3. QED BY <1>7, <2>2 DEF ObjectsInv, PlacedOnce
<1>26. Placed'
  <2>1. SUFFICES ASSUME NEW q \in Objects
                 PROVE  InPlace(q)' <=> life'[q] = "alive" /\ q \notin Leaky /\ ~Handled(q)'
    BY DEF Placed
  <2>2. CASE q = o
    <3>1. Handled(q)'
      BY <1>20, <2>2 DEF Handled
    <3>2. QED BY <1>25, <2>2, <3>1
  <2>3. CASE q # o
    <3>1. Handled(q)' <=> Handled(q)
      BY <1>23, <2>3 DEF Handled, OthersSame
    <3>2. InPlace(q) <=> life[q] = "alive" /\ q \notin Leaky /\ ~Handled(q)
      BY DEF ObjectsInv, Placed
    <3>3. QED BY <1>1, <1>24, <2>3, <3>1, <3>2
  <2>4. QED BY <2>2, <2>3
<1>27. PlacedOnce'
  <2>1. ASSUME NEW q \in Objects, NEW m \in Nat, NEW n \in Nat, NEW j \in Nat, NEW k \in Nat, At(m, k, q)', At(n, j, q)'
        PROVE  m = n /\ k = j
    <3>1. At(m, k, q) /\ At(n, j, q)
      BY <1>7, <2>1
    <3>2. QED BY <3>1 DEF ObjectsInv, PlacedOnce
  <2>2. QED BY <2>1 DEF PlacedOnce
<1>28. Ordered'
  <2>1. ASSUME NEW p_ \in Objects, NEW q \in Objects \ Leaky, p_ \in under[q], life[q] \in {"constructing", "alive"}
        PROVE  InPlace(p_)' /\ \A m, n, j, k \in Nat : At(m, k, p_)' /\ At(n, j, q)' => Sooner(m, k, n, j)
    <3>1. InPlace(p_) /\ \A m, n, j, k \in Nat : At(m, k, p_) /\ At(n, j, q) => Sooner(m, k, n, j)
      BY <2>1 DEF ObjectsInv, Ordered
    <3>2. life[q] = "alive"
      BY <1>2, <1>3, <2>1 DEF ObjectsInv, CellsFit, CellFits, Handled
    <3>3. PICK n \in Nat, j \in Nat : At(n, j, q)
      BY <1>2, <2>1, <3>2 DEF ObjectsInv, Placed, Handled, InPlace
    <3>4. p_ # o
      <4>1. SUFFICES ASSUME p_ = o PROVE FALSE
        OBVIOUS
      <4>2. Sooner(M, L, n, j)
        BY <1>7, <3>1, <3>3, <4>1
      <4>3. n <= M /\ (n = M => j <= L)
        BY <1>8, <3>3
      <4>4. QED BY <1>7, <3>3, <4>2, <4>3 DEF Sooner
    <3>5. InPlace(p_)'
      BY <1>24, <3>1, <3>4
    <3>6. QED BY <1>7, <3>1, <3>5
  <2>2. \A p_ \in Objects, q \in Objects \ Leaky : p_ \in under'[q] /\ life'[q] \in {"constructing", "alive"} =>
          InPlace(p_)' /\ \A m, n, j, k \in Nat : At(m, k, p_)' /\ At(n, j, q)' => Sooner(m, k, n, j)
    BY <1>1, <2>1
  <2>3. QED BY <2>2 DEF Ordered, Sooner
<1>29. ObjectTypes'
  BY <1>1, <1>6 DEF ObjectsInv, ObjectTypes
<1>30. StacksOK'
  BY <1>6, <1>14, StacksStayIn
<1>31. ObjectMoved(t)
  BY <1>1, <1>14, ObjectMovedIn
<1>32. QED BY <1>23, <1>26, <1>27, <1>28, <1>29, <1>30, <1>31 DEF ObjectsInv

-----------------------------------------------------------------------------
(* Steps of calls about slots: their first and their innermost call.           *)
Ends(s, c, d) == s # << >> /\ s[1] = c /\ Last(s) = d
AboutSlots(fn) == fn \in {"initialize", "table", "getSlot", "setSlot", "exits"}

LEMMA SlotFrame ==
  ASSUME NEW c, AboutSlots(c.fn)
  PROVE  (\A cells, lives : FitsIn(c, cells, lives)) /\ TopRelies(c) = {} /\ \A q : ~Handles(c, q)
BY DEF AboutSlots, FitsIn, TopRelies, Handles

LEMMA SlotMaking ==
  ASSUME NEW fn, NEW pc_, AboutSlots(fn)
  PROVE  ~Making(fn, pc_)
BY DEF AboutSlots, Making

LEMMA SlotTop ==
  ASSUME StacksOK, NEW t \in OSThreads, NEW fn, NEW pc_, In(t, fn, pc_), AboutSlots(fn)
  PROVE  /\ calls[t] # << >> /\ StackOK(t, calls[t]) /\ Last(calls[t]) = calls[t][Len(calls[t])]
         /\ calls[t][1].fn \in {"initialize", "getSlot", "setSlot", "exits"}
         /\ Last(calls[t]) \in Frames /\ FrameOK(Last(calls[t])) /\ calls[t][1] \in Frames /\ FrameOK(calls[t][1])
         /\ Last(calls[t]).fn = fn /\ Last(calls[t]).pc = pc_ /\ Last(calls[t]).on = On(t) /\ Last(calls[t]).x = Local(t)
         /\ fn # "table" => Len(calls[t]) = 1 /\ Last(calls[t]) = calls[t][1]
         /\ fn = "table" => Len(calls[t]) = 2 /\ CalledBy(Last(calls[t]), calls[t][1])
<1>1. /\ calls[t] # << >> /\ StackOK(t, calls[t]) /\ Last(calls[t]).fn = fn /\ Last(calls[t]).pc = pc_
      /\ Last(calls[t]).on = On(t) /\ Last(calls[t]).x = Local(t)
  BY DEF In, On, Local, StacksOK
<1>2. /\ Last(calls[t]) = calls[t][Len(calls[t])] /\ Len(calls[t]) \in 1..Len(calls[t]) /\ 1 \in 1..Len(calls[t])
      /\ Last(calls[t]) \in Frames /\ FrameOK(Last(calls[t])) /\ calls[t] \in Seq(Frames)
  BY <1>1, StackTop
<1>3. calls[t][1] \in Frames /\ FrameOK(calls[t][1])
  BY <1>2, FrameIn
<1>4. PICK k \in 1..Len(calls[t]) : k = Len(calls[t])
  BY <1>2
<1>5. calls[t][k].fn = fn
  BY <1>1, <1>2, <1>4
<1>6. CASE fn = "table"
  <2>1. k = 2 /\ calls[t][1].fn \in {"initialize", "getSlot", "setSlot"}
    BY <1>1, <1>5, <1>6, Positions
  <2>2. CalledBy(calls[t][2], calls[t][1])
    <3>1. 1 \in 1..Len(calls[t]) - 1 /\ 1 + 1 = 2
      BY <1>4, <2>1
    <3>2. \A j \in 1..Len(calls[t]) - 1 : CalledBy(calls[t][j + 1], calls[t][j])
      BY <1>1 DEF StackOK
    <3>3. QED BY <3>1, <3>2
  <2>3. QED BY <1>1, <1>2, <1>3, <1>4, <1>6, <2>1, <2>2
<1>7. CASE fn # "table"
  <2>1. k = 1
    BY <1>1, <1>5, <1>7, Positions DEF AboutSlots
  <2>2. QED BY <1>1, <1>2, <1>3, <1>4, <1>7, <2>1 DEF AboutSlots
<1>8. QED BY <1>6, <1>7

SlotMoved(t) == StacksOK' /\ ObjectsInv' /\ OnlyOf(t)

(* The innermost call goes on, and no other.                                  *)
LEMMA SlotGoesOn ==
  ASSUME StacksOK, ObjectsInv, UNCHANGED objectVars, NEW t \in OSThreads, NEW fn, NEW pc_, In(t, fn, pc_), AboutSlots(fn),
         NEW next \in Pcs, NEW x \in Locals, GoTo(t, next, x, << >>), FrameOK(Frame(fn, On(t), next, x))
  PROVE  /\ SlotMoved(t)
         /\ Ends(calls'[t], IF fn = "table" THEN calls[t][1] ELSE Frame(fn, On(t), next, x), Frame(fn, On(t), next, x))
<1> DEFINE c == Frame(fn, On(t), next, x)
<1>1. AboutSlots(c.fn) /\ ~Making(fn, pc_) /\ ~Making(fn, next)
  BY FrameFields, SlotMaking
<1>2. FitsIn(c, cell, life) /\ TopRelies(c) = {}
  BY <1>1, SlotFrame
<1>3. StacksOK' /\ ObjectsInv'
  BY <1>1, <1>2, QuietOn
<1>4. OnlyOf(t) /\ Moved(t, Len(calls[t]) - 1, <<c>>) /\ calls[t] # << >>
  BY GoesOn
<1> HIDE DEF c
<1>5. Len(<<c>>) \in Nat /\ Len(<<c>>) = 1 /\ Len(<<c>>) > 0 /\ <<c>>[Len(<<c>>)] = c /\ <<c>>[1] = c /\ 1 \in 1..Len(<<c>>)
  BY One
<1>6. calls'[t] # << >> /\ Last(calls'[t]) = c
  BY <1>4, <1>5, TopAfter
<1>7. CASE fn = "table"
  <2>1. Len(calls[t]) = 2
    BY <1>7, SlotTop
  <2>2. 1 \in 1..Len(calls[t]) - 1
    BY <2>1
  <2>3. calls'[t][1] = calls[t][1]
    BY <1>4, <2>2 DEF Moved
  <2>4. QED BY <1>3, <1>4, <1>6, <1>7, <2>3 DEF SlotMoved, Ends, c
<1>8. CASE fn # "table"
  <2>1. Len(calls[t]) = 1
    BY <1>8, SlotTop
  <2>2. calls'[t][Len(calls[t]) - 1 + 1] = c
    BY <1>4, <1>5 DEF Moved
  <2>3. calls'[t][1] = c
    BY <2>1, <2>2
  <2>4. QED BY <1>3, <1>4, <1>6, <1>8, <2>3 DEF SlotMoved, Ends, c
<1>9. QED BY <1>7, <1>8

(* It returns, from the table it made or to user code.                         *)
LEMMA SlotReturns ==
  ASSUME StacksOK, ObjectsInv, UNCHANGED objectVars, NEW t \in OSThreads, NEW fn, NEW pc_, In(t, fn, pc_), AboutSlots(fn),
         Return(t)
  PROVE  /\ SlotMoved(t)
         /\ IF fn = "table" THEN Ends(calls'[t], calls[t][1], calls[t][1]) ELSE calls'[t] = << >>
<1>1. OnlyOf(t) /\ Moved(t, Len(calls[t]) - 1, << >>) /\ Len(<< >>) = 0 /\ calls[t] # << >>
  BY ComesBack
<1>2. Len(<< >>) \in Nat
  BY <1>1
<1>3. IF fn = "table" THEN Ends(calls'[t], calls[t][1], calls[t][1]) ELSE calls'[t] = << >>
  <2>1. CASE fn = "table"
    <3>1. Len(calls[t]) = 2
      BY <2>1, SlotTop
    <3>2. Len(calls[t]) - 1 = 1 /\ Len(calls[t]) - 1 > 0 /\ 1 \in 1..Len(calls[t]) - 1
      BY <3>1
    <3>3. calls'[t] # << >> /\ Last(calls'[t]) = calls[t][1]
      BY <1>1, <1>2, <3>2, TopAfter
    <3>4. calls'[t][1] = calls[t][1]
      BY <1>1, <3>2 DEF Moved
    <3>5. QED BY <2>1, <3>3, <3>4 DEF Ends
  <2>2. CASE fn # "table"
    <3>1. Len(calls[t]) = 1
      BY <2>2, SlotTop
    <3>2. Len(calls[t]) - 1 = 0
      BY <3>1
    <3>3. QED BY <1>1, <1>2, <2>2, <3>2, TopAfter
  <2>3. QED BY <2>1, <2>2
<1>4. Relies(t)' = {}
  <2>1. CASE fn = "table"
    <3>1. AboutSlots(calls[t][1].fn)
      BY SlotTop DEF AboutSlots
    <3>2. TopRelies(calls[t][1]) = {}
      BY <3>1, SlotFrame
    <3>3. calls'[t] # << >> /\ Last(calls'[t]) = calls[t][1]
      BY <1>3, <2>1 DEF Ends
    <3>4. QED BY <3>2, <3>3, ReliesTop
  <2>2. CASE fn # "table"
    <3>1. calls'[t] = << >>
      BY <1>3, <2>2
    <3>2. QED BY <3>1, ReliesTop
  <2>3. QED BY <2>1, <2>2
<1>5. ~Making(fn, pc_)
  BY SlotMaking
<1>6. \A q \in Relies(t)' : life[q] = "alive"
  BY <1>4
<1>7. StacksOK' /\ ObjectsInv'
  BY <1>5, <1>6, QuietReturn
<1>8. QED BY <1>1, <1>3, <1>7 DEF SlotMoved

(* User code calls f, which may first have to make a table.                     *)
LEMMA MakeTableOK ==
  /\ MakeTable \in Frames /\ FrameOK(MakeTable) /\ AboutSlots(MakeTable.fn)
  /\ MakeTable.fn = "table" /\ MakeTable.pc = "key" /\ MakeTable.on = NULL
<1>1. MakeTable.fn = "table" /\ MakeTable.pc = "key" /\ MakeTable.on = NULL
  BY FrameFields DEF MakeTable
<1>2. MakeTable \in Frames
  BY FrameType, NoLocals DEF MakeTable, Pcs
<1>3. QED BY <1>1, <1>2 DEF FrameOK, AboutSlots

LEMMA SlotBegins ==
  ASSUME StacksOK, ObjectsInv, UNCHANGED objectVars, NEW t \in OSThreads, calls[t] = << >>,
         NEW f \in Frames, FrameOK(f), f.fn \in {"initialize", "getSlot", "setSlot", "exits"},
         NEW r, r = <<f>> \/ (r = <<f, MakeTable>> /\ f.fn \in {"getSlot", "setSlot"}),
         calls' = [calls EXCEPT ![t] = r], MayCall \/ f.fn = "exits"
  PROVE  SlotMoved(t) /\ Ends(calls'[t], f, IF r = <<f>> THEN f ELSE MakeTable)
<1>1. AboutSlots(f.fn)
  BY DEF AboutSlots
<1>2. StackOK(t, <<f>>)
  BY StackStarts
<1>3. StackOK(t, r) /\ r # << >> /\ r[1] = f /\ Last(r) = (IF r = <<f>> THEN f ELSE MakeTable)
      /\ \A j \in 1..Len(r) : AboutSlots(r[j].fn)
  <2>1. CASE r = <<f>>
    <3>1. Last(<<f>>) = f /\ <<f>> # << >>
      BY DEF Last
    <3>2. \A j \in 1..Len(<<f>>) : <<f>>[j] = f /\ <<f>>[1] = f
      BY One
    <3>3. <<f>>[1] = f
      BY One
    <3>4. QED BY <1>1, <1>2, <2>1, <3>1, <3>2, <3>3
  <2>2. CASE r # <<f>>
    <3>1. r = <<f, MakeTable>> /\ f.fn \in {"getSlot", "setSlot"}
      BY <2>2
    <3>2. CalledBy(MakeTable, f) /\ <<f>>[Len(<<f>>)] = f
      BY <3>1, MakeTableOK, One DEF CalledBy
    <3>3. <<f>> # << >>
      OBVIOUS
    <3>4. StackOK(t, Append(<<f>>, MakeTable))
      BY <1>2, <3>2, <3>3, MakeTableOK, StackCalls
    <3>5. Append(<<f>>, MakeTable) = r
      BY <3>1, AppendToOne
    <3>6. Last(<<f, MakeTable>>) = MakeTable
      BY Two DEF Last
    <3>7. <<f, MakeTable>> # << >> /\ <<f, MakeTable>>[1] = f
      BY Two
    <3>8. \A j \in 1..Len(<<f, MakeTable>>) : <<f, MakeTable>>[j] \in {f, MakeTable}
      BY Two
    <3>9. \A j \in 1..Len(r) : r[j] \in {f, MakeTable}
      BY <3>1, <3>8
    <3>10. QED BY <1>1, <2>2, <3>1, <3>4, <3>5, <3>6, <3>7, <3>9, MakeTableOK
  <2>3. QED BY <2>1, <2>2
<1>4. \A j \in 1..Len(r) : FitsIn(r[j], cell, life) /\ \A q : ~Handles(r[j], q)
  BY <1>3, SlotFrame
<1>5. TopRelies(Last(r)) = {}
  BY <1>1, <1>3, SlotFrame, MakeTableOK
<1>6. OnlyOf(t) /\ calls'[t] = r /\ ObjectsInv'
  BY <1>3, <1>4, <1>5, QuietBegan
<1>7. managers' = managers
  BY DEF objectVars
<1>8. StacksOK'
  <2>1. CASE f.fn = "exits"
    BY <1>3, <1>6, <1>7, <2>1, StacksStayFrom
  <2>2. CASE MayCall /\ f.fn # "callbacks"
    BY <1>3, <1>6, <1>7, <2>2, StacksStayFrom
  <2>3. QED BY <2>1, <2>2
<1>9. QED BY <1>3, <1>6, <1>8 DEF SlotMoved, Ends

LEMMA SlotGoesIn ==
  ASSUME StacksOK, ObjectsInv, UNCHANGED objectVars, NEW t \in OSThreads, In(t, "initialize", "check"),
         GoTo(t, "grab", << >>, <<MakeTable>>)
  PROVE  SlotMoved(t) /\ Ends(calls'[t], Frame("initialize", On(t), "grab", << >>), MakeTable)
<1> DEFINE c == Frame("initialize", On(t), "grab", << >>)
           f == MakeTable
<1>1. c.fn = "initialize" /\ c.on = On(t) /\ c.pc = "grab"
  BY FrameFields
<1>2. /\ On(t) \in Slots /\ Len(calls[t]) = 1
  BY SlotTop DEF AboutSlots, FrameOK
<1>3. "grab" \in Pcs /\ << >> \in Locals /\ FrameOK(c)
  BY <1>1, <1>2, NoLocals DEF Pcs, FrameOK
<1>4. f \in Frames /\ FrameOK(f) /\ f.fn = "table" /\ AboutSlots(f.fn) /\ AboutSlots(c.fn)
  BY <1>1, MakeTableOK DEF AboutSlots
<1>5. CalledBy(f, c)
  BY <1>1, <1>4 DEF CalledBy
<1>6. /\ calls[t] # << >> /\ OnlyOf(t) /\ SameFirst(t) /\ TopIs(t, Len(calls[t]) - 1, "initialize", "check")
      /\ Moved(t, Len(calls[t]) - 1, <<c, f>>)
  BY <1>3, <1>4, <1>5, GoesIn
<1>7. \A q : ~TopHandles(t, Len(calls[t]) - 1, q)
  BY <1>6, NotMaking DEF Making
<1> HIDE DEF c, f
<1>8. /\ Len(<<c, f>>) \in Nat /\ Len(<<c, f>>) > 0 /\ <<c, f>>[Len(<<c, f>>)] = f /\ <<c, f>>[1] = c /\ 1 \in 1..Len(<<c, f>>)
      /\ \A j \in 1..Len(<<c, f>>) : <<c, f>>[j] \in {c, f}
  BY Two
<1>9. calls'[t] # << >> /\ Last(calls'[t]) = f
  BY <1>6, <1>8, TopAfter
<1>10. calls'[t][1] = c
  <2>1. calls'[t][Len(calls[t]) - 1 + 1] = c
    BY <1>6, <1>8 DEF Moved
  <2>2. QED BY <1>2, <2>1
<1>11. (\A q : ~Handles(c, q) /\ ~Handles(f, q)) /\ FitsIn(c, cell, life) /\ FitsIn(f, cell, life) /\ TopRelies(f) = {}
  BY <1>4, SlotFrame
<1>12. \A j \in 1..Len(<<c, f>>) : FitsIn(<<c, f>>[j], cell, life) /\ \A q : ~Handles(<<c, f>>[j], q)
  BY <1>8, <1>11
<1>13. Relies(t)' = {}
  BY <1>9, <1>11, ReliesTop
<1>14. \A q \in Relies(t)' : life[q] = "alive"
  BY <1>13
<1>15. ObjectsInv'
  BY <1>6, <1>7, <1>8, <1>12, <1>14, QuietStay
<1>16. managers' = managers
  BY DEF objectVars
<1>17. StacksOK'
  BY <1>6, <1>16, SameManagers
<1>18. QED BY <1>6, <1>9, <1>10, <1>15, <1>17 DEF SlotMoved, Ends, c, f

LEMMA SlotIdles ==
  ASSUME StacksOK, ObjectsInv, UNCHANGED objectVars, NEW t \in OSThreads, calls[t] = << >>,
         calls' = [calls EXCEPT ![t] = << >>]
  PROVE  SlotMoved(t) /\ calls'[t] = << >>
<1>1. StackOK(t, << >>)
  BY DEF StacksOK
<1>2. \A j \in 1..Len(<< >>) : FALSE
  OBVIOUS
<1>3. OnlyOf(t) /\ calls'[t] = << >> /\ ObjectsInv'
  BY <1>1, <1>2, QuietBegan
<1>4. managers' = managers
  BY DEF objectVars
<1>5. StacksOK'
  BY <1>3, <1>4, StacksStayFrom
<1>6. QED BY <1>3, <1>5 DEF SlotMoved

-----------------------------------------------------------------------------
(* What a step of t leaves of the other calls about slots.                     *)
InitsSame(t) == \A s : (Begun(t, s)' <=> Begun(t, s)) /\ (Late(t, s)' <=> Late(t, s))

LEMMA OtherInits ==
  ASSUME NEW t \in OSThreads, OnlyOf(t), NEW u \in OSThreads, u # t
  PROVE  /\ \A s : (Inits(u, s)' <=> Inits(u, s)) /\ (Begun(u, s)' <=> Begun(u, s)) /\ (Late(u, s)' <=> Late(u, s))
         /\ \A i : Swaps(u, i)' <=> Swaps(u, i)
         /\ \A fn, pc_ : In(u, fn, pc_)' <=> In(u, fn, pc_)
         /\ Local(u)' = Local(u)
<1>1. calls'[u] = calls[u]
  BY DEF OnlyOf
<1>2. QED BY <1>1 DEF Inits, Begun, Late, Swaps, In, Local, Initializing

LEMMA InitsParts ==
  ASSUME NEW t, NEW st, StackOK(t, st), st # << >>, st[1].fn = "initialize"
  PROVE  st[1].pc \in {"check", "grab", "destructor"}
<1>1. 1 \in 1..Len(st)
  BY StackTop
<1>2. FrameOK(st[1])
  BY <1>1 DEF StackOK
<1>3. QED BY <1>2 DEF FrameOK

LEMMA StacksAfter ==
  ASSUME StacksOK, NEW t \in OSThreads, OnlyOf(t), NEW u \in OSThreads
  PROVE  StackOK(u, calls[u]) /\ StackOK(u, calls'[u])
<1>1. CASE u = t
  BY <1>1 DEF OnlyOf, StacksOK
<1>2. CASE u # t
  BY <1>2 DEF OnlyOf, StacksOK
<1>3. QED BY <1>1, <1>2

LEMMA InitsKept ==
  ASSUME StacksOK, NEW t \in OSThreads, OnlyOf(t), InitsSame(t), OneInitializes
  PROVE  Started' = Started /\ (\A s : Grabbed(s)' <=> Grabbed(s)) /\ OneInitializes'
<1>1. \A u \in OSThreads : \A s : (Begun(u, s)' <=> Begun(u, s)) /\ (Late(u, s)' <=> Late(u, s))
  BY OtherInits DEF InitsSame
<1>2. \A u \in OSThreads : \A s : Inits(u, s) <=> Begun(u, s) \/ Late(u, s)
  BY StacksAfter, InitsParts DEF Inits, Begun, Late, Initializing
<1>3. \A u \in OSThreads : \A s : Inits(u, s)' <=> Begun(u, s)' \/ Late(u, s)'
  BY StacksAfter, InitsParts DEF Inits, Begun, Late, Initializing
<1>4. Started' = Started
  BY <1>1 DEF Started
<1>5. \A s : Grabbed(s)' <=> Grabbed(s)
  BY <1>1 DEF Grabbed
<1>6. OneInitializes'
  BY <1>1, <1>2, <1>3 DEF OneInitializes
<1>7. QED BY <1>4, <1>5, <1>6

(* What is known of t when its first and its innermost call became c and d.     *)
Shows(t, c, d) ==
  /\ \A fn, pc_ : In(t, fn, pc_)' <=> d.fn = fn /\ d.pc = pc_
  /\ Local(t)' = d.x /\ calls'[t] # << >>
  /\ \A s : Inits(t, s)' <=> Initializing(c, s)
  /\ \A s : Begun(t, s)' <=> Initializing(c, s) /\ c.pc \in {"check", "grab"}
  /\ \A s : Late(t, s)' <=> Initializing(c, s) /\ c.pc = "destructor"
  /\ \A i : Swaps(t, i)' <=> d.fn = "table" /\ d.pc = "swap" /\ d.x[1] = i

LEMMA EndsIn ==
  ASSUME NEW t, NEW c, NEW d, Ends(calls'[t], c, d)
  PROVE  Shows(t, c, d)
<1>1. calls'[t] # << >> /\ calls'[t][1] = c /\ Last(calls'[t]) = d
  BY DEF Ends
<1>2. (\A fn, pc_ : In(t, fn, pc_)' <=> d.fn = fn /\ d.pc = pc_) /\ Local(t)' = d.x
  BY <1>1 DEF In, Local
<1>3. \A i : Swaps(t, i)' <=> d.fn = "table" /\ d.pc = "swap" /\ d.x[1] = i
  BY <1>2 DEF Swaps
<1>4. \A s : Inits(t, s)' <=> Initializing(c, s)
  BY <1>1 DEF Inits, Initializing
<1>5. \A s : Begun(t, s)' <=> Initializing(c, s) /\ c.pc \in {"check", "grab"}
  BY <1>1, <1>4 DEF Begun
<1>6. \A s : Late(t, s)' <=> Initializing(c, s) /\ c.pc = "destructor"
  BY <1>1, <1>4 DEF Late
<1>7. QED BY <1>1, <1>2, <1>3, <1>4, <1>5, <1>6 DEF Shows

LEMMA EmptyIn ==
  ASSUME NEW t
  PROVE  /\ calls[t] = << >> => /\ \A fn, pc_ : ~In(t, fn, pc_)
                                /\ \A s : ~Inits(t, s) /\ ~Begun(t, s) /\ ~Late(t, s)
                                /\ \A i : ~Swaps(t, i)
         /\ calls'[t] = << >> => /\ \A fn, pc_ : ~In(t, fn, pc_)'
                                 /\ \A s : ~Inits(t, s)' /\ ~Begun(t, s)' /\ ~Late(t, s)'
                                 /\ \A i : ~Swaps(t, i)'
BY DEF In, Inits, Begun, Late, Swaps

LEMMA SlotCallsAfter ==
  ASSUME SlotCallsOK, NEW t \in OSThreads, OnlyOf(t), ready' = ready, tls_key_ # NULL => tls_key_' # NULL,
         \A u \in OSThreads \ {t} : table'[u] = table[u],
         calls'[t] # << >> => \E c, d : Ends(calls'[t], c, d) /\ SlotCallOK(t, c, d)'
  PROVE  SlotCallsOK'
<1>1. ASSUME NEW u \in OSThreads, calls'[u] # << >>
      PROVE  \E c, d : Ends(calls'[u], c, d) /\ SlotCallOK(u, c, d)'
  <2>1. CASE u = t
    BY <1>1, <2>1
  <2>2. CASE u # t
    <3>1. calls'[u] = calls[u]
      BY <2>2 DEF OnlyOf
    <3>2. PICK c, d : c = calls[u][1] /\ d = Last(calls[u])
      OBVIOUS
    <3>3. SlotCallOK(u, c, d)
      BY <1>1, <3>1, <3>2 DEF SlotCallsOK
    <3>4. SlotCallOK(u, c, d)'
      BY <2>2, <3>3 DEF SlotCallOK, Initializing, NeedsTable
    <3>5. Ends(calls'[u], c, d)
      BY <1>1, <3>1, <3>2 DEF Ends
    <3>6. QED BY <3>4, <3>5
  <2>3. QED BY <2>1, <2>2
<1>2. QED BY <1>1 DEF SlotCallsOK, Ends, SlotCallOK, Initializing, NeedsTable

LEMMA NumbersKept ==
  ASSUME NumbersOK, tls_max_' = tls_max_, number' = number, ready' = ready,
         Started' = Started, \A s : Grabbed(s)' <=> Grabbed(s)
  PROVE  NumbersOK'
BY DEF NumbersOK

LEMMA TablesKept ==
  ASSUME TablesOK, tls_max_' = tls_max_, number' = number, ready' = ready, wrote' = wrote, table' = table,
         \A u \in OSThreads : HasTable(u)' <=> HasTable(u), \A s : Grabbed(s)' <=> Grabbed(s)
  PROVE  TablesOK'
BY DEF TablesOK

LEMMA ExitsAfter ==
  ASSUME ExitsOK, SlotTypes, NEW t \in OSThreads, OnlyOf(t), tls_max_' \in Nat, tls_max_ <= tls_max_', ready \subseteq ready',
         \A s \in ready : number'[s] = number[s] /\ \A u \in OSThreads \ {t} : wrote'[u][s] = wrote[u][s],
         \A x : In(t, "exits", "loop")' /\ Local(t)' = x => ExitOK(t, x[1], x[2], x[3])',
         \A u \in OSThreads : In(u, "exits", "loop") => Local(u)[1] \in Nat
  PROVE  ExitsOK'
<1>1. ASSUME NEW u \in OSThreads, In(u, "exits", "loop")', NEW x, x = Local(u)'
      PROVE  ExitOK(u, x[1], x[2], x[3])'
  <2>1. CASE u = t
    BY <1>1, <2>1
  <2>2. CASE u # t
    <3>1. In(u, "exits", "loop") /\ x = Local(u)
      BY <1>1, <2>2, OtherInits
    <3>2. ExitOK(u, x[1], x[2], x[3]) /\ x[1] \in Nat
      BY <3>1 DEF ExitsOK
    <3>3. x[1] <= tls_max_' /\ x[3] \subseteq ready' \cap Cleaned /\ x[3] \subseteq ready
      <4>1. tls_max_ \in Nat /\ x[1] <= tls_max_
        BY <3>2 DEF ExitOK, SlotTypes
      <4>2. QED BY <3>2, <4>1 DEF ExitOK
    <3>4. \A s \in x[3] : number'[s] = number[s] /\ wrote'[u][s] = wrote[u][s]
      BY <2>2, <3>3
    <3>5. ASSUME NEW s \in x[3]
          PROVE  (\E k \in DOMAIN x[2] : x[2][k] = <<number'[s], wrote'[u][s]>>) <=> number'[s] < x[1]
      <4>1. (\E k \in DOMAIN x[2] : x[2][k] = <<number[s], wrote[u][s]>>) <=> number[s] < x[1]
        BY <3>2 DEF ExitOK
      <4>2. QED BY <3>4, <4>1
    <3>6. QED BY <3>2, <3>3, <3>5 DEF ExitOK
  <2>3. QED BY <2>1, <2>2
<1>2. QED BY <1>1 DEF ExitsOK, ExitOK

LEMMA HoldersKept ==
  ASSUME NEW t \in OSThreads, OnlyOf(t), slot' = slot, tls_key_' = tls_key_, \A i : Swaps(t, i)' <=> Swaps(t, i)
  PROVE  (\A u \in OSThreads : \A i : Swaps(u, i)' <=> Swaps(u, i)) /\ \A i : Holders(i)' = Holders(i)
<1>1. \A u \in OSThreads : \A i : Swaps(u, i)' <=> Swaps(u, i)
  BY OtherInits
<1>2. SUFFICES ASSUME NEW i PROVE Holders(i)' = Holders(i)
  BY <1>1
<1>3. {u \in OSThreads : In(u, "table", "swap") /\ Local(u)[1] = i} = {u \in OSThreads : Swaps(u, i)}
  BY DEF Swaps
<1>4. {u \in OSThreads : In(u, "table", "swap") /\ Local(u)[1] = i}' = {u \in OSThreads : Swaps(u, i)'}
  BY DEF Swaps
<1>5. {u \in OSThreads : Swaps(u, i)'} = {u \in OSThreads : Swaps(u, i)}
  BY <1>1
<1>6. QED BY <1>3, <1>4, <1>5 DEF Holders

LEMMA NativeKept ==
  ASSUME NativeInv, NEW t \in OSThreads, OnlyOf(t), native' = native, slot' = slot, tls_key_' = tls_key_,
         \A o \in Pointers : life'[o] \in {"alive", "destroying"} <=> life[o] \in {"alive", "destroying"},
         \A i : Swaps(t, i)' <=> Swaps(t, i)
  PROVE  NativeInv' /\ \A u \in OSThreads : HasTable(u)' <=> HasTable(u)
<1>1. (\A u \in OSThreads : \A i : Swaps(u, i)' <=> Swaps(u, i)) /\ \A i : Holders(i)' = Holders(i)
  BY HoldersKept
<1>2. NativeOK'
  BY <1>1 DEF NativeInv, NativeOK
<1>3. OneHolder'
  BY <1>1 DEF NativeInv, OneHolder
<1>4. QED BY <1>2, <1>3 DEF NativeInv, HasTable

-----------------------------------------------------------------------------
(* A step of a call about objects leaves the slots alone.                      *)
LEMMA ObjectStackEnds ==
  ASSUME NEW t, NEW st, StackOK(t, st), ObjectStack(st), st # << >>
  PROVE  ~AboutSlots(st[1].fn) /\ ~AboutSlots(Last(st).fn)
<1>1. /\ st[1].fn \in {"use", "callbacks"} /\ Last(st) = st[Len(st)] /\ Len(st) \in 1..Len(st)
  BY StackTop DEF ObjectStack
<1>2. PICK k \in 1..Len(st) : k = Len(st)
  BY <1>1
<1>3. ~AboutSlots(st[k].fn)
  BY <1>1, Positions DEF AboutSlots
<1>4. QED BY <1>1, <1>2, <1>3 DEF AboutSlots

LEMMA NoSlotCalls ==
  ASSUME StacksOK, NEW t \in OSThreads, ObjectMoved(t)
  PROVE  /\ InitsSame(t) /\ (\A i : ~Swaps(t, i) /\ ~Swaps(t, i)') /\ ~In(t, "exits", "loop")'
         /\ calls'[t] # << >> => \E c, d : Ends(calls'[t], c, d) /\ ~AboutSlots(c.fn) /\ ~AboutSlots(d.fn)
<1>1. StackOK(t, calls[t]) /\ StackOK(t, calls'[t]) /\ ObjectStack(calls[t]) /\ ObjectStack(calls'[t])
  BY StacksAfter DEF ObjectMoved
<1>2. calls'[t] # << >> => \E c, d : Ends(calls'[t], c, d) /\ ~AboutSlots(c.fn) /\ ~AboutSlots(d.fn)
  BY <1>1, ObjectStackEnds DEF Ends
<1>3. calls[t] # << >> => ~AboutSlots(calls[t][1].fn) /\ ~AboutSlots(Last(calls[t]).fn)
  BY <1>1, ObjectStackEnds
<1>4. \A s, i : ~Begun(t, s) /\ ~Late(t, s) /\ ~Swaps(t, i)
  BY <1>3 DEF Begun, Late, Inits, Initializing, Swaps, In, AboutSlots
<1>5. (\A s, i : ~Begun(t, s)' /\ ~Late(t, s)' /\ ~Swaps(t, i)') /\ ~In(t, "exits", "loop")'
  <2>1. CASE calls'[t] = << >>
    BY <2>1, EmptyIn
  <2>2. CASE calls'[t] # << >>
    <3>1. PICK c, d : Ends(calls'[t], c, d) /\ ~AboutSlots(c.fn) /\ ~AboutSlots(d.fn)
      BY <1>2, <2>2
    <3>2. /\ \A s : ~Initializing(c, s)
          /\ d.fn # "table" /\ d.fn # "exits"
      BY <3>1 DEF Initializing, AboutSlots
    <3>3. /\ \A s : Begun(t, s)' <=> Initializing(c, s) /\ c.pc \in {"check", "grab"}
          /\ \A s : Late(t, s)' <=> Initializing(c, s) /\ c.pc = "destructor"
          /\ \A i : Swaps(t, i)' <=> d.fn = "table" /\ d.pc = "swap" /\ d.x[1] = i
          /\ \A fn, pc_ : In(t, fn, pc_)' <=> d.fn = fn /\ d.pc = pc_
      BY <3>1, EndsIn DEF Shows
    <3>4. ~In(t, "exits", "loop")'
      BY <3>2, <3>3
    <3>5. QED BY <3>2, <3>3, <3>4
  <2>3. QED BY <2>1, <2>2
<1>6. QED BY <1>2, <1>4, <1>5 DEF InitsSame

LEMMA ExitNumbers ==
  ASSUME StacksOK, NEW t \in OSThreads, In(t, "exits", "loop")
  PROVE  Local(t) \in Nat \X Passed \X SUBSET Slots
<1>1. FrameOK(Last(calls[t])) /\ Last(calls[t]).fn = "exits"
  BY SlotTop DEF AboutSlots
<1>2. QED BY <1>1 DEF FrameOK, Local

(* No slot, no table of another thread and no number changes.                   *)
LEMMA SlotsKept ==
  ASSUME StacksOK, SlotsInv, NEW t \in OSThreads, OnlyOf(t), UNCHANGED <<tls_max_, tls_destructors_, number, ready, wrote>>,
         table' = table, tls_key_ # NULL => tls_key_' # NULL, InitsSame(t), \A u \in OSThreads : HasTable(u)' <=> HasTable(u),
         calls'[t] # << >> => \E c, d : Ends(calls'[t], c, d) /\ SlotCallOK(t, c, d)',
         \A x : In(t, "exits", "loop")' /\ Local(t)' = x => ExitOK(t, x[1], x[2], x[3])'
  PROVE  SlotsInv'
<1>1. SlotTypes'
  BY DEF SlotsInv, SlotTypes
<1>2. SlotCallsOK'
  BY SlotCallsAfter DEF SlotsInv
<1>3. Started' = Started /\ (\A s : Grabbed(s)' <=> Grabbed(s)) /\ OneInitializes'
  BY InitsKept DEF SlotsInv
<1>4. NumbersOK'
  BY <1>3, NumbersKept DEF SlotsInv
<1>5. TablesOK'
  BY <1>3, TablesKept DEF SlotsInv
<1>6. ExitsOK'
  <2>1. tls_max_' \in Nat /\ tls_max_ <= tls_max_' /\ ExitsOK /\ SlotTypes
    BY DEF SlotsInv, SlotTypes
  <2>2. \A u \in OSThreads : In(u, "exits", "loop") => Local(u)[1] \in Nat
    BY ExitNumbers
  <2>3. QED BY <2>1, <2>2, ExitsAfter
<1>7. QED BY <1>1, <1>2, <1>3, <1>4, <1>5, <1>6 DEF SlotsInv

LEMMA ObjectsLeaveSlots ==
  ASSUME StacksOK, SlotsInv, NEW t \in OSThreads, ObjectMoved(t), UNCHANGED slotVars,
         \A u \in OSThreads : HasTable(u)' <=> HasTable(u)
  PROVE  SlotsInv'
<1>1. InitsSame(t) /\ ~In(t, "exits", "loop")' /\ OnlyOf(t)
  BY NoSlotCalls DEF ObjectMoved
<1>2. /\ UNCHANGED <<tls_max_, tls_destructors_, number, ready, wrote>> /\ table' = table /\ tls_key_' = tls_key_
  BY DEF slotVars
<1>3. calls'[t] # << >> => \E c, d : Ends(calls'[t], c, d) /\ SlotCallOK(t, c, d)'
  <2>1. \A c, d : ~AboutSlots(c.fn) /\ ~AboutSlots(d.fn) => SlotCallOK(t, c, d)'
    BY DEF AboutSlots, SlotCallOK, Initializing, NeedsTable
  <2>2. QED BY <2>1, NoSlotCalls
<1>4. \A x : In(t, "exits", "loop")' /\ Local(t)' = x => ExitOK(t, x[1], x[2], x[3])'
  BY <1>1
<1>5. QED BY <1>1, <1>2, <1>3, <1>4, SlotsKept

-----------------------------------------------------------------------------
(* The indexes of the native storage: who holds them.                          *)
LEMMA HolderIs ==
  ASSUME NEW i, NEW x
  PROVE  /\ x \in Holders(i) <=>
              \/ \E o \in Pointers : x = <<"pointer", o>> /\ slot[o] = i
              \/ \E u \in OSThreads : x = <<"thread", u>> /\ Swaps(u, i)
              \/ x = <<"storage", i>> /\ tls_key_ = i
         /\ x \in Holders(i)' <=>
              \/ \E o \in Pointers : x = <<"pointer", o>> /\ slot'[o] = i
              \/ \E u \in OSThreads : x = <<"thread", u>> /\ Swaps(u, i)'
              \/ x = <<"storage", i>> /\ tls_key_' = i
BY DEF Holders, Swaps

LEMMA OneHolderAfter ==
  ASSUME OneHolder, NEW i, \A j \in Indexes : j # i => Holders(j)' = Holders(j),
         DOMAIN native' \ {i} = DOMAIN native \ {i},
         \/ Holders(i)' = {} /\ i \notin DOMAIN native'
         \/ i \in DOMAIN native' /\ \E x : Holders(i)' = {x}
  PROVE  OneHolder'
<1>1. SUFFICES ASSUME NEW j \in Indexes
               PROVE  (\A x, y \in Holders(j)' : x = y) /\ (j \in DOMAIN native' <=> Holders(j)' # {})
  BY DEF OneHolder
<1>2. CASE j = i
  BY <1>2
<1>3. CASE j # i
  BY <1>3 DEF OneHolder
<1>4. QED BY <1>2, <1>3

LEMMA Apart ==
  ASSUME NativeInv
  PROVE  /\ \A o \in Pointers : slot[o] # NULL =>
               /\ slot[o] \in Indexes /\ slot[o] \in DOMAIN native /\ slot[o] # tls_key_
               /\ \A u \in OSThreads : ~Swaps(u, slot[o])
         /\ \A o, q \in Pointers : slot[o] # NULL /\ slot[o] = slot[q] => o = q
         /\ tls_key_ # NULL => /\ tls_key_ \in Indexes /\ tls_key_ \in DOMAIN native
                               /\ \A u \in OSThreads : ~Swaps(u, tls_key_)
         /\ \A u \in OSThreads, i \in Indexes : Swaps(u, i) =>
               i \in DOMAIN native /\ \A v \in OSThreads : Swaps(v, i) => u = v
<1>1. \A i \in Indexes : (\A x, y \in Holders(i) : x = y) /\ (i \in DOMAIN native <=> Holders(i) # {})
  BY DEF NativeInv, OneHolder
<1>2. (\A o \in Pointers : slot[o] # NULL => slot[o] \in Indexes) /\ (tls_key_ # NULL => tls_key_ \in Indexes)
  BY DEF NativeInv, NativeOK
<1>3. /\ \A o \in Pointers : <<"pointer", o>> \in Holders(slot[o])
      /\ \A u \in OSThreads : \A i : Swaps(u, i) => <<"thread", u>> \in Holders(i)
      /\ <<"storage", tls_key_>> \in Holders(tls_key_)
  BY HolderIs
<1>4. \A x, y : <<"pointer", x>> # <<"thread", y>> /\ <<"pointer", x>> # <<"storage", y>> /\ <<"thread", x>> # <<"storage", y>>
  OBVIOUS
<1>5. ASSUME NEW o \in Pointers, slot[o] # NULL
      PROVE  /\ slot[o] \in Indexes /\ slot[o] \in DOMAIN native /\ slot[o] # tls_key_
             /\ \A u \in OSThreads : ~Swaps(u, slot[o])
             /\ \A q \in Pointers : slot[o] = slot[q] => o = q
  <2>1. slot[o] \in Indexes /\ slot[o] \in DOMAIN native
    BY <1>1, <1>2, <1>3, <1>5
  <2>2. slot[o] # tls_key_
    <3>1. SUFFICES ASSUME slot[o] = tls_key_ PROVE FALSE
      OBVIOUS
    <3>2. <<"pointer", o>> \in Holders(slot[o]) /\ <<"storage", tls_key_>> \in Holders(slot[o])
      BY <1>3, <3>1
    <3>3. <<"pointer", o>> = <<"storage", tls_key_>>
      BY <1>1, <2>1, <3>2
    <3>4. QED BY <1>4, <3>3
  <2>3. \A u \in OSThreads : ~Swaps(u, slot[o])
    BY <1>1, <1>3, <1>4, <2>1
  <2>4. ASSUME NEW q \in Pointers, slot[o] = slot[q] PROVE o = q
    <3>1. <<"pointer", o>> = <<"pointer", q>>
      BY <1>1, <1>3, <2>1, <2>4
    <3>2. QED BY <3>1
  <2>5. QED BY <2>1, <2>2, <2>3, <2>4
<1>6. ASSUME tls_key_ # NULL
      PROVE  /\ tls_key_ \in Indexes /\ tls_key_ \in DOMAIN native /\ \A u \in OSThreads : ~Swaps(u, tls_key_)
  <2>1. tls_key_ \in Indexes /\ tls_key_ \in DOMAIN native
    BY <1>1, <1>2, <1>3, <1>6
  <2>2. \A u \in OSThreads : ~Swaps(u, tls_key_)
    BY <1>1, <1>3, <1>4, <2>1
  <2>3. QED BY <2>1, <2>2
<1>7. ASSUME NEW u \in OSThreads, NEW i \in Indexes, Swaps(u, i)
      PROVE  i \in DOMAIN native /\ \A v \in OSThreads : Swaps(v, i) => u = v
  <2>1. i \in DOMAIN native
    BY <1>1, <1>3, <1>7
  <2>2. ASSUME NEW v \in OSThreads, Swaps(v, i) PROVE u = v
    <3>1. <<"thread", u>> = <<"thread", v>>
      BY <1>1, <1>3, <1>7, <2>2
    <3>2. QED BY <3>1
  <2>3. QED BY <2>1, <2>2
<1>8. QED BY <1>5, <1>6, <1>7

NativeTypes(n) == /\ n = [i \in DOMAIN n |-> n[i]] /\ DOMAIN n \subseteq Indexes
                  /\ \A i \in DOMAIN n : n[i] \in [OSThreads -> {NULL, "table"} \cup OSThreads]

LEMMA Allocated ==
  ASSUME NativeTypes(native), NEW i \in Indexes, TlsAlloc(i)
  PROVE  /\ NativeTypes(native') /\ i \notin DOMAIN native /\ DOMAIN native' = DOMAIN native \cup {i}
         /\ \A u \in OSThreads : native'[i][u] = NULL
         /\ \A j \in DOMAIN native : native'[j] = native[j]
<1>1. /\ i \notin DOMAIN native
      /\ native' = [j \in DOMAIN native \cup {i} |-> IF j = i THEN [u \in OSThreads |-> NULL] ELSE native[j]]
  BY DEF TlsAlloc
<1>2. DOMAIN native' = DOMAIN native \cup {i} /\ native' = [j \in DOMAIN native' |-> native'[j]]
  BY <1>1
<1>3. native'[i] = [u \in OSThreads |-> NULL] /\ \A j \in DOMAIN native : native'[j] = native[j]
  BY <1>1
<1>4. QED BY <1>1, <1>2, <1>3 DEF NativeTypes

LEMMA Freed ==
  ASSUME NativeTypes(native), NEW i, TlsFree(i)
  PROVE  /\ NativeTypes(native') /\ DOMAIN native' = DOMAIN native \ {i}
         /\ \A j \in DOMAIN native' : native'[j] = native[j]
<1>1. native' = [j \in DOMAIN native \ {i} |-> native[j]]
  BY DEF TlsFree
<1>2. DOMAIN native' = DOMAIN native \ {i} /\ native' = [j \in DOMAIN native' |-> native'[j]]
  BY <1>1
<1>3. \A j \in DOMAIN native' : native'[j] = native[j]
  BY <1>1
<1>4. QED BY <1>2, <1>3 DEF NativeTypes

LEMMA ValueSet ==
  ASSUME NativeTypes(native), NEW t \in OSThreads, NEW i \in DOMAIN native, NEW v \in {NULL, "table"} \cup OSThreads,
         TlsSetValue(t, i, v)
  PROVE  /\ NativeTypes(native') /\ DOMAIN native' = DOMAIN native
         /\ \A j \in DOMAIN native : j # i => native'[j] = native[j]
         /\ native'[i][t] = v /\ \A u \in OSThreads : u # t => native'[i][u] = native[i][u]
<1>1. native' = [native EXCEPT ![i][t] = v] /\ native[i] \in [OSThreads -> {NULL, "table"} \cup OSThreads]
  BY DEF TlsSetValue, NativeTypes
<1>2. native' = [native EXCEPT ![i] = [native[i] EXCEPT ![t] = v]]
  BY <1>1
<1>3. /\ DOMAIN native' = DOMAIN native /\ native' = [j \in DOMAIN native' |-> native'[j]]
      /\ native'[i] = [native[i] EXCEPT ![t] = v] /\ \A j \in DOMAIN native : j # i => native'[j] = native[j]
  BY <1>2 DEF NativeTypes
<1>4. native'[i] \in [OSThreads -> {NULL, "table"} \cup OSThreads]
  BY <1>1, <1>3
<1>5. QED BY <1>1, <1>3, <1>4 DEF NativeTypes

-----------------------------------------------------------------------------
(* The native storage, after a step of a call about objects.                   *)
NativeStays == NativeInv' /\ \A u \in OSThreads : HasTable(u)' <=> HasTable(u)

LEMMA ObjectsLeaveNative ==
  ASSUME StacksOK, NativeInv, NEW t \in OSThreads, ObjectMoved(t), native' = native, slot' = slot, tls_key_' = tls_key_,
         \A o \in Pointers : life'[o] \in {"alive", "destroying"} <=> life[o] \in {"alive", "destroying"}
  PROVE  NativeStays
<1>1. OnlyOf(t) /\ \A i : Swaps(t, i)' <=> Swaps(t, i)
  BY NoSlotCalls DEF ObjectMoved
<1>2. QED BY <1>1, NativeKept DEF NativeStays

LEMMA NativeTyped ==
  ASSUME NativeInv
  PROVE  /\ NativeTypes(native) /\ slot \in [Pointers -> Indexes \cup {NULL}] /\ tls_key_ \in Indexes \cup {NULL}
         /\ NULL \notin Indexes
BY IndexesAssumption DEF NativeInv, NativeOK, NativeTypes

(* Only values at an index that ThreadLocalStorage and those who swap do not hold change. *)
LEMMA TablesElsewhere ==
  ASSUME NativeInv, NEW i, tls_key_' = tls_key_, i # tls_key_,
         tls_key_ # NULL => native'[tls_key_] = native[tls_key_]
  PROVE  \A u \in OSThreads : HasTable(u)' <=> HasTable(u)
BY DEF HasTable

LEMMA UsedNative ==
  ASSUME StacksOK, ObjectsInv, NativeInv, NEW t \in OSThreads, Used(t), ObjectMoved(t), tls_key_' = tls_key_
  PROVE  NativeStays
<1>1. /\ In(t, "use", "got") /\ cell' = cell /\ life' = life /\ slot' = slot
  BY DEF Used, objectVars
<1>2. CASE On(t) \notin Pointers
  <2>1. native' = native
    BY <1>2 DEF Used
  <2>2. QED BY <1>1, <2>1, ObjectsLeaveNative
<1>3. CASE On(t) \in Pointers
  <2>1. PICK o \in Pointers : o = On(t)
    BY <1>3
  <2>2. TlsSetValue(t, slot[o], t)
    BY <2>1 DEF Used
  <2>3. life[o] = "alive"
    <3>1. o \in Relies(t)
      BY <1>1, <2>1 DEF Relies
    <3>2. QED BY <3>1 DEF ObjectsInv, ReliedAlive
  <2>4. slot[o] # NULL
    BY <2>3 DEF NativeInv, NativeOK
  <2>5. /\ slot[o] \in DOMAIN native /\ slot[o] # tls_key_ /\ \A u \in OSThreads : ~Swaps(u, slot[o])
        /\ tls_key_ # NULL => tls_key_ \in DOMAIN native
        /\ \A u \in OSThreads, i \in Indexes : Swaps(u, i) => i \in DOMAIN native
    BY <2>4, Apart
  <2>6. /\ NativeTypes(native') /\ DOMAIN native' = DOMAIN native
        /\ \A j \in DOMAIN native : j # slot[o] => native'[j] = native[j]
    BY <2>2, <2>5, NativeTyped, ValueSet
  <2>7. OnlyOf(t) /\ (\A i : ~Swaps(t, i) /\ ~Swaps(t, i)') /\ \A i : Swaps(t, i)' <=> Swaps(t, i)
    BY NoSlotCalls DEF ObjectMoved
  <2>8. (\A u \in OSThreads : \A i : Swaps(u, i)' <=> Swaps(u, i)) /\ \A i : Holders(i)' = Holders(i)
    BY <1>1, <2>7, HoldersKept
  <2>9. OneHolder'
    BY <2>6, <2>8 DEF NativeInv, OneHolder
  <2>10. \A u, v \in OSThreads, i \in Indexes : Swaps(u, i)' => native'[i][v] = NULL
    <3>1. SUFFICES ASSUME NEW u \in OSThreads, NEW v \in OSThreads, NEW i \in Indexes, Swaps(u, i)
                   PROVE  native'[i][v] = NULL
      BY <2>8
    <3>2. i # slot[o] /\ i \in DOMAIN native /\ native[i][v] = NULL
      BY <2>5, <3>1 DEF NativeInv, NativeOK
    <3>3. QED BY <2>6, <3>2
  <2>11. NativeOK'
    BY <1>1, <2>6, <2>10, NativeTyped DEF NativeOK, NativeTypes, NativeInv
  <2>12. \A u \in OSThreads : HasTable(u)' <=> HasTable(u)
    BY <2>5, <2>6, TablesElsewhere
  <2>13. QED BY <2>9, <2>11, <2>12 DEF NativeStays, NativeInv
<1>4. QED BY <1>2, <1>3

LEMMA NewNative ==
  ASSUME StacksOK, ObjectsInv, NativeInv, NEW t \in OSThreads, New(t), ObjectMoved(t), tls_key_' = tls_key_
  PROVE  NativeStays
<1>1. /\ In(t, "get", "new") /\ life' = [life EXCEPT ![On(t)] = "alive"]
  BY DEF New
<1>2. PICK o \in Objects : o = On(t)
  BY <1>1, TopSays
<1>3. life[o] = "constructing" /\ life \in [Objects -> {"none", "constructing", "alive", "destroying"}]
  BY <1>1, <1>2, TopSays DEF FitsIn, ObjectsInv, ObjectTypes
<1>4. life'[o] = "alive" /\ \A q \in Objects : q # o => life'[q] = life[q]
  BY <1>1, <1>2, <1>3
<1>5. CASE o \notin Pointers
  <2>1. native' = native /\ slot' = slot
    BY <1>2, <1>5 DEF New
  <2>2. \A q \in Pointers : life'[q] = life[q]
    BY <1>4, <1>5, ObjectsAssumption
  <2>3. QED BY <2>1, <2>2, ObjectsLeaveNative
<1>6. CASE o \in Pointers
  <2>1. PICK i \in Indexes : TlsAlloc(i) /\ slot' = [slot EXCEPT ![o] = i]
    BY <1>2, <1>6 DEF New
  <2>2. /\ NativeTypes(native') /\ i \notin DOMAIN native /\ DOMAIN native' = DOMAIN native \cup {i}
        /\ \A j \in DOMAIN native : native'[j] = native[j]
    BY <2>1, NativeTyped, Allocated
  <2>3. slot[o] = NULL
    BY <1>3, <1>6 DEF NativeInv, NativeOK
  <2>4. slot' \in [Pointers -> Indexes \cup {NULL}] /\ slot'[o] = i /\ \A q \in Pointers : q # o => slot'[q] = slot[q]
    BY <1>6, <2>1, NativeTyped
  <2>5. OnlyOf(t) /\ (\A j : ~Swaps(t, j) /\ ~Swaps(t, j)') /\ \A j : Swaps(t, j)' <=> Swaps(t, j)
    BY NoSlotCalls DEF ObjectMoved
  <2>6. \A u \in OSThreads : \A j : Swaps(u, j)' <=> Swaps(u, j)
    BY <2>5, OtherInits
  <2>7. Holders(i) = {}
    BY <2>2 DEF NativeInv, OneHolder
  <2>8. \A x : x \in Holders(i)' <=> x = <<"pointer", o>>
    <3>1. (\A q \in Pointers : slot[q] # i) /\ (\A u \in OSThreads : ~Swaps(u, i)) /\ tls_key_ # i
      BY <2>7, HolderIs
    <3>2. \A q \in Pointers : slot'[q] = i <=> q = o
      BY <2>4, <3>1
    <3>3. (\A u \in OSThreads : ~Swaps(u, i)') /\ tls_key_' # i
      BY <2>6, <3>1
    <3>4. QED BY <1>6, <3>2, <3>3, HolderIs
  <2>9. \A j \in Indexes : j # i => Holders(j)' = Holders(j)
    <3>1. SUFFICES ASSUME NEW j \in Indexes, j # i, NEW x PROVE x \in Holders(j)' <=> x \in Holders(j)
      OBVIOUS
    <3>2. \A q \in Pointers : slot'[q] = j <=> slot[q] = j
      BY <2>3, <2>4, <3>1, NativeTyped
    <3>3. QED BY <2>6, <3>2, HolderIs
  <2>10. OneHolder'
    <3>1. Holders(i)' = {<<"pointer", o>>}
      BY <2>8
    <3>2. QED BY <2>2, <2>9, <3>1, OneHolderAfter DEF NativeInv
  <2>11. \A u, v \in OSThreads, j \in Indexes : Swaps(u, j)' => native'[j][v] = NULL
    <3>1. SUFFICES ASSUME NEW u \in OSThreads, NEW v \in OSThreads, NEW j \in Indexes, Swaps(u, j)
                   PROVE  native'[j][v] = NULL
      BY <2>6
    <3>2. j \in DOMAIN native /\ native[j][v] = NULL
      BY <3>1, Apart DEF NativeInv, NativeOK
    <3>3. QED BY <2>2, <3>2
  <2>12. \A q \in Pointers : slot'[q] # NULL <=> life'[q] \in {"alive", "destroying"}
    <3>1. \A q \in Pointers : slot[q] # NULL <=> life[q] \in {"alive", "destroying"}
      BY DEF NativeInv, NativeOK
    <3>2. QED BY <1>4, <2>4, <3>1, NativeTyped, ObjectsAssumption
  <2>13. NativeOK'
    BY <2>2, <2>4, <2>11, <2>12, NativeTyped DEF NativeOK, NativeTypes
  <2>14. \A u \in OSThreads : HasTable(u)' <=> HasTable(u)
    <3>1. tls_key_ # NULL => tls_key_ \in DOMAIN native
      BY Apart
    <3>2. QED BY <2>2, <3>1 DEF HasTable
  <2>15. QED BY <2>10, <2>13, <2>14 DEF NativeStays, NativeInv
<1>7. QED BY <1>5, <1>6

LEMMA DeleteNative ==
  ASSUME StacksOK, ObjectsInv, NativeInv, NEW t \in OSThreads, Delete(t), ObjectMoved(t), tls_key_' = tls_key_
  PROVE  NativeStays
<1>1. In(t, "exit", "delete") /\ life' = [life EXCEPT ![On(t)] = "none"]
  BY DEF Delete
<1>2. PICK o \in Objects : o = On(t)
  BY <1>1, TopSays
<1>3. life[o] = "destroying" /\ life \in [Objects -> {"none", "constructing", "alive", "destroying"}]
  BY <1>1, <1>2, TopSays DEF FitsIn, ObjectsInv, ObjectTypes
<1>4. life'[o] = "none" /\ \A q \in Objects : q # o => life'[q] = life[q]
  BY <1>1, <1>2, <1>3
<1>5. CASE o \notin Pointers
  <2>1. native' = native /\ slot' = slot
    BY <1>2, <1>5 DEF Delete
  <2>2. \A q \in Pointers : life'[q] = life[q]
    BY <1>4, <1>5, ObjectsAssumption
  <2>3. QED BY <2>1, <2>2, ObjectsLeaveNative
<1>6. CASE o \in Pointers
  <2>1. PICK i : i = slot[o]
    OBVIOUS
  <2>2. i # NULL
    BY <1>3, <1>6, <2>1 DEF NativeInv, NativeOK
  <2>3. /\ i \in Indexes /\ i \in DOMAIN native /\ i # tls_key_ /\ (\A u \in OSThreads : ~Swaps(u, i))
        /\ \A q \in Pointers : slot[q] = i => q = o
        /\ tls_key_ # NULL => tls_key_ \in DOMAIN native
        /\ \A u \in OSThreads, j \in Indexes : Swaps(u, j) => j \in DOMAIN native
    BY <1>6, <2>1, <2>2, Apart
  <2>4. TlsFree(i) /\ slot' = [slot EXCEPT ![o] = NULL]
    BY <1>2, <1>6, <2>1 DEF Delete
  <2>5. /\ NativeTypes(native') /\ DOMAIN native' = DOMAIN native \ {i}
        /\ \A j \in DOMAIN native' : native'[j] = native[j]
    BY <2>4, NativeTyped, Freed
  <2>6. slot' \in [Pointers -> Indexes \cup {NULL}] /\ slot'[o] = NULL /\ \A q \in Pointers : q # o => slot'[q] = slot[q]
    BY <1>6, <2>4, NativeTyped
  <2>7. OnlyOf(t) /\ (\A j : ~Swaps(t, j) /\ ~Swaps(t, j)') /\ \A j : Swaps(t, j)' <=> Swaps(t, j)
    BY NoSlotCalls DEF ObjectMoved
  <2>8. \A u \in OSThreads : \A j : Swaps(u, j)' <=> Swaps(u, j)
    BY <2>7, OtherInits
  <2>9. \A x : x \notin Holders(i)'
    <3>1. \A q \in Pointers : slot'[q] # i
      BY <2>2, <2>3, <2>6
    <3>2. (\A u \in OSThreads : ~Swaps(u, i)') /\ tls_key_' # i
      BY <2>3, <2>8
    <3>3. QED BY <3>1, <3>2, HolderIs
  <2>10. \A j \in Indexes : j # i => Holders(j)' = Holders(j)
    <3>1. SUFFICES ASSUME NEW j \in Indexes, j # i, NEW x PROVE x \in Holders(j)' <=> x \in Holders(j)
      OBVIOUS
    <3>2. \A q \in Pointers : slot'[q] = j <=> slot[q] = j
      BY <2>1, <2>6, <3>1, NativeTyped
    <3>3. QED BY <2>8, <3>2, HolderIs
  <2>11. OneHolder'
    <3>1. Holders(i)' = {} /\ i \notin DOMAIN native'
      BY <2>5, <2>9
    <3>2. QED BY <2>5, <2>10, <3>1, OneHolderAfter DEF NativeInv
  <2>12. \A u, v \in OSThreads, j \in Indexes : Swaps(u, j)' => native'[j][v] = NULL
    <3>1. SUFFICES ASSUME NEW u \in OSThreads, NEW v \in OSThreads, NEW j \in Indexes, Swaps(u, j)
                   PROVE  native'[j][v] = NULL
      BY <2>8
    <3>2. j \in DOMAIN native /\ native[j][v] = NULL /\ j # i
      BY <2>3, <3>1 DEF NativeInv, NativeOK
    <3>3. QED BY <2>5, <3>2
  <2>13. \A q \in Pointers : slot'[q] # NULL <=> life'[q] \in {"alive", "destroying"}
    <3>1. \A q \in Pointers : slot[q] # NULL <=> life[q] \in {"alive", "destroying"}
      BY DEF NativeInv, NativeOK
    <3>2. QED BY <1>4, <2>6, <3>1, ObjectsAssumption
  <2>14. NativeOK'
    BY <2>5, <2>6, <2>12, <2>13, NativeTyped DEF NativeOK, NativeTypes
  <2>15. \A u \in OSThreads : HasTable(u)' <=> HasTable(u)
    <3>1. tls_key_ # NULL => native'[tls_key_] = native[tls_key_]
      BY <2>3, <2>5
    <3>2. QED BY <2>3, <3>1, TablesElsewhere
  <2>16. QED BY <2>11, <2>14, <2>15 DEF NativeStays, NativeInv
<1>7. QED BY <1>5, <1>6

LEMMA SwapNative ==
  ASSUME StacksOK, ObjectsInv, NativeInv, NEW t \in OSThreads, Swap(t), ObjectMoved(t), tls_key_' = tls_key_
  PROVE  NativeStays
<1>1. In(t, "get", "swap") /\ native' = native /\ slot' = slot
  BY DEF Swap
<1>2. PICK o \in Objects : o = On(t)
  BY <1>1, TopSays
<1>3. CASE ~Wins(o)
  <2>1. life' = life
    BY <1>2, <1>3 DEF Swap
  <2>2. QED BY <1>1, <2>1, ObjectsLeaveNative
<1>4. CASE Wins(o)
  <2>1. life' = [life EXCEPT ![o] = "constructing"] /\ cell[o] = "empty"
    BY <1>2, <1>4 DEF Swap, Wins
  <2>2. Sites(o) = {}
    BY <1>1, <1>2, <2>1, NoSites
  <2>3. life[o] = "none" /\ life \in [Objects -> {"none", "constructing", "alive", "destroying"}]
    BY <2>1, <2>2 DEF ObjectsInv, ObjectTypes, CellsFit, CellFits, Handled
  <2>4. \A q \in Pointers : life'[q] \in {"alive", "destroying"} <=> life[q] \in {"alive", "destroying"}
    BY <2>1, <2>3, ObjectsAssumption
  <2>5. QED BY <1>1, <2>4, ObjectsLeaveNative
<1>5. QED BY <1>3, <1>4

LEMMA TakeNative ==
  ASSUME StacksOK, ObjectsInv, NativeInv, NEW t \in OSThreads, Take(t), ObjectMoved(t), tls_key_' = tls_key_
  PROVE  NativeStays
<1>1. In(t, "exit", "take") /\ native' = native /\ slot' = slot /\ life' = [life EXCEPT ![On(t)] = "destroying"]
  BY DEF Take
<1>2. PICK o \in Objects : o = On(t)
  BY <1>1, TopSays
<1>3. life[o] = "alive" /\ life \in [Objects -> {"none", "constructing", "alive", "destroying"}]
  BY <1>1, <1>2, TopSays DEF FitsIn, ObjectsInv, ObjectTypes
<1>4. \A q \in Pointers : life'[q] \in {"alive", "destroying"} <=> life[q] \in {"alive", "destroying"}
  BY <1>1, <1>2, <1>3, ObjectsAssumption
<1>5. QED BY <1>1, <1>4, ObjectsLeaveNative

(* Every step of a call about objects keeps the invariant.                      *)
LEMMA QuietNative ==
  ASSUME StacksOK, NativeInv, NEW t \in OSThreads, ObjectMoved(t), tls_key_' = tls_key_,
         native' = native, slot' = slot, life' = life
  PROVE  NativeStays
BY ObjectsLeaveNative

LEMMA ObjectStepKeeps ==
  ASSUME StaticsInv, LockInv, NEW t \in OSThreads, ObjectStep(t), UNCHANGED slotVars
  PROVE  StaticsInv'
<1>1. StacksOK /\ ObjectsInv /\ NativeInv /\ SlotsInv /\ tls_key_' = tls_key_
  BY DEF StaticsInv, slotVars
<1>2. StacksOK' /\ ObjectsInv' /\ ObjectMoved(t) /\ NativeStays
  <2>1. CASE Used(t)
    BY <1>1, <2>1, UsedKeeps, UsedNative
  <2>2. CASE Load(t)
    <3>1. native' = native /\ slot' = slot /\ life' = life
      BY <2>2 DEF Load, objectVars
    <3>2. StacksOK' /\ ObjectsInv' /\ ObjectMoved(t)
      BY <1>1, <2>2, LoadKeeps
    <3>3. QED BY <1>1, <3>1, <3>2, QuietNative
  <2>3. CASE Swap(t)
    BY <1>1, <2>3, SwapKeeps, SwapNative
  <2>4. CASE New(t)
    BY <1>1, <2>4, NewKeeps, NewNative
  <2>5. CASE Store(t)
    <3>1. native' = native /\ slot' = slot /\ life' = life
      BY <2>5 DEF Store
    <3>2. StacksOK' /\ ObjectsInv' /\ ObjectMoved(t)
      BY <1>1, <2>5, StoreKeeps
    <3>3. QED BY <1>1, <3>1, <3>2, QuietNative
  <2>6. CASE Register(t)
    <3>1. native' = native /\ slot' = slot /\ life' = life
      BY <2>6 DEF Register
    <3>2. StacksOK' /\ ObjectsInv' /\ ObjectMoved(t)
      BY <1>1, <2>6, RegisterKeeps
    <3>3. QED BY <1>1, <3>1, <3>2, QuietNative
  <2>7. CASE Spin(t)
    <3>1. native' = native /\ slot' = slot /\ life' = life
      BY <2>7 DEF Spin, objectVars
    <3>2. StacksOK' /\ ObjectsInv' /\ ObjectMoved(t)
      BY <1>1, <2>7, SpinKeeps
    <3>3. QED BY <1>1, <3>1, <3>2, QuietNative
  <2>8. CASE Pop(t)
    <3>1. native' = native /\ slot' = slot /\ life' = life
      BY <2>8 DEF Pop
    <3>2. StacksOK' /\ ObjectsInv' /\ ObjectMoved(t)
      BY <1>1, <2>8, PopKeeps
    <3>3. QED BY <1>1, <3>1, <3>2, QuietNative
  <2>9. CASE Processed(t)
    <3>1. native' = native /\ slot' = slot /\ life' = life
      BY <2>9 DEF Processed
    <3>2. StacksOK' /\ ObjectsInv' /\ ObjectMoved(t)
      BY <1>1, <2>9, ProcessedKeeps
    <3>3. QED BY <1>1, <3>1, <3>2, QuietNative
  <2>10. CASE Take(t)
    BY <1>1, <2>10, TakeKeeps, TakeNative
  <2>11. CASE Delete(t)
    BY <1>1, <2>11, DeleteKeeps, DeleteNative
  <2>12. QED BY <2>1, <2>2, <2>3, <2>4, <2>5, <2>6, <2>7, <2>8, <2>9, <2>10, <2>11 DEF ObjectStep
<1>3. SlotsInv'
  BY <1>1, <1>2, ObjectsLeaveSlots DEF NativeStays
<1>4. QED BY <1>2, <1>3 DEF StaticsInv, NativeStays

LEMMA ObjectCallsKeep ==
  ASSUME StaticsInv, ObjectCalls, UNCHANGED slotVars
  PROVE  StaticsInv'
<1>1. StacksOK /\ ObjectsInv /\ NativeInv /\ SlotsInv /\ tls_key_' = tls_key_ /\ MainThread \in OSThreads
  BY OSThreadsAssumption DEF StaticsInv, slotVars
<1>2. \E t \in OSThreads : StacksOK' /\ ObjectsInv' /\ ObjectMoved(t) /\ native' = native /\ slot' = slot /\ life' = life
  <2>1. ASSUME NEW t \in OSThreads, NEW o \in Objects, Use(t, o)
        PROVE  StacksOK' /\ ObjectsInv' /\ ObjectMoved(t) /\ native' = native /\ slot' = slot /\ life' = life
    <3>1. native' = native /\ slot' = slot /\ life' = life
      BY <2>1 DEF Use, objectVars
    <3>2. QED BY <1>1, <2>1, <3>1, UseKeeps
  <2>2. CASE Shadow
    <3>1. native' = native /\ slot' = slot /\ life' = life
      BY <2>2 DEF Shadow
    <3>2. QED BY <1>1, <2>2, <3>1, ShadowKeeps
  <2>3. CASE ProcessCallbacksNow
    <3>1. native' = native /\ slot' = slot /\ life' = life
      BY <2>3 DEF ProcessCallbacksNow, objectVars
    <3>2. QED BY <1>1, <2>3, <3>1, ProcessCallbacksNowKeeps
  <2>4. CASE DestroyManager
    <3>1. native' = native /\ slot' = slot /\ life' = life
      BY <2>4 DEF DestroyManager, objectVars
    <3>2. QED BY <1>1, <2>4, <3>1, DestroyManagerKeeps
  <2>5. QED BY <2>1, <2>2, <2>3, <2>4 DEF ObjectCalls
<1>3. PICK t \in OSThreads : StacksOK' /\ ObjectsInv' /\ ObjectMoved(t) /\ native' = native /\ slot' = slot /\ life' = life
  BY <1>2
<1>4. NativeStays
  BY <1>1, <1>3, QuietNative
<1>5. SlotsInv'
  BY <1>1, <1>3, <1>4, ObjectsLeaveSlots DEF NativeStays
<1>6. QED BY <1>3, <1>4, <1>5 DEF StaticsInv, NativeStays

-----------------------------------------------------------------------------
(* Steps of calls about slots.                                               *)
LEMMA NoInitsSame ==
  ASSUME NEW t, calls[t] # << >> => calls[t][1].fn # "initialize", calls'[t] # << >> => calls'[t][1].fn # "initialize"
  PROVE  InitsSame(t)
BY DEF InitsSame, Begun, Late, Inits, Initializing

LEMMA FirstInitsSame ==
  ASSUME NEW t, calls[t] # << >>, NEW d, Ends(calls'[t], calls[t][1], d)
  PROVE  InitsSame(t)
BY DEF InitsSame, Begun, Late, Inits, Initializing, Ends

LEMMA NotSwapping ==
  ASSUME NEW t, NEW fn, NEW pc_, In(t, fn, pc_), fn # "table" \/ pc_ # "swap"
  PROVE  \A i : ~Swaps(t, i)
BY DEF In, Swaps

(* A step that changes neither the slots nor the native storage.               *)
QuietEnd(t) ==
  \/ calls'[t] = << >>
  \/ \E c, d : /\ Ends(calls'[t], c, d) /\ SlotCallOK(t, c, d) /\ d.pc # "swap"
               /\ d.fn = "exits" => ExitOK(t, d.x[1], d.x[2], d.x[3])

LEMMA SlotQuiet ==
  ASSUME StaticsInv, NEW t \in OSThreads, SlotMoved(t), UNCHANGED objectVars, native' = native, UNCHANGED slotVars,
         \A i : ~Swaps(t, i), InitsSame(t), QuietEnd(t)
  PROVE  StaticsInv'
<1>1. /\ StacksOK /\ ObjectsInv /\ NativeInv /\ SlotsInv /\ StacksOK' /\ ObjectsInv' /\ OnlyOf(t)
  BY DEF StaticsInv, SlotMoved
<1>2. /\ slot' = slot /\ life' = life /\ tls_key_' = tls_key_ /\ table' = table
      /\ UNCHANGED <<tls_max_, tls_destructors_, number, ready, wrote>>
  BY DEF objectVars, slotVars
<1>3. \A c, d : SlotCallOK(t, c, d) => SlotCallOK(t, c, d)'
  BY <1>2 DEF SlotCallOK, Initializing, NeedsTable
<1>4. \A n, passed, due : ExitOK(t, n, passed, due) => ExitOK(t, n, passed, due)'
  BY <1>2 DEF ExitOK
<1>5. /\ \A i : ~Swaps(t, i)'
      /\ calls'[t] # << >> => \E c, d : Ends(calls'[t], c, d) /\ SlotCallOK(t, c, d)'
      /\ \A x : In(t, "exits", "loop")' /\ Local(t)' = x => ExitOK(t, x[1], x[2], x[3])'
  <2>1. CASE calls'[t] = << >>
    BY <2>1, EmptyIn
  <2>2. CASE calls'[t] # << >>
    <3>1. PICK c, d : /\ Ends(calls'[t], c, d) /\ SlotCallOK(t, c, d) /\ d.pc # "swap"
                      /\ d.fn = "exits" => ExitOK(t, d.x[1], d.x[2], d.x[3])
      BY <2>2 DEF QuietEnd
    <3>2. Shows(t, c, d)
      BY <3>1, EndsIn
    <3>3. SlotCallOK(t, c, d)'
      BY <1>3, <3>1
    <3>4. d.fn = "exits" => ExitOK(t, d.x[1], d.x[2], d.x[3])'
      BY <1>4, <3>1
    <3>5. \A i : ~Swaps(t, i)'
      BY <3>1, <3>2 DEF Shows
    <3>6. ASSUME NEW x, In(t, "exits", "loop")', Local(t)' = x
          PROVE  ExitOK(t, x[1], x[2], x[3])'
      <4>1. d.fn = "exits" /\ d.x = x
        BY <3>2, <3>6 DEF Shows
      <4>2. QED BY <3>4, <4>1
    <3>7. QED BY <2>2, <3>1, <3>3, <3>5, <3>6
  <2>3. QED BY <2>1, <2>2
<1>6. \A i : Swaps(t, i)' <=> Swaps(t, i)
  BY <1>5
<1>7. NativeInv' /\ \A u \in OSThreads : HasTable(u)' <=> HasTable(u)
  BY <1>1, <1>2, <1>6, NativeKept
<1>8. SlotsInv'
  BY <1>1, <1>2, <1>5, <1>7, SlotsKept
<1>9. QED BY <1>1, <1>7, <1>8 DEF StaticsInv

LEMMA TopCallOK ==
  ASSUME StaticsInv, NEW t \in OSThreads, calls[t] # << >>
  PROVE  SlotCallOK(t, calls[t][1], Last(calls[t])) /\ (table[t] # NULL <=> HasTable(t))
BY DEF StaticsInv, SlotsInv, SlotCallsOK, TablesOK

LEMMA CheckKeeps ==
  ASSUME StaticsInv, NEW t \in OSThreads, Check(t), UNCHANGED objectVars
  PROVE  StaticsInv'
<1>1. /\ In(t, "initialize", "check") /\ GoTo(t, "grab", << >>, TableFirst(t)) /\ native' = native /\ UNCHANGED slotVars
      /\ StacksOK /\ ObjectsInv /\ AboutSlots("initialize")
  BY DEF Check, StaticsInv, AboutSlots
<1> DEFINE c == Frame("initialize", On(t), "grab", << >>)
<1>2. /\ calls[t] # << >> /\ Last(calls[t]) = calls[t][1] /\ calls[t][1].fn = "initialize" /\ calls[t][1].pc = "check"
      /\ calls[t][1].on = On(t) /\ On(t) \in Slots
  BY <1>1, SlotTop DEF FrameOK
<1>3. c.fn = "initialize" /\ c.pc = "grab" /\ c.on = On(t)
  BY FrameFields
<1>4. \A s \in Slots : Initializing(c, s) => s \notin ready
  BY <1>2, <1>3, TopCallOK DEF SlotCallOK, Initializing
<1>5. table[t] # NULL <=> HasTable(t)
  BY <1>2, TopCallOK
<1>6. \A i : ~Swaps(t, i)
  BY <1>1, NotSwapping
<1>7. /\ SlotMoved(t)
      /\ \E d : /\ Ends(calls'[t], c, d) /\ SlotCallOK(t, c, d) /\ d.pc # "swap" /\ d.fn # "exits"
  <2>1. CASE HasTable(t)
    <3>1. GoTo(t, "grab", << >>, << >>)
      BY <1>1, <2>1 DEF TableFirst
    <3>2. "grab" \in Pcs /\ << >> \in Locals /\ FrameOK(c)
      BY <1>2, <1>3, NoLocals DEF Pcs, FrameOK
    <3>3. SlotMoved(t) /\ Ends(calls'[t], c, c)
      BY <1>1, <3>1, <3>2, SlotGoesOn
    <3>4. SlotCallOK(t, c, c)
      BY <1>3, <1>4, <1>5, <2>1 DEF SlotCallOK
    <3>5. QED BY <1>3, <3>3, <3>4
  <2>2. CASE ~HasTable(t)
    <3>1. GoTo(t, "grab", << >>, <<MakeTable>>)
      BY <1>1, <2>2 DEF TableFirst
    <3>2. SlotMoved(t) /\ Ends(calls'[t], c, MakeTable)
      BY <1>1, <3>1, SlotGoesIn
    <3>3. SlotCallOK(t, c, MakeTable) /\ MakeTable.pc # "swap" /\ MakeTable.fn # "exits"
      BY <1>3, <1>4, <1>5, <2>2, MakeTableOK DEF SlotCallOK, NeedsTable
    <3>4. QED BY <3>2, <3>3
  <2>3. QED BY <2>1, <2>2
<1>8. InitsSame(t)
  <2>1. PICK e, d : e = c /\ Ends(calls'[t], e, d)
    BY <1>7
  <2>2. Shows(t, e, d)
    BY <2>1, EndsIn
  <2>3. \A s : (Begun(t, s)' <=> s = On(t)) /\ ~Late(t, s)'
    BY <1>3, <2>1, <2>2 DEF Initializing, Shows
  <2>4. \A s : (Begun(t, s) <=> s = On(t)) /\ ~Late(t, s)
    BY <1>2 DEF Begun, Late, Inits, Initializing
  <2>5. QED BY <2>3, <2>4 DEF InitsSame
<1> HIDE DEF c
<1>9. QuietEnd(t)
  BY <1>7 DEF QuietEnd
<1>10. QED BY <1>1, <1>6, <1>7, <1>8, <1>9, SlotQuiet

LEMMA Tables ==
  ASSUME NEW f
  PROVE  /\ <<f>> \o << >> = <<f>> /\ <<f>> \o <<MakeTable>> = <<f, MakeTable>> /\ <<f, MakeTable>> # <<f>>
<1>1. <<f>> \o << >> = <<f>>
  OBVIOUS
<1>0. <<f>> \o <<MakeTable>> = <<f, MakeTable>>
  <2>1. PICK g : g = MakeTable
    OBVIOUS
  <2>2. <<f>> \in Seq({f, g}) /\ g \in {f, g}
    OBVIOUS
  <2>3. Append(<<f>>, g) = <<f>> \o <<g>>
    BY <2>2, AppendIsConcat
  <2>4. QED BY <2>1, <2>3, AppendToOne
<1>2. Len(<<f, MakeTable>>) = 2 /\ Len(<<f>>) = 1
  BY One, Two
<1>3. <<f, MakeTable>> # <<f>>
  BY <1>2
<1>4. QED BY <1>0, <1>1, <1>3

(* Slot::Get and Slot::Set begin.                                            *)
LEMMA SlotUseBegins ==
  ASSUME StaticsInv, MayCall, NEW t \in OSThreads, calls[t] = << >>, NEW f \in Frames, FrameOK(f),
         f.fn \in {"getSlot", "setSlot"}, f.on \in ready, f.pc \in {"read", "write"},
         calls' = [calls EXCEPT ![t] = <<f>> \o TableFirst(t)], native' = native, UNCHANGED slotVars, UNCHANGED objectVars
  PROVE  StaticsInv'
<1>1. StacksOK /\ ObjectsInv
  BY DEF StaticsInv
<1>2. table[t] # NULL <=> HasTable(t)
  BY DEF StaticsInv, SlotsInv, TablesOK
<1>3. (\A s : ~Initializing(f, s)) /\ f.fn # "table" /\ f.fn # "initialize"
  BY DEF Initializing
<1>4. \E d : SlotMoved(t) /\ Ends(calls'[t], f, d) /\ SlotCallOK(t, f, d) /\ d.pc # "swap" /\ d.fn # "exits"
  <2>1. CASE HasTable(t)
    <3>1. TableFirst(t) = << >>
      BY <2>1 DEF TableFirst
    <3>2. calls' = [calls EXCEPT ![t] = <<f>>]
      BY <3>1, Tables
    <3>3. SlotMoved(t) /\ Ends(calls'[t], f, f)
      BY <1>1, <3>2, SlotBegins
    <3>4. SlotCallOK(t, f, f)
      BY <1>2, <1>3, <2>1 DEF SlotCallOK
    <3>5. QED BY <3>3, <3>4
  <2>2. CASE ~HasTable(t)
    <3>1. TableFirst(t) = <<MakeTable>>
      BY <2>2 DEF TableFirst
    <3>2. calls' = [calls EXCEPT ![t] = <<f, MakeTable>>]
      BY <3>1, Tables
    <3>3. SlotMoved(t) /\ Ends(calls'[t], f, MakeTable)
      BY <1>1, <3>2, Tables, SlotBegins
    <3>4. SlotCallOK(t, f, MakeTable) /\ MakeTable.pc # "swap" /\ MakeTable.fn # "exits"
      BY <1>2, <1>3, <2>2, MakeTableOK DEF SlotCallOK, NeedsTable
    <3>5. QED BY <3>3, <3>4
  <2>3. QED BY <2>1, <2>2
<1>5. InitsSame(t)
  BY <1>3, <1>4, NoInitsSame DEF Ends
<1>6. \A i : ~Swaps(t, i)
  BY EmptyIn
<1>7. QuietEnd(t)
  BY <1>4 DEF QuietEnd
<1>8. SlotMoved(t)
  BY <1>4
<1>9. QED BY <1>5, <1>6, <1>7, <1>8, SlotQuiet

LEMMA GetSlotKeeps ==
  ASSUME StaticsInv, MayCall, NEW t \in OSThreads, NEW s \in Slots, GetSlot(t, s), UNCHANGED objectVars
  PROVE  StaticsInv'
<1> DEFINE f == Frame("getSlot", s, "read", << >>)
<1>1. /\ s \in ready /\ calls[t] = << >> /\ calls' = [calls EXCEPT ![t] = <<f>> \o TableFirst(t)]
      /\ native' = native /\ UNCHANGED slotVars
  BY DEF GetSlot, UserCalls, Spend, Idle
<1>2. f.fn = "getSlot" /\ f.on = s /\ f.pc = "read"
  BY FrameFields
<1>3. f \in Frames
  BY FrameType, NoLocals DEF Pcs
<1>4. FrameOK(f)
  BY <1>2 DEF FrameOK
<1> HIDE DEF f
<1>5. QED BY <1>1, <1>2, <1>3, <1>4, SlotUseBegins

LEMMA SetSlotKeeps ==
  ASSUME StaticsInv, MayCall, NEW t \in OSThreads, NEW s \in Slots, NEW v \in Values, SetSlot(t, s, v), UNCHANGED objectVars
  PROVE  StaticsInv'
<1> DEFINE f == Frame("setSlot", s, "write", <<v>>)
<1>1. /\ s \in ready /\ calls[t] = << >> /\ calls' = [calls EXCEPT ![t] = <<f>> \o TableFirst(t)]
      /\ native' = native /\ UNCHANGED slotVars
  BY DEF SetSlot, UserCalls, Spend, Idle
<1>2. f.fn = "setSlot" /\ f.on = s /\ f.pc = "write" /\ f.x = <<v>>
  BY FrameFields
<1>3. f \in Frames
  <2>1. <<v>> \in Locals
    BY DEF Locals
  <2>2. QED BY <2>1, FrameType DEF Pcs
<1>4. FrameOK(f)
  <2>1. <<v>>[1] = v
    OBVIOUS
  <2>2. QED BY <1>2, <2>1 DEF FrameOK
<1> HIDE DEF f
<1>5. QED BY <1>1, <1>2, <1>3, <1>4, SlotUseBegins

LEMMA ReadKeeps ==
  ASSUME StaticsInv, NEW t \in OSThreads, Read(t), UNCHANGED objectVars
  PROVE  StaticsInv'
<1>1. /\ In(t, "getSlot", "read") /\ Return(t) /\ native' = native /\ UNCHANGED slotVars
      /\ StacksOK /\ ObjectsInv /\ AboutSlots("getSlot")
  BY DEF Read, StaticsInv, AboutSlots
<1>2. SlotMoved(t) /\ calls'[t] = << >>
  BY <1>1, SlotReturns
<1>3. calls[t] # << >> /\ calls[t][1].fn # "initialize"
  BY <1>1, SlotTop
<1>4. InitsSame(t)
  BY <1>2, <1>3, NoInitsSame
<1>5. \A i : ~Swaps(t, i)
  BY <1>1, NotSwapping
<1>6. QuietEnd(t)
  BY <1>2 DEF QuietEnd
<1>7. QED BY <1>1, <1>2, <1>4, <1>5, <1>6, SlotQuiet

(* A thread exits: no destructor was called yet.                              *)
LEMMA NonePassed ==
  ASSUME SlotTypes, NEW t
  PROVE  ExitOK(t, 0, << >>, ready \cap Cleaned)
<1>1. 0 <= tls_max_ /\ \A s \in ready : number[s] \in Nat /\ ~(number[s] < 0)
  BY DEF SlotTypes
<1>2. DOMAIN << >> = {}
  OBVIOUS
<1>3. QED BY <1>1, <1>2 DEF ExitOK

LEMMA ThreadExitKeeps ==
  ASSUME StaticsInv, NEW t \in OSThreads, ThreadExit(t), UNCHANGED objectVars
  PROVE  StaticsInv'
<1> DEFINE x == <<0, << >>, ready \cap Cleaned>>
           f == Frame("exits", NULL, "loop", x)
<1>1. /\ calls[t] = << >> /\ table[t] # NULL /\ calls' = [calls EXCEPT ![t] = <<f>>]
      /\ native' = native /\ UNCHANGED slotVars /\ StacksOK /\ ObjectsInv /\ SlotTypes
  BY DEF ThreadExit, Idle, StaticsInv, SlotsInv
<1>2. f.fn = "exits" /\ f.on = NULL /\ f.pc = "loop" /\ f.x = x
  BY FrameFields
<1>3. x \in Nat \X Passed \X SUBSET Slots /\ x[1] = 0 /\ x[2] = << >> /\ x[3] = ready \cap Cleaned
  <2>1. 0 \in Nat /\ << >> \in Passed
    BY DEF Passed
  <2>2. ready \cap Cleaned \in SUBSET Slots
    BY <1>1 DEF SlotTypes
  <2>3. PICK empty, due : empty = << >> /\ due = ready \cap Cleaned
    OBVIOUS
  <2>4. LET y == <<0, empty, due>> IN y \in Nat \X Passed \X SUBSET Slots /\ y[1] = 0 /\ y[2] = empty /\ y[3] = due
    BY <2>1, <2>2, <2>3
  <2>5. QED BY <2>3, <2>4
<1>4. f \in Frames
  <2>1. x \in Locals
    BY <1>3 DEF Locals
  <2>2. QED BY <2>1, FrameType DEF Pcs
<1>5. FrameOK(f)
  BY <1>2, <1>3 DEF FrameOK
<1>6. ExitOK(t, 0, << >>, ready \cap Cleaned)
  BY <1>1, NonePassed
<1>7. ExitOK(t, f.x[1], f.x[2], f.x[3])
  BY <1>2, <1>3, <1>6
<1> HIDE DEF f, x
<1>8. SlotMoved(t) /\ Ends(calls'[t], f, f)
  BY <1>1, <1>2, <1>4, <1>5, SlotBegins
<1>9. SlotCallOK(t, f, f)
  BY <1>1, <1>2 DEF SlotCallOK, Initializing
<1>10. InitsSame(t)
  BY <1>1, <1>2, <1>8, NoInitsSame DEF Ends
<1>11. \A i : ~Swaps(t, i)
  BY <1>1, EmptyIn
<1>12. QuietEnd(t)
  BY <1>2, <1>7, <1>8, <1>9 DEF QuietEnd
<1>13. QED BY <1>1, <1>8, <1>10, <1>11, <1>12, SlotQuiet

(* A thread that exits calls the next destructor.                              *)
LEMMA MaxFits ==
  ASSUME NumbersOK, SlotTypes
  PROVE  tls_max_ \in Nat /\ Size \in Nat /\ tls_max_ <= Size
<1>1. IsFiniteSet(Started)
  <2>1. IsFiniteSet(Slots) /\ Started \subseteq Slots
    BY SlotsAssumption DEF Started
  <2>2. QED BY <2>1, FS_Subset
<1>2. Cardinality(Started) \in Nat
  BY <1>1, FS_CardinalityType
<1>3. tls_max_ + Cardinality(Started) <= Size /\ tls_max_ \in Nat /\ Size \in Nat
  BY SlotsAssumption DEF NumbersOK, SlotTypes
<1>4. QED BY <1>2, <1>3

LEMMA PassesOn ==
  ASSUME SlotTypes, NEW t \in OSThreads, table[t] # NULL,
         \A s \in ready : wrote[t][s] = IF table[t] = NULL THEN NULL ELSE table[t][number[s]],
         NEW n \in Nat, n < tls_max_, NEW passed \in Passed, NEW due, ExitOK(t, n, passed, due),
         n \in tls_destructors_
  PROVE  ExitOK(t, n + 1, Append(passed, <<n, table[t][n]>>), due)
<1>1. PICK e : e = <<n, table[t][n]>>
  OBVIOUS
<1>2. PICK r : r = Append(passed, e)
  OBVIOUS
<1>3. /\ Len(passed) \in Nat /\ DOMAIN passed = 1..Len(passed) /\ DOMAIN r = 1..Len(passed) + 1
      /\ r[Len(passed) + 1] = e /\ \A k \in 1..Len(passed) : r[k] = passed[k]
      /\ \A k \in 1..Len(passed) : passed[k][1] \in Nat
  <2>1. passed \in Seq(Nat \X (Values \cup {NULL}))
    BY DEF Passed
  <2>2. Len(passed) \in Nat /\ DOMAIN passed = 1..Len(passed)
    BY <2>1
  <2>3. \A k \in 1..Len(passed) : passed[k] \in Nat \X (Values \cup {NULL})
    BY <2>1
  <2>4. r \in Seq({e} \cup (Nat \X (Values \cup {NULL}))) /\ DOMAIN r = 1..Len(passed) + 1
        /\ r[Len(passed) + 1] = e /\ \A k \in 1..Len(passed) : r[k] = passed[k]
    BY <1>2, <2>1
  <2>5. QED BY <2>2, <2>3, <2>4
<1>4. PICK m : m = Len(passed) + 1
  OBVIOUS
<1>5. \A k \in DOMAIN r : k = m \/ (k \in DOMAIN passed /\ r[k] = passed[k])
  BY <1>3, <1>4
<1>6. m \in DOMAIN r /\ r[m] = e /\ e[1] = n /\ \A k \in DOMAIN passed : k \in DOMAIN r /\ r[k] = passed[k] /\ passed[k][1] \in Nat
  BY <1>1, <1>3, <1>4
<1>7. /\ due \subseteq ready \cap Cleaned /\ \A k \in DOMAIN passed : passed[k][1] < n
      /\ \A j, k \in DOMAIN passed : passed[j][1] = passed[k][1] => j = k
      /\ \A s \in due : (\E k \in DOMAIN passed : passed[k] = <<number[s], wrote[t][s]>>) <=> number[s] < n
  BY DEF ExitOK
<1>8. n + 1 <= tls_max_
  BY DEF SlotTypes
<1>9. \A k \in DOMAIN r : r[k][1] < n + 1
  BY <1>5, <1>6, <1>7
<1>10. \A j, k \in DOMAIN r : r[j][1] = r[k][1] => j = k
  <2>1. \A k \in DOMAIN passed : r[k][1] # n
    BY <1>6, <1>7
  <2>2. QED BY <1>5, <1>6, <1>7, <2>1
<1>11. ASSUME NEW s \in due
       PROVE  (\E k \in DOMAIN r : r[k] = <<number[s], wrote[t][s]>>) <=> number[s] < n + 1
  <2>1. number[s] \in Nat /\ s \in ready
    BY <1>7 DEF SlotTypes
  <2>2. PICK w, b : w = wrote[t][s] /\ b = number[s]
    OBVIOUS
  <2>3. CASE b = n
    <3>1. w = table[t][n]
      BY <2>1, <2>2, <2>3
    <3>2. r[m] = <<b, w>>
      BY <1>1, <1>6, <2>3, <3>1
    <3>3. n < n + 1
      OBVIOUS
    <3>4. QED BY <1>6, <2>2, <2>3, <3>2, <3>3
  <2>4. CASE b # n
    <3>1. b < n + 1 <=> b < n
      BY <2>1, <2>2, <2>4
    <3>2. r[m] # <<b, w>>
      BY <1>1, <1>6, <2>4
    <3>3. (\E k \in DOMAIN r : r[k] = <<b, w>>) <=> \E k \in DOMAIN passed : passed[k] = <<b, w>>
      BY <1>5, <1>6, <3>2
    <3>4. QED BY <1>7, <2>2, <3>1, <3>3
  <2>5. QED BY <2>3, <2>4
<1>12. ExitOK(t, n + 1, r, due)
  BY <1>7, <1>8, <1>9, <1>10, <1>11 DEF ExitOK
<1>13. QED BY <1>1, <1>2, <1>12

LEMMA PassesBy ==
  ASSUME SlotTypes, NEW t \in OSThreads, NEW n \in Nat, n < tls_max_, NEW passed \in Passed, NEW due,
         ExitOK(t, n, passed, due), n \notin tls_destructors_
  PROVE  ExitOK(t, n + 1, passed, due)
<1>1. /\ due \subseteq ready \cap Cleaned /\ \A k \in DOMAIN passed : passed[k][1] < n
      /\ \A j, k \in DOMAIN passed : passed[j][1] = passed[k][1] => j = k
      /\ \A s \in due : (\E k \in DOMAIN passed : passed[k] = <<number[s], wrote[t][s]>>) <=> number[s] < n
  BY DEF ExitOK
<1>2. n + 1 <= tls_max_ /\ \A s \in due : number[s] \in Nat /\ number[s] # n
  BY <1>1 DEF SlotTypes
<1>3. \A s \in due : number[s] < n + 1 <=> number[s] < n
  BY <1>2
<1>4. \A k \in DOMAIN passed : passed[k][1] < n + 1
  <2>1. \A k \in DOMAIN passed : passed[k] \in Nat \X (Values \cup {NULL})
    BY DEF Passed
  <2>2. QED BY <1>1, <2>1
<1>5. QED BY <1>1, <1>2, <1>3, <1>4 DEF ExitOK

LEMMA CallDestructorKeeps ==
  ASSUME StaticsInv, NEW t \in OSThreads, CallDestructor(t), UNCHANGED objectVars
  PROVE  StaticsInv'
<1>1. /\ In(t, "exits", "loop") /\ native' = native /\ UNCHANGED slotVars /\ StacksOK /\ ObjectsInv /\ SlotTypes
      /\ AboutSlots("exits") /\ NumbersOK /\ ExitsOK /\ TablesOK
  BY DEF CallDestructor, StaticsInv, SlotsInv, AboutSlots
<1>2. PICK n, passed, due : n = Local(t)[1] /\ passed = Local(t)[2] /\ due = Local(t)[3]
  OBVIOUS
<1>3. n \in Nat /\ passed \in Passed /\ due \in SUBSET Slots
  BY <1>1, <1>2, ExitNumbers
<1>4. /\ calls[t] # << >> /\ calls[t][1].fn = "exits" /\ Last(calls[t]) = calls[t][1]
  BY <1>1, SlotTop
<1>5. table[t] # NULL
  BY <1>4, TopCallOK DEF SlotCallOK, NeedsTable
<1>6. n < tls_max_ /\ ExitOK(t, n, passed, due)
  BY <1>1, <1>2 DEF CallDestructor, ExitsOK
<1>7. \A s \in ready : wrote[t][s] = IF table[t] = NULL THEN NULL ELSE table[t][number[s]]
  BY <1>1 DEF TablesOK
<1>8. PICK more : more = IF n \in tls_destructors_ THEN Append(passed, <<n, table[t][n]>>) ELSE passed
  OBVIOUS
<1>9. more \in Passed /\ ExitOK(t, n + 1, more, due)
  <2>1. CASE n \in tls_destructors_
    <3>1. n \in 0..Size - 1
      BY <1>1, <1>3, <1>6, MaxFits
    <3>2. table[t][n] \in Values \cup {NULL}
      BY <1>1, <1>5, <3>1 DEF SlotTypes
    <3>3. PICK e : e = <<n, table[t][n]>> /\ e \in Nat \X (Values \cup {NULL})
      <4>1. PICK w : w = table[t][n]
        OBVIOUS
      <4>2. <<n, w>> \in Nat \X (Values \cup {NULL})
        BY <1>3, <3>2, <4>1
      <4>3. QED BY <4>1, <4>2
    <3>4. Append(passed, e) \in Passed
      BY <1>3, <3>3 DEF Passed
    <3>5. QED BY <1>1, <1>3, <1>5, <1>6, <1>7, <1>8, <2>1, <3>3, <3>4, PassesOn
  <2>2. CASE n \notin tls_destructors_
    BY <1>1, <1>3, <1>6, <1>8, <2>2, PassesBy
  <2>3. QED BY <2>1, <2>2
<1> DEFINE x == <<n + 1, more, due>>
           f == Frame("exits", On(t), "loop", x)
<1>10. GoTo(t, "loop", x, << >>)
  BY <1>2, <1>8 DEF CallDestructor
<1>11. x \in Nat \X Passed \X SUBSET Slots /\ x[1] = n + 1 /\ x[2] = more /\ x[3] = due
  BY <1>3, <1>9
<1>12. f.fn = "exits" /\ f.pc = "loop" /\ f.x = x
  BY FrameFields
<1>13. FrameOK(f) /\ x \in Locals /\ "loop" \in Pcs
  BY <1>11, <1>12 DEF FrameOK, Locals, Pcs
<1>14. ExitOK(t, f.x[1], f.x[2], f.x[3])
  BY <1>9, <1>11, <1>12
<1> HIDE DEF x
<1>15. SlotMoved(t) /\ Ends(calls'[t], f, f)
  BY <1>1, <1>10, <1>13, SlotGoesOn
<1> HIDE DEF f
<1>16. SlotCallOK(t, f, f)
  BY <1>5, <1>12 DEF SlotCallOK, Initializing
<1>17. InitsSame(t)
  BY <1>4, <1>12, <1>15, NoInitsSame DEF Ends
<1>18. \A i : ~Swaps(t, i)
  BY <1>1, NotSwapping
<1>19. QuietEnd(t)
  BY <1>12, <1>14, <1>15, <1>16 DEF QuietEnd
<1>20. QED BY <1>1, <1>15, <1>17, <1>18, <1>19, SlotQuiet

(* Slot::Initialize begins.                                                   *)
LEMMA StartedUnborn ==
  ASSUME StaticsInv
  PROVE  IsFiniteSet(Started) /\ IsFiniteSet(Unborn) /\ Started \subseteq Unborn
         /\ \A t \in OSThreads, s \in Slots : Inits(t, s) => InitializingSlot(s) /\ s \notin ready
<1>1. ASSUME NEW t \in OSThreads, NEW s \in Slots, Inits(t, s)
      PROVE  InitializingSlot(s) /\ s \notin ready
  <2>1. calls[t] # << >> /\ calls[t][1].fn = "initialize" /\ calls[t][1].on = s
    BY <1>1 DEF Inits, Initializing
  <2>2. 1 \in 1..2 /\ 1 \in DOMAIN calls[t]
    BY <2>1 DEF StaticsInv, StacksOK
  <2>3. s \notin ready
    BY <1>1, <2>1, TopCallOK DEF SlotCallOK, Inits
  <2>4. QED BY <2>1, <2>2, <2>3 DEF InitializingSlot
<1>2. Started \subseteq Unborn /\ Unborn \subseteq Slots /\ Started \subseteq Slots
  BY <1>1 DEF Started, Unborn, Begun
<1>3. QED BY <1>1, <1>2, SlotsAssumption, FS_Subset

LEMMA InitializeSlotKeeps ==
  ASSUME StaticsInv, MayCall, NEW t \in OSThreads, NEW s \in Slots, InitializeSlot(t, s), UNCHANGED objectVars
  PROVE  StaticsInv'
<1> DEFINE f == Frame("initialize", s, "check", << >>)
<1>1. /\ s \notin ready /\ ~InitializingSlot(s) /\ tls_max_ + Cardinality(Unborn) < Size
      /\ calls[t] = << >> /\ calls' = [calls EXCEPT ![t] = <<f>>] /\ native' = native
      /\ slot' = slot /\ life' = life /\ tls_key_' = tls_key_ /\ table' = table
      /\ UNCHANGED <<tls_max_, tls_destructors_, number, ready, wrote>>
      /\ StacksOK /\ ObjectsInv /\ NativeInv /\ SlotsInv
  BY DEF InitializeSlot, UserCalls, Spend, Idle, StaticsInv, objectVars, slotVars
<1>2. f.fn = "initialize" /\ f.on = s /\ f.pc = "check"
  BY FrameFields
<1>3. f \in Frames
  BY FrameType, NoLocals DEF Pcs
<1>4. FrameOK(f)
  BY <1>2 DEF FrameOK
<1> HIDE DEF f
<1>5. SlotMoved(t) /\ Ends(calls'[t], f, f)
  BY <1>1, <1>2, <1>3, <1>4, SlotBegins
<1>6. StacksOK' /\ ObjectsInv' /\ OnlyOf(t) /\ Shows(t, f, f)
  BY <1>5, EndsIn DEF SlotMoved
<1>7. /\ \A i : ~Swaps(t, i) /\ ~Swaps(t, i)'
      /\ \A u : ~Late(t, u)' /\ ~Late(t, u) /\ ~Begun(t, u) /\ ~Inits(t, u)
      /\ \A u : (Begun(t, u)' <=> u = s) /\ (Inits(t, u)' <=> u = s)
      /\ ~In(t, "exits", "loop")'
  <2>1. (\A i : ~Swaps(t, i)) /\ \A u : ~Late(t, u) /\ ~Begun(t, u) /\ ~Inits(t, u)
    BY <1>1, EmptyIn
  <2>2. QED BY <1>2, <1>6, <2>1 DEF Shows, Initializing
<1>8. NativeInv' /\ \A u \in OSThreads : HasTable(u)' <=> HasTable(u)
  BY <1>1, <1>6, <1>7, NativeKept
<1>9. SlotTypes'
  BY <1>1 DEF SlotsInv, SlotTypes
<1>10. SlotCallsOK'
  <2>1. SlotCallOK(t, f, f)'
    BY <1>1, <1>2 DEF SlotCallOK, Initializing, NeedsTable
  <2>2. \E c, d : Ends(calls'[t], c, d) /\ SlotCallOK(t, c, d)'
    BY <1>5, <2>1
  <2>3. SlotCallsOK
    BY <1>1 DEF SlotsInv
  <2>4. QED BY <1>1, <1>6, <2>2, <2>3, SlotCallsAfter
<1>11. /\ \A u \in OSThreads : u # t =>
            \A r : (Inits(u, r)' <=> Inits(u, r)) /\ (Begun(u, r)' <=> Begun(u, r)) /\ (Late(u, r)' <=> Late(u, r))
  BY <1>6, OtherInits
<1>12. OneInitializes'
  <2>1. \A u \in OSThreads : ~Inits(u, s)
    BY <1>1, StartedUnborn
  <2>2. OneInitializes
    BY <1>1 DEF SlotsInv
  <2>3. ASSUME NEW u \in OSThreads, NEW v \in OSThreads, NEW r \in Slots, Inits(u, r)', Inits(v, r)'
        PROVE  u = v
    <3>1. CASE r = s
      <4>1. u = t /\ v = t
        BY <1>11, <2>1, <2>3, <3>1
      <4>2. QED BY <4>1
    <3>2. CASE r # s
      <4>1. u # t /\ v # t /\ Inits(u, r) /\ Inits(v, r)
        BY <1>7, <1>11, <2>3, <3>2
      <4>2. QED BY <2>2, <4>1 DEF OneInitializes
    <3>3. QED BY <3>1, <3>2
  <2>4. QED BY <2>3 DEF OneInitializes
<1>13. \A r : Grabbed(r)' <=> Grabbed(r)
  BY <1>7, <1>11 DEF Grabbed
<1>14. Started' \subseteq Started \cup {s}
  BY <1>7, <1>11 DEF Started
<1>15. NumbersOK'
  <2>1. IsFiniteSet(Started) /\ IsFiniteSet(Unborn) /\ Started \subseteq Unborn
    BY StartedUnborn
  <2>2. Cardinality(Started) <= Cardinality(Unborn) /\ Cardinality(Started) \in Nat /\ Cardinality(Unborn) \in Nat
    BY <2>1, FS_Subset, FS_CardinalityType
  <2>3. IsFiniteSet(Started \cup {s}) /\ Cardinality(Started \cup {s}) <= Cardinality(Started) + 1
    <3>1. \/ s \in Started /\ Cardinality(Started \cup {s}) = Cardinality(Started)
          \/ s \notin Started /\ Cardinality(Started \cup {s}) = Cardinality(Started) + 1
      BY <2>1, FS_AddElement
    <3>2. IsFiniteSet(Started \cup {s})
      BY <2>1, FS_AddElement
    <3>3. QED BY <2>2, <3>1, <3>2
  <2>4. PICK more : more = Started'
    OBVIOUS
  <2>5. Cardinality(more) <= Cardinality(Started \cup {s}) /\ Cardinality(more) \in Nat /\ Cardinality(Started \cup {s}) \in Nat
    BY <1>14, <2>3, <2>4, FS_Subset, FS_CardinalityType
  <2>6. tls_max_ \in Nat /\ Size \in Nat
    BY <1>1, SlotsAssumption DEF SlotsInv, SlotTypes
  <2>7. tls_max_ + Cardinality(more) <= Size
    BY <1>1, <2>2, <2>3, <2>5, <2>6
  <2>8. NumbersOK
    BY <1>1 DEF SlotsInv
  <2>9. QED BY <1>1, <1>13, <2>4, <2>7, <2>8 DEF NumbersOK
<1>16. TablesOK'
  <2>1. TablesOK
    BY <1>1 DEF SlotsInv
  <2>2. QED BY <1>1, <1>8, <1>13, <2>1, TablesKept
<1>17. ExitsOK'
  <2>1. ExitsOK /\ SlotTypes /\ tls_max_' \in Nat /\ tls_max_ <= tls_max_'
    BY <1>1 DEF SlotsInv, SlotTypes
  <2>2. \A u \in OSThreads : In(u, "exits", "loop") => Local(u)[1] \in Nat
    BY <1>1, ExitNumbers
  <2>3. \A x : In(t, "exits", "loop")' /\ Local(t)' = x => ExitOK(t, x[1], x[2], x[3])'
    BY <1>7
  <2>4. QED BY <1>1, <1>6, <2>1, <2>2, <2>3, ExitsAfter
<1>18. QED BY <1>6, <1>8, <1>9, <1>10, <1>12, <1>15, <1>16, <1>17 DEF StaticsInv, SlotsInv

(* A slot gets its number.                                                    *)
LEMMA FewerInitialize ==
  ASSUME OneInitializes, NEW t \in OSThreads, OnlyOf(t), \A s : Inits(t, s)' => Inits(t, s)
  PROVE  OneInitializes'
<1>1. \A u \in OSThreads : \A s : Inits(u, s)' => Inits(u, s)
  BY OtherInits
<1>2. QED BY <1>1 DEF OneInitializes

(* The one that initialises s.                                                *)
LEMMA Initializer ==
  ASSUME StaticsInv, NEW t \in OSThreads, NEW pc_, In(t, "initialize", pc_)
  PROVE  /\ On(t) \in Slots /\ On(t) \notin ready /\ \A r : Inits(t, r) <=> r = On(t)
         /\ \A r : (Begun(t, r) <=> r = On(t) /\ pc_ \in {"check", "grab"}) /\ (Late(t, r) <=> r = On(t) /\ pc_ = "destructor")
         /\ \A u \in OSThreads : Inits(u, On(t)) => u = t
<1>1. StacksOK /\ AboutSlots("initialize") /\ OneInitializes
  BY DEF StaticsInv, SlotsInv, AboutSlots
<1>2. /\ calls[t] # << >> /\ calls[t][1].fn = "initialize" /\ calls[t][1].on = On(t) /\ calls[t][1].pc = pc_
      /\ On(t) \in Slots
  BY <1>1, SlotTop DEF FrameOK
<1>3. On(t) \notin ready
  BY <1>2, TopCallOK DEF SlotCallOK, Initializing
<1>4. \A r : Inits(t, r) <=> r = On(t)
  BY <1>2 DEF Inits, Initializing
<1>5. \A r : (Begun(t, r) <=> r = On(t) /\ pc_ \in {"check", "grab"}) /\ (Late(t, r) <=> r = On(t) /\ pc_ = "destructor")
  BY <1>2, <1>4 DEF Begun, Late
<1>6. \A u \in OSThreads : Inits(u, On(t)) => u = t
  BY <1>1, <1>2, <1>4 DEF OneInitializes
<1>7. QED BY <1>2, <1>3, <1>4, <1>5, <1>6

LEMMA GrabKeeps ==
  ASSUME StaticsInv, NEW t \in OSThreads, Grab(t), UNCHANGED objectVars
  PROVE  StaticsInv'
<1>1. PICK s : s = On(t)
  OBVIOUS
<1> DEFINE f == Frame("initialize", s, "destructor", << >>)
<1>2. /\ In(t, "initialize", "grab") /\ GoTo(t, "destructor", << >>, << >>) /\ native' = native
      /\ slot' = slot /\ life' = life /\ tls_key_' = tls_key_ /\ table' = table
      /\ UNCHANGED <<tls_destructors_, ready, wrote>> /\ tls_max_' = tls_max_ + 1
      /\ number' = [number EXCEPT ![s] = tls_max_]
      /\ StacksOK /\ ObjectsInv /\ NativeInv /\ SlotsInv /\ AboutSlots("initialize")
  BY <1>1 DEF Grab, StaticsInv, objectVars, AboutSlots
<1>3. /\ s \in Slots /\ s \notin ready /\ (\A r : Inits(t, r) <=> r = s)
      /\ (\A r : (Begun(t, r) <=> r = s) /\ ~Late(t, r)) /\ \A u \in OSThreads : Inits(u, s) => u = t
  BY <1>1, <1>2, Initializer
<1>4. f.fn = "initialize" /\ f.on = s /\ f.pc = "destructor"
  BY FrameFields
<1>5. FrameOK(f) /\ << >> \in Locals /\ "destructor" \in Pcs
  BY <1>3, <1>4, NoLocals DEF FrameOK, Pcs
<1>6. SlotMoved(t) /\ Ends(calls'[t], f, f)
  BY <1>1, <1>2, <1>5, SlotGoesOn
<1> HIDE DEF f
<1>7. StacksOK' /\ ObjectsInv' /\ OnlyOf(t) /\ Shows(t, f, f)
  BY <1>6, EndsIn DEF SlotMoved
<1>8. /\ \A i : ~Swaps(t, i)' /\ ~Swaps(t, i)
      /\ \A r : ~Begun(t, r)' /\ (Late(t, r)' <=> r = s) /\ (Inits(t, r)' <=> r = s)
      /\ ~In(t, "exits", "loop")'
  BY <1>2, <1>4, <1>7, NotSwapping DEF Shows, Initializing
<1>9. \A u \in OSThreads : u # t =>
         \A r : (Inits(u, r)' <=> Inits(u, r)) /\ (Begun(u, r)' <=> Begun(u, r)) /\ (Late(u, r)' <=> Late(u, r))
  BY <1>7, OtherInits
<1>10. \A u \in OSThreads : ~Late(u, s) /\ (Begun(u, s) => u = t)
  BY <1>3 DEF Late, Begun
<1>11. (\A r : Grabbed(r)' <=> Grabbed(r) \/ r = s) /\ ~Grabbed(s)
  BY <1>3, <1>8, <1>9, <1>10 DEF Grabbed
<1>12. Started' = Started \ {s} /\ s \in Started
  BY <1>3, <1>8, <1>9, <1>10 DEF Started
<1>13. tls_max_ \in Nat \ {0} /\ tls_max_ + 1 \in Nat \ {0} /\ Size \in Nat /\ tls_max_ < tls_max_ + 1
  BY <1>2, SlotsAssumption DEF SlotsInv, SlotTypes
<1>14. number \in [Slots -> Nat] /\ number' \in [Slots -> Nat] /\ number'[s] = tls_max_ /\ \A r \in Slots : r # s => number'[r] = number[r]
  BY <1>2, <1>3, <1>13 DEF SlotsInv, SlotTypes
<1>15. SlotTypes'
  <2>1. SlotTypes
    BY <1>2 DEF SlotsInv
  <2>2. {number'[r] : r \in ready \cap Cleaned} = {number[r] : r \in ready \cap Cleaned}
    BY <1>3, <1>14, <2>1 DEF SlotTypes
  <2>3. QED BY <1>2, <1>13, <1>14, <2>1, <2>2 DEF SlotTypes
<1>16. NativeInv' /\ \A u \in OSThreads : HasTable(u)' <=> HasTable(u)
  BY <1>2, <1>7, <1>8, NativeKept
<1>17. SlotCallsOK'
  <2>1. calls[t] # << >> /\ NeedsTable(Last(calls[t]))
    BY <1>2 DEF In, NeedsTable
  <2>2. table[t] # NULL
    BY <2>1, TopCallOK DEF SlotCallOK
  <2>3. SlotCallOK(t, f, f)'
    BY <1>2, <1>3, <1>4, <2>2 DEF SlotCallOK, Initializing
  <2>4. \E c, d : Ends(calls'[t], c, d) /\ SlotCallOK(t, c, d)'
    BY <1>6, <2>3
  <2>5. SlotCallsOK
    BY <1>2 DEF SlotsInv
  <2>6. QED BY <1>2, <1>7, <2>4, <2>5, SlotCallsAfter
<1>18. OneInitializes'
  <2>1. OneInitializes
    BY <1>2 DEF SlotsInv
  <2>2. QED BY <1>3, <1>7, <1>8, <2>1, FewerInitialize
<1>19. NumbersOK /\ SlotTypes
  BY <1>2 DEF SlotsInv
<1>20. NumbersOK'
  <2>1. IsFiniteSet(Started)
    BY StartedUnborn
  <2>2. Cardinality(Started \ {s}) = Cardinality(Started) - 1 /\ Cardinality(Started) \in Nat
    BY <1>12, <2>1, FS_RemoveElement, FS_CardinalityType
  <2>3. tls_max_ + 1 + (Cardinality(Started) - 1) <= Size
    BY <1>13, <1>19, <2>2 DEF NumbersOK
  <2>4. \A r \in Slots : r \in ready \/ Grabbed(r)' => r = s \/ (r # s /\ (r \in ready \/ Grabbed(r)) /\ number'[r] = number[r])
    BY <1>11, <1>14
  <2>5. \A r \in Slots : r \in ready \/ Grabbed(r) => number[r] < tls_max_ /\ number[r] < tls_max_ + 1 /\ number[r] # tls_max_
    BY <1>13, <1>14, <1>19 DEF NumbersOK
  <2>6. \A r \in Slots : r \in ready \/ Grabbed(r)' => number'[r] < tls_max_ + 1
    BY <1>13, <1>14, <2>4, <2>5
  <2>7. ASSUME NEW r \in Slots, NEW q \in Slots, r \in ready \/ Grabbed(r)', q \in ready \/ Grabbed(q)', number'[r] = number'[q]
        PROVE  r = q
    <3>1. CASE r = s /\ q = s
      BY <3>1
    <3>2. CASE r = s /\ q # s
      BY <1>14, <2>4, <2>5, <2>7, <3>2
    <3>3. CASE r # s /\ q = s
      BY <1>14, <2>4, <2>5, <2>7, <3>3
    <3>4. CASE r # s /\ q # s
      BY <1>19, <2>4, <2>7, <3>4 DEF NumbersOK
    <3>5. QED BY <3>1, <3>2, <3>3, <3>4
  <2>8. QED BY <1>2, <1>12, <2>2, <2>3, <2>6, <2>7 DEF NumbersOK
<1>21. TablesOK'
  <2>1. TablesOK
    BY <1>2 DEF SlotsInv
  <2>2. \A r \in ready : number'[r] = number[r]
    BY <1>3, <1>14, <1>19 DEF SlotTypes
  <2>3. ASSUME NEW u \in OSThreads, NEW n \in 0..Size - 1, table[u] # NULL,
               n >= tls_max_ + 1 \/ \E r \in Slots : Grabbed(r)' /\ n = number'[r]
        PROVE  table[u][n] = NULL
    <3>1. n >= tls_max_ \/ \E r \in Slots : Grabbed(r) /\ n = number[r]
      <4>1. CASE n >= tls_max_ + 1
        BY <1>13, <4>1
      <4>2. CASE \E r \in Slots : Grabbed(r)' /\ n = number'[r]
        <5>1. PICK r \in Slots : Grabbed(r)' /\ n = number'[r]
          BY <4>2
        <5>2. CASE r = s
          BY <1>13, <1>14, <5>1, <5>2
        <5>3. CASE r # s
          BY <1>11, <1>14, <5>1, <5>3
        <5>4. QED BY <5>2, <5>3
      <4>3. QED BY <2>3, <4>1, <4>2
    <3>2. QED BY <2>1, <2>3, <3>1 DEF TablesOK
  <2>4. QED BY <1>2, <1>16, <2>1, <2>2, <2>3 DEF TablesOK
<1>22. ExitsOK'
  <2>1. ExitsOK /\ tls_max_' \in Nat /\ tls_max_ <= tls_max_'
    BY <1>2, <1>13 DEF SlotsInv
  <2>2. \A u \in OSThreads : In(u, "exits", "loop") => Local(u)[1] \in Nat
    BY <1>2, ExitNumbers
  <2>3. \A x : In(t, "exits", "loop")' /\ Local(t)' = x => ExitOK(t, x[1], x[2], x[3])'
    BY <1>8
  <2>4. \A r \in ready : number'[r] = number[r] /\ \A u \in OSThreads \ {t} : wrote'[u][r] = wrote[u][r]
    BY <1>2, <1>3, <1>14, <1>19 DEF SlotTypes
  <2>5. ready \subseteq ready'
    BY <1>2
  <2>6. QED BY <1>7, <1>19, <2>1, <2>2, <2>3, <2>4, <2>5, ExitsAfter
<1>23. QED BY <1>7, <1>15, <1>16, <1>17, <1>18, <1>20, <1>21, <1>22 DEF StaticsInv, SlotsInv

(* A slot becomes ready, or is freed.                                         *)
LEMMA OthersReady ==
  ASSUME SlotCallsOK, NEW t \in OSThreads, OnlyOf(t), tls_key_' = tls_key_, table' = table, calls'[t] = << >>,
         \A u \in OSThreads, r \in Slots : u # t /\ Inits(u, r) => r \notin ready',
         \A u \in OSThreads : u # t /\ calls[u] # << >> /\ calls[u][1].fn \in {"getSlot", "setSlot"} => calls[u][1].on \in ready'
  PROVE  SlotCallsOK'
<1>1. ASSUME NEW u \in OSThreads, calls'[u] # << >>
      PROVE  SlotCallOK(u, calls[u][1], Last(calls[u]))' /\ calls'[u] = calls[u]
  <2>1. calls'[u] = calls[u] /\ u # t
    BY <1>1 DEF OnlyOf
  <2>2. PICK c, d : c = calls[u][1] /\ d = Last(calls[u])
    OBVIOUS
  <2>3. SlotCallOK(u, c, d)
    BY <1>1, <2>1, <2>2 DEF SlotCallsOK
  <2>4. \A r \in Slots : Initializing(c, r) => r \notin ready'
    BY <1>1, <2>1, <2>2 DEF Inits
  <2>5. c.fn \in {"getSlot", "setSlot"} => c.on \in ready'
    BY <1>1, <2>1, <2>2
  <2>6. SlotCallOK(u, c, d)'
    BY <2>3, <2>4, <2>5 DEF SlotCallOK, Initializing, NeedsTable
  <2>7. QED BY <2>1, <2>2, <2>6
<1>2. QED BY <1>1 DEF SlotCallsOK

LEMMA SetDestructorKeeps ==
  ASSUME StaticsInv, NEW t \in OSThreads, SetDestructor(t), UNCHANGED objectVars
  PROVE  StaticsInv'
<1>1. PICK s : s = On(t)
  OBVIOUS
<1>2. /\ In(t, "initialize", "destructor") /\ Return(t) /\ native' = native
      /\ slot' = slot /\ life' = life /\ tls_key_' = tls_key_ /\ table' = table
      /\ number' = number /\ tls_max_' = tls_max_
      /\ tls_destructors_' = tls_destructors_ \cup {number[r] : r \in {s} \cap Cleaned}
      /\ ready' = ready \cup {s} /\ wrote' = [u \in OSThreads |-> [wrote[u] EXCEPT ![s] = NULL]]
      /\ StacksOK /\ ObjectsInv /\ NativeInv /\ SlotsInv /\ AboutSlots("initialize")
  BY <1>1 DEF SetDestructor, StaticsInv, objectVars, AboutSlots
<1>3. /\ s \in Slots /\ s \notin ready /\ (\A r : Inits(t, r) <=> r = s)
      /\ (\A r : ~Begun(t, r) /\ (Late(t, r) <=> r = s)) /\ \A u \in OSThreads : Inits(u, s) => u = t
  BY <1>1, <1>2, Initializer
<1>4. SlotMoved(t) /\ calls'[t] = << >>
  BY <1>2, SlotReturns
<1>5. StacksOK' /\ ObjectsInv' /\ OnlyOf(t)
  BY <1>4 DEF SlotMoved
<1>6. /\ \A i : ~Swaps(t, i)' /\ ~Swaps(t, i)
      /\ \A r : ~Begun(t, r)' /\ ~Late(t, r)' /\ ~Inits(t, r)'
      /\ ~In(t, "exits", "loop")'
  BY <1>2, <1>4, NotSwapping, EmptyIn
<1>7. \A u \in OSThreads : u # t =>
         \A r : (Inits(u, r)' <=> Inits(u, r)) /\ (Begun(u, r)' <=> Begun(u, r)) /\ (Late(u, r)' <=> Late(u, r))
  BY <1>5, OtherInits
<1>8. Grabbed(s) /\ \A r : Grabbed(r)' <=> Grabbed(r) /\ r # s
  <2>1. Grabbed(s)
    BY <1>3 DEF Grabbed
  <2>2. \A u \in OSThreads : Late(u, s) => u = t
    BY <1>3 DEF Late
  <2>3. QED BY <1>3, <1>6, <1>7, <2>1, <2>2 DEF Grabbed
<1>9. Started' = Started
  BY <1>3, <1>6, <1>7 DEF Started
<1>10. SlotTypes /\ NumbersOK /\ TablesOK /\ ExitsOK /\ SlotCallsOK /\ OneInitializes
  BY <1>2 DEF SlotsInv
<1>11. \A u \in OSThreads : \A r \in Slots : wrote'[u][r] = IF r = s THEN NULL ELSE wrote[u][r]
  BY <1>2, <1>10 DEF SlotTypes
<1>12. SlotTypes'
  <2>1. wrote' \in [OSThreads -> [Slots -> Values \cup {NULL}]]
    BY <1>2, <1>10 DEF SlotTypes
  <2>2. {number[r] : r \in (ready \cup {s}) \cap Cleaned} = {number[r] : r \in ready \cap Cleaned} \cup {number[r] : r \in {s} \cap Cleaned}
    OBVIOUS
  <2>3. QED BY <1>2, <1>3, <1>10, <2>1, <2>2 DEF SlotTypes
<1>13. NativeInv' /\ \A u \in OSThreads : HasTable(u)' <=> HasTable(u)
  BY <1>2, <1>5, <1>6, NativeKept
<1>14. SlotCallsOK'
  <2>1. \A u \in OSThreads, r \in Slots : u # t /\ Inits(u, r) => r \notin ready'
    BY <1>2, <1>3, StartedUnborn
  <2>2. \A u \in OSThreads : u # t /\ calls[u] # << >> /\ calls[u][1].fn \in {"getSlot", "setSlot"} => calls[u][1].on \in ready'
    BY <1>2, TopCallOK DEF SlotCallOK
  <2>3. QED BY <1>2, <1>4, <1>5, <1>10, <2>1, <2>2, OthersReady
<1>15. OneInitializes'
  BY <1>5, <1>6, <1>10, FewerInitialize
<1>16. \A r \in Slots : r \in ready' \/ Grabbed(r)' => r \in ready \/ Grabbed(r)
  BY <1>2, <1>8
<1>17. NumbersOK'
  BY <1>2, <1>9, <1>10, <1>16 DEF NumbersOK
<1>18. TablesOK'
  <2>1. number[s] \in 0..Size - 1
    <3>1. number[s] \in Nat /\ number[s] < tls_max_
      BY <1>3, <1>8, <1>10 DEF SlotTypes, NumbersOK
    <3>2. QED BY <1>10, <3>1, MaxFits
  <2>2. ASSUME NEW u \in OSThreads, NEW r \in ready'
        PROVE  wrote'[u][r] = IF table[u] = NULL THEN NULL ELSE table[u][number[r]]
    <3>1. CASE r = s
      BY <1>3, <1>8, <1>10, <1>11, <2>1, <3>1 DEF TablesOK
    <3>2. CASE r # s
      <4>1. r \in ready /\ r \in Slots
        BY <1>2, <1>10, <2>2, <3>2 DEF SlotTypes
      <4>2. QED BY <1>10, <1>11, <3>2, <4>1 DEF TablesOK
    <3>3. QED BY <3>1, <3>2
  <2>3. \A u \in OSThreads, n \in 0..Size - 1 :
          table[u] # NULL /\ (n >= tls_max_ \/ \E r \in Slots : Grabbed(r)' /\ n = number[r]) => table[u][n] = NULL
    BY <1>8, <1>10 DEF TablesOK
  <2>4. QED BY <1>2, <1>10, <1>13, <2>2, <2>3 DEF TablesOK
<1>19. ExitsOK'
  <2>1. tls_max_' \in Nat /\ tls_max_ <= tls_max_' /\ ready \subseteq ready'
    BY <1>2, <1>10 DEF SlotTypes
  <2>2. \A u \in OSThreads : In(u, "exits", "loop") => Local(u)[1] \in Nat
    BY <1>2, ExitNumbers
  <2>3. \A x : In(t, "exits", "loop")' /\ Local(t)' = x => ExitOK(t, x[1], x[2], x[3])'
    BY <1>6
  <2>4. \A r \in ready : number'[r] = number[r] /\ \A u \in OSThreads \ {t} : wrote'[u][r] = wrote[u][r]
    BY <1>2, <1>3, <1>10, <1>11 DEF SlotTypes
  <2>5. QED BY <1>5, <1>10, <2>1, <2>2, <2>3, <2>4, ExitsAfter
<1>20. QED BY <1>5, <1>12, <1>13, <1>14, <1>15, <1>17, <1>18, <1>19 DEF StaticsInv, SlotsInv

LEMMA FreeSlotKeeps ==
  ASSUME StaticsInv, NEW t \in OSThreads, NEW s \in Slots, FreeSlot(t, s), UNCHANGED objectVars
  PROVE  StaticsInv'
<1>1. /\ s \in ready /\ ~Exiting /\ (\A u \in OSThreads : \A k \in DOMAIN calls[u] : calls[u][k].on # s)
      /\ calls[t] = << >> /\ calls' = [calls EXCEPT ![t] = << >>] /\ native' = native
      /\ slot' = slot /\ life' = life /\ tls_key_' = tls_key_ /\ table' = table
      /\ number' = number /\ tls_max_' = tls_max_ /\ wrote' = wrote
      /\ tls_destructors_' = tls_destructors_ \ {number[s]} /\ ready' = ready \ {s}
      /\ StacksOK /\ ObjectsInv /\ NativeInv /\ SlotsInv
  BY DEF FreeSlot, UserCalls, Spend, Idle, StaticsInv, objectVars
<1>2. SlotMoved(t) /\ calls'[t] = << >>
  BY <1>1, SlotIdles
<1>3. StacksOK' /\ ObjectsInv' /\ OnlyOf(t)
  BY <1>2 DEF SlotMoved
<1>4. /\ (\A i : ~Swaps(t, i)' /\ ~Swaps(t, i)) /\ InitsSame(t) /\ ~In(t, "exits", "loop")'
  BY <1>1, <1>2, EmptyIn DEF InitsSame
<1>5. SlotTypes /\ NumbersOK /\ TablesOK /\ ExitsOK /\ SlotCallsOK /\ OneInitializes
  BY <1>1 DEF SlotsInv
<1>6. Started' = Started /\ (\A r : Grabbed(r)' <=> Grabbed(r)) /\ OneInitializes'
  BY <1>1, <1>3, <1>4, <1>5, InitsKept
<1>7. NativeInv' /\ \A u \in OSThreads : HasTable(u)' <=> HasTable(u)
  BY <1>1, <1>3, <1>4, NativeKept
<1>8. SlotTypes'
  <2>1. \A r \in ready : number[r] = number[s] => r = s
    BY <1>1, <1>5 DEF NumbersOK, SlotTypes
  <2>2. {number[r] : r \in (ready \ {s}) \cap Cleaned} = {number[r] : r \in ready \cap Cleaned} \ {number[s]}
    BY <2>1
  <2>3. QED BY <1>1, <1>5, <2>2 DEF SlotTypes
<1>9. SlotCallsOK'
  <2>1. \A u \in OSThreads, r \in Slots : u # t /\ Inits(u, r) => r \notin ready'
    BY <1>1, StartedUnborn
  <2>2. ASSUME NEW u \in OSThreads, u # t, calls[u] # << >>, calls[u][1].fn \in {"getSlot", "setSlot"}
        PROVE  calls[u][1].on \in ready'
    <3>1. calls[u][1].on \in ready
      BY <2>2, TopCallOK DEF SlotCallOK
    <3>2. 1 \in DOMAIN calls[u]
      BY <1>1, <2>2 DEF StacksOK
    <3>3. QED BY <1>1, <3>1, <3>2
  <2>3. QED BY <1>1, <1>2, <1>3, <1>5, <2>1, <2>2, OthersReady
<1>10. NumbersOK'
  BY <1>1, <1>5, <1>6 DEF NumbersOK
<1>11. TablesOK'
  BY <1>1, <1>5, <1>6, <1>7 DEF TablesOK
<1>12. ExitsOK'
  <2>1. \A u \in OSThreads : ~In(u, "exits", "loop")
    BY <1>1 DEF Exiting
  <2>2. \A u \in OSThreads : ~In(u, "exits", "loop")'
    BY <1>3, <1>4, <2>1, OtherInits
  <2>3. QED BY <2>2 DEF ExitsOK
<1>13. QED BY <1>3, <1>6, <1>7, <1>8, <1>9, <1>10, <1>11, <1>12 DEF StaticsInv, SlotsInv

(* A thread sets a slot, gets its table, or is gone.                           *)
LEMMA GrabbedNotReady ==
  ASSUME StaticsInv, NEW s \in Slots, Grabbed(s)
  PROVE  s \notin ready
<1>1. PICK t \in OSThreads : Inits(t, s)
  BY DEF Grabbed, Late
<1>2. QED BY <1>1, StartedUnborn

LEMMA WriteKeeps ==
  ASSUME StaticsInv, NEW t \in OSThreads, Write(t), UNCHANGED objectVars
  PROVE  StaticsInv'
<1>1. PICK s, v : s = On(t) /\ v = Local(t)[1]
  OBVIOUS
<1>2. /\ In(t, "setSlot", "write") /\ Return(t) /\ native' = native
      /\ slot' = slot /\ life' = life /\ tls_key_' = tls_key_
      /\ table' = [table EXCEPT ![t][number[s]] = v] /\ wrote' = [wrote EXCEPT ![t][s] = v]
      /\ UNCHANGED <<tls_max_, tls_destructors_, number, ready>>
      /\ StacksOK /\ ObjectsInv /\ NativeInv /\ SlotsInv /\ AboutSlots("setSlot")
  BY <1>1 DEF Write, StaticsInv, objectVars, AboutSlots
<1>3. SlotMoved(t) /\ calls'[t] = << >>
  BY <1>2, SlotReturns
<1>4. StacksOK' /\ ObjectsInv' /\ OnlyOf(t)
  BY <1>3 DEF SlotMoved
<1>5. /\ calls[t] # << >> /\ calls[t][1].fn = "setSlot" /\ calls[t][1].on = s /\ v \in Values
  BY <1>1, <1>2, SlotTop DEF FrameOK
<1>6. s \in ready /\ table[t] # NULL
  BY <1>5, <1>2, SlotTop, TopCallOK DEF SlotCallOK, NeedsTable
<1>7. InitsSame(t)
  BY <1>3, <1>5, NoInitsSame
<1>8. (\A i : ~Swaps(t, i)' /\ ~Swaps(t, i)) /\ ~In(t, "exits", "loop")'
  BY <1>2, <1>3, NotSwapping, EmptyIn
<1>9. SlotTypes /\ NumbersOK /\ TablesOK /\ ExitsOK /\ SlotCallsOK /\ OneInitializes
  BY <1>2 DEF SlotsInv
<1>10. Started' = Started /\ (\A r : Grabbed(r)' <=> Grabbed(r)) /\ OneInitializes'
  BY <1>2, <1>4, <1>7, <1>9, InitsKept
<1>11. NativeInv' /\ \A u \in OSThreads : HasTable(u)' <=> HasTable(u)
  BY <1>2, <1>4, <1>8, NativeKept
<1>12. s \in Slots /\ number[s] \in 0..Size - 1 /\ table[t] \in [0..Size - 1 -> Values \cup {NULL}]
  <2>1. s \in Slots /\ number[s] \in Nat /\ number[s] < tls_max_
    BY <1>6, <1>9 DEF SlotTypes, NumbersOK
  <2>2. QED BY <1>6, <1>9, <2>1, MaxFits DEF SlotTypes
<1>13. PICK m : m = number[s] /\ m \in 0..Size - 1
  BY <1>12
<1>14. PICK row : row = [table[t] EXCEPT ![m] = v]
  OBVIOUS
<1>15. /\ row \in [0..Size - 1 -> Values \cup {NULL}] /\ row[m] = v /\ row # NULL
       /\ \A n \in 0..Size - 1 : n # m => row[n] = table[t][n]
  BY <1>5, <1>12, <1>13, <1>14, SlotsAssumption
<1>16. table'[t] = row /\ (\A u \in OSThreads : u # t => table'[u] = table[u])
       /\ table' \in [OSThreads -> [0..Size - 1 -> Values \cup {NULL}] \cup {NULL}]
  <2>1. table' = [table EXCEPT ![t] = row]
    BY <1>2, <1>13, <1>14
  <2>2. QED BY <1>9, <1>15, <2>1 DEF SlotTypes
<1>17. /\ wrote'[t][s] = v /\ \A r \in Slots : r # s => wrote'[t][r] = wrote[t][r]
       /\ \A u \in OSThreads : u # t => wrote'[u] = wrote[u]
       /\ wrote' \in [OSThreads -> [Slots -> Values \cup {NULL}]]
  <2>1. wrote' = [wrote EXCEPT ![t] = [wrote[t] EXCEPT ![s] = v]]
    BY <1>2
  <2>2. wrote \in [OSThreads -> [Slots -> Values \cup {NULL}]] /\ wrote[t] \in [Slots -> Values \cup {NULL}]
    BY <1>9 DEF SlotTypes
  <2>3. PICK w : w = [wrote[t] EXCEPT ![s] = v] /\ w \in [Slots -> Values \cup {NULL}] /\ w[s] = v
                 /\ \A r \in Slots : r # s => w[r] = wrote[t][r]
    <3>1. PICK w : w = [wrote[t] EXCEPT ![s] = v]
      OBVIOUS
    <3>2. w \in [Slots -> Values \cup {NULL}] /\ w[s] = v /\ \A r \in Slots : r # s => w[r] = wrote[t][r]
      BY <1>5, <1>12, <2>2, <3>1
    <3>3. QED BY <3>1, <3>2
  <2>4. QED BY <2>1, <2>2, <2>3
<1>18. SlotTypes'
  BY <1>2, <1>9, <1>16, <1>17 DEF SlotTypes
<1>19. SlotCallsOK'
  BY <1>2, <1>3, <1>4, <1>9, <1>16, SlotCallsAfter
<1>20. NumbersOK'
  BY <1>2, <1>9, <1>10 DEF NumbersOK
<1>21. TablesOK'
  <2>1. \A u \in OSThreads : table'[u] # NULL <=> table[u] # NULL
    BY <1>6, <1>15, <1>16
  <2>2. ASSUME NEW u \in OSThreads, NEW r \in ready
        PROVE  wrote'[u][r] = IF table'[u] = NULL THEN NULL ELSE table'[u][number[r]]
    <3>1. r \in Slots /\ number[r] \in 0..Size - 1 /\ (number[r] = m => r = s)
      <4>1. r \in Slots /\ number[r] \in Nat /\ number[r] < tls_max_
        BY <1>9, <2>2 DEF SlotTypes, NumbersOK
      <4>2. number[r] = m => r = s
        BY <1>6, <1>9, <1>12, <1>13, <4>1 DEF NumbersOK
      <4>3. QED BY <1>9, <4>1, <4>2, MaxFits
    <3>2. CASE u # t
      BY <1>9, <1>16, <1>17, <3>2 DEF TablesOK
    <3>3. CASE u = t /\ r = s
      BY <1>13, <1>15, <1>16, <1>17, <3>3
    <3>4. CASE u = t /\ r # s
      BY <1>6, <1>9, <1>15, <1>16, <1>17, <3>1, <3>4 DEF TablesOK
    <3>5. QED BY <3>2, <3>3, <3>4
  <2>3. ASSUME NEW u \in OSThreads, NEW n \in 0..Size - 1, table'[u] # NULL,
               n >= tls_max_ \/ \E r \in Slots : Grabbed(r) /\ n = number[r]
        PROVE  table'[u][n] = NULL
    <3>1. table[u][n] = NULL
      BY <1>9, <2>1, <2>3 DEF TablesOK
    <3>2. n # m
      <4>1. tls_max_ \in Nat /\ m \in Nat /\ m < tls_max_
        BY <1>6, <1>9, <1>12, <1>13 DEF SlotTypes, NumbersOK
      <4>2. CASE n >= tls_max_
        BY <4>1, <4>2
      <4>3. CASE \E r \in Slots : Grabbed(r) /\ n = number[r]
        BY <1>6, <1>9, <1>12, <1>13, <4>3, GrabbedNotReady DEF NumbersOK
      <4>4. QED BY <2>3, <4>2, <4>3
    <3>3. QED BY <1>15, <1>16, <3>1, <3>2
  <2>4. QED BY <1>2, <1>9, <1>10, <1>11, <2>1, <2>2, <2>3 DEF TablesOK
<1>22. ExitsOK'
  <2>1. tls_max_' \in Nat /\ tls_max_ <= tls_max_' /\ ready \subseteq ready'
    BY <1>2, <1>9 DEF SlotTypes
  <2>2. \A u \in OSThreads : In(u, "exits", "loop") => Local(u)[1] \in Nat
    BY <1>2, ExitNumbers
  <2>3. \A x : In(t, "exits", "loop")' /\ Local(t)' = x => ExitOK(t, x[1], x[2], x[3])'
    BY <1>8
  <2>4. \A r \in ready : number'[r] = number[r] /\ \A u \in OSThreads \ {t} : wrote'[u][r] = wrote[u][r]
    BY <1>2, <1>17
  <2>5. QED BY <1>4, <1>9, <2>1, <2>2, <2>3, <2>4, ExitsAfter
<1>23. QED BY <1>4, <1>10, <1>11, <1>18, <1>19, <1>20, <1>21, <1>22 DEF StaticsInv, SlotsInv

(* Values at indexes nobody is about to give to the storage change.             *)
LEMMA ValuesChange ==
  ASSUME NativeInv, NEW t \in OSThreads, OnlyOf(t), NativeTypes(native'), DOMAIN native' = DOMAIN native,
         slot' = slot, life' = life, tls_key_' = tls_key_, \A i : ~Swaps(t, i) /\ ~Swaps(t, i)',
         \A i \in DOMAIN native, u \in OSThreads : i # tls_key_ /\ native[i][u] = NULL => native'[i][u] = NULL
  PROVE  NativeInv'
<1>1. (\A u \in OSThreads : \A i : Swaps(u, i)' <=> Swaps(u, i)) /\ \A i : Holders(i)' = Holders(i)
  BY HoldersKept
<1>2. ASSUME NEW u \in OSThreads, NEW w \in OSThreads, NEW i \in Indexes, Swaps(u, i)'
      PROVE  native'[i][w] = NULL
  <2>1. Swaps(u, i)
    BY <1>1, <1>2
  <2>2. i \in DOMAIN native /\ native[i][w] = NULL
    BY <2>1, Apart DEF NativeInv, NativeOK
  <2>3. i # tls_key_
    <3>1. NULL \notin Indexes
      BY IndexesAssumption
    <3>2. QED BY <2>1, <3>1, Apart
  <2>4. QED BY <2>2, <2>3
<1>3. NativeOK'
  BY <1>2 DEF NativeInv, NativeOK, NativeTypes
<1>4. OneHolder'
  BY <1>1 DEF NativeInv, OneHolder
<1>5. QED BY <1>3, <1>4 DEF NativeInv

LEMMA CreateTableKeeps ==
  ASSUME StaticsInv, NEW t \in OSThreads, CreateTable(t), UNCHANGED objectVars
  PROVE  StaticsInv'
<1>1. PICK row : row = [n \in 0..Size - 1 |-> NULL]
  OBVIOUS
<1>2. /\ In(t, "table", "create") /\ Return(t) /\ TlsSetValue(t, tls_key_, "table")
      /\ slot' = slot /\ life' = life /\ tls_key_' = tls_key_
      /\ table' = [table EXCEPT ![t] = row]
      /\ UNCHANGED <<tls_max_, tls_destructors_, number, ready, wrote>>
      /\ StacksOK /\ ObjectsInv /\ NativeInv /\ SlotsInv /\ AboutSlots("table")
  BY <1>1 DEF CreateTable, StaticsInv, objectVars, AboutSlots
<1>3. PICK c : c = calls[t][1]
  OBVIOUS
<1>4. SlotMoved(t) /\ Ends(calls'[t], c, c)
  BY <1>2, <1>3, SlotReturns
<1>5. StacksOK' /\ ObjectsInv' /\ OnlyOf(t) /\ Shows(t, c, c)
  BY <1>4, EndsIn DEF SlotMoved
<1>6. /\ calls[t] # << >> /\ c.fn \in {"initialize", "getSlot", "setSlot"} /\ CalledBy(Last(calls[t]), c)
      /\ Last(calls[t]).fn = "table" /\ Last(calls[t]).pc = "create"
  BY <1>2, <1>3, SlotTop DEF CalledBy
<1>7. SlotCallOK(t, c, Last(calls[t]))
  BY <1>3, <1>6, TopCallOK
<1>8. table[t] = NULL /\ tls_key_ # NULL
  BY <1>6, <1>7 DEF SlotCallOK
<1>9. InitsSame(t)
  BY <1>3, <1>4, <1>6, FirstInitsSame
<1>10. (\A i : ~Swaps(t, i)' /\ ~Swaps(t, i)) /\ ~In(t, "exits", "loop")'
  BY <1>2, <1>5, <1>6, NotSwapping DEF Shows
<1>11. SlotTypes /\ NumbersOK /\ TablesOK /\ ExitsOK /\ SlotCallsOK /\ OneInitializes
  BY <1>2 DEF SlotsInv
<1>12. Started' = Started /\ (\A r : Grabbed(r)' <=> Grabbed(r)) /\ OneInitializes'
  BY <1>2, <1>5, <1>9, <1>11, InitsKept
<1>13. NativeTypes(native) /\ tls_key_ \in DOMAIN native
  BY <1>2, <1>8, NativeTyped, Apart
<1>14. /\ NativeTypes(native') /\ DOMAIN native' = DOMAIN native
       /\ \A j \in DOMAIN native : j # tls_key_ => native'[j] = native[j]
       /\ native'[tls_key_][t] = "table" /\ \A u \in OSThreads : u # t => native'[tls_key_][u] = native[tls_key_][u]
  <2>1. PICK v : v = "table"
    OBVIOUS
  <2>2. v \in {NULL, "table"} \cup OSThreads /\ TlsSetValue(t, tls_key_, v)
    BY <1>2, <2>1
  <2>3. QED BY <1>13, <2>1, <2>2, ValueSet
<1>15. NativeInv'
  BY <1>2, <1>5, <1>10, <1>14, ValuesChange
<1>16. HasTable(t)' /\ \A u \in OSThreads : u # t => (HasTable(u)' <=> HasTable(u))
  BY <1>2, <1>8, <1>14, IndexesAssumption DEF HasTable
<1>17. row \in [0..Size - 1 -> Values \cup {NULL}] /\ row # NULL /\ \A n \in 0..Size - 1 : row[n] = NULL
  BY <1>1, SlotsAssumption
<1>18. table'[t] = row /\ (\A u \in OSThreads : u # t => table'[u] = table[u])
       /\ table' \in [OSThreads -> [0..Size - 1 -> Values \cup {NULL}] \cup {NULL}]
  BY <1>2, <1>11, <1>17 DEF SlotTypes
<1>19. SlotTypes'
  BY <1>2, <1>11, <1>18 DEF SlotTypes
<1>20. SlotCallsOK'
  <2>1. SlotCallOK(t, c, c)'
    BY <1>2, <1>6, <1>7, <1>17, <1>18 DEF SlotCallOK, Initializing
  <2>2. \E e, d : Ends(calls'[t], e, d) /\ SlotCallOK(t, e, d)'
    BY <1>4, <2>1
  <2>3. QED BY <1>2, <1>5, <1>11, <1>18, <2>2, SlotCallsAfter
<1>21. NumbersOK'
  BY <1>2, <1>11, <1>12 DEF NumbersOK
<1>22. TablesOK'
  <2>1. \A u \in OSThreads : table'[u] # NULL <=> HasTable(u)'
    BY <1>11, <1>16, <1>17, <1>18 DEF TablesOK
  <2>2. ASSUME NEW u \in OSThreads, NEW r \in ready
        PROVE  wrote[u][r] = IF table'[u] = NULL THEN NULL ELSE table'[u][number[r]]
    <3>1. CASE u # t
      BY <1>11, <1>18, <3>1 DEF TablesOK
    <3>2. CASE u = t
      <4>1. number[r] \in 0..Size - 1
        <5>1. number[r] \in Nat /\ number[r] < tls_max_
          BY <1>11 DEF SlotTypes, NumbersOK
        <5>2. QED BY <1>11, <5>1, MaxFits
      <4>2. wrote[t][r] = NULL
        BY <1>8, <1>11 DEF TablesOK
      <4>3. QED BY <1>17, <1>18, <3>2, <4>1, <4>2
    <3>3. QED BY <3>1, <3>2
  <2>3. ASSUME NEW u \in OSThreads, NEW n \in 0..Size - 1, table'[u] # NULL,
               n >= tls_max_ \/ \E r \in Slots : Grabbed(r) /\ n = number[r]
        PROVE  table'[u][n] = NULL
    <3>1. CASE u # t
      BY <1>11, <1>18, <2>3, <3>1 DEF TablesOK
    <3>2. CASE u = t
      BY <1>17, <1>18, <3>2
    <3>3. QED BY <3>1, <3>2
  <2>4. QED BY <1>2, <1>12, <2>1, <2>2, <2>3 DEF TablesOK
<1>23. ExitsOK'
  <2>1. tls_max_' \in Nat /\ tls_max_ <= tls_max_' /\ ready \subseteq ready'
    BY <1>2, <1>11 DEF SlotTypes
  <2>2. \A u \in OSThreads : In(u, "exits", "loop") => Local(u)[1] \in Nat
    BY <1>2, ExitNumbers
  <2>3. \A x : In(t, "exits", "loop")' /\ Local(t)' = x => ExitOK(t, x[1], x[2], x[3])'
    BY <1>10
  <2>4. \A r \in ready : number'[r] = number[r] /\ \A u \in OSThreads \ {t} : wrote'[u][r] = wrote[u][r]
    BY <1>2
  <2>5. QED BY <1>5, <1>11, <2>1, <2>2, <2>3, <2>4, ExitsAfter
<1>24. QED BY <1>5, <1>12, <1>15, <1>19, <1>20, <1>21, <1>22, <1>23 DEF StaticsInv, SlotsInv

LEMMA ThreadGoneKeeps ==
  ASSUME StaticsInv, NEW t \in OSThreads, ThreadGone(t), UNCHANGED objectVars
  PROVE  StaticsInv'
<1>1. PICK none : none = [r \in Slots |-> NULL]
  OBVIOUS
<1>2. /\ In(t, "exits", "loop") /\ Return(t) /\ native' = Forgotten(t)
      /\ slot' = slot /\ life' = life /\ tls_key_' = tls_key_
      /\ table' = [table EXCEPT ![t] = NULL] /\ wrote' = [wrote EXCEPT ![t] = none]
      /\ UNCHANGED <<tls_max_, tls_destructors_, number, ready>>
      /\ StacksOK /\ ObjectsInv /\ NativeInv /\ SlotsInv /\ AboutSlots("exits")
  BY <1>1 DEF ThreadGone, StaticsInv, objectVars, AboutSlots
<1>3. SlotMoved(t) /\ calls'[t] = << >>
  BY <1>2, SlotReturns
<1>4. StacksOK' /\ ObjectsInv' /\ OnlyOf(t)
  BY <1>3 DEF SlotMoved
<1>5. calls[t] # << >> /\ calls[t][1].fn = "exits"
  BY <1>2, SlotTop
<1>6. InitsSame(t)
  BY <1>3, <1>5, NoInitsSame
<1>7. (\A i : ~Swaps(t, i)' /\ ~Swaps(t, i)) /\ ~In(t, "exits", "loop")'
  BY <1>2, <1>3, NotSwapping, EmptyIn
<1>8. SlotTypes /\ NumbersOK /\ TablesOK /\ ExitsOK /\ SlotCallsOK /\ OneInitializes
  BY <1>2 DEF SlotsInv
<1>9. Started' = Started /\ (\A r : Grabbed(r)' <=> Grabbed(r)) /\ OneInitializes'
  BY <1>2, <1>4, <1>6, <1>8, InitsKept
<1>10. NativeTypes(native) /\ (tls_key_ # NULL => tls_key_ \in DOMAIN native)
  BY <1>2, NativeTyped, Apart
<1>11. /\ native' = [i \in DOMAIN native |-> [native[i] EXCEPT ![t] = NULL]]
       /\ DOMAIN native' = DOMAIN native /\ native' = [i \in DOMAIN native' |-> native'[i]]
       /\ \A i \in DOMAIN native : native'[i] = [native[i] EXCEPT ![t] = NULL]
  BY <1>2 DEF Forgotten
<1>12. \A i \in DOMAIN native : /\ native'[i] \in [OSThreads -> {NULL, "table"} \cup OSThreads]
                                /\ native'[i][t] = NULL
                                /\ \A u \in OSThreads : u # t => native'[i][u] = native[i][u]
  BY <1>10, <1>11 DEF NativeTypes
<1>13. NativeTypes(native')
  BY <1>10, <1>11, <1>12 DEF NativeTypes
<1>14. \A i \in DOMAIN native, u \in OSThreads : i # tls_key_ /\ native[i][u] = NULL => native'[i][u] = NULL
  BY <1>12
<1>15. NativeInv'
  BY <1>2, <1>4, <1>7, <1>11, <1>13, <1>14, ValuesChange
<1>16. ~HasTable(t)' /\ \A u \in OSThreads : u # t => (HasTable(u)' <=> HasTable(u))
  BY <1>2, <1>10, <1>12 DEF HasTable
<1>17. table'[t] = NULL /\ (\A u \in OSThreads : u # t => table'[u] = table[u])
       /\ table' \in [OSThreads -> [0..Size - 1 -> Values \cup {NULL}] \cup {NULL}]
  BY <1>2, <1>8 DEF SlotTypes
<1>18. none \in [Slots -> Values \cup {NULL}] /\ \A r \in Slots : none[r] = NULL
  BY <1>1
<1>19. wrote'[t] = none /\ (\A u \in OSThreads : u # t => wrote'[u] = wrote[u])
       /\ wrote' \in [OSThreads -> [Slots -> Values \cup {NULL}]]
  BY <1>2, <1>8, <1>18 DEF SlotTypes
<1>20. SlotTypes'
  BY <1>2, <1>8, <1>17, <1>19 DEF SlotTypes
<1>21. SlotCallsOK'
  BY <1>2, <1>3, <1>4, <1>8, <1>17, SlotCallsAfter
<1>22. NumbersOK'
  BY <1>2, <1>8, <1>9 DEF NumbersOK
<1>23. TablesOK'
  <2>1. \A u \in OSThreads : table'[u] # NULL <=> HasTable(u)'
    BY <1>8, <1>16, <1>17 DEF TablesOK
  <2>2. \A u \in OSThreads, r \in ready : wrote'[u][r] = IF table'[u] = NULL THEN NULL ELSE table'[u][number[r]]
    <3>1. SUFFICES ASSUME NEW u \in OSThreads, NEW r \in ready
                   PROVE  wrote'[u][r] = IF table'[u] = NULL THEN NULL ELSE table'[u][number[r]]
      OBVIOUS
    <3>2. r \in Slots
      BY <1>8 DEF SlotTypes
    <3>3. CASE u = t
      BY <1>17, <1>18, <1>19, <3>2, <3>3
    <3>4. CASE u # t
      BY <1>8, <1>17, <1>19, <3>4 DEF TablesOK
    <3>5. QED BY <3>3, <3>4
  <2>3. \A u \in OSThreads, n \in 0..Size - 1 :
          table'[u] # NULL /\ (n >= tls_max_ \/ \E r \in Slots : Grabbed(r) /\ n = number[r]) => table'[u][n] = NULL
    BY <1>8, <1>17 DEF TablesOK
  <2>4. QED BY <1>2, <1>9, <2>1, <2>2, <2>3 DEF TablesOK
<1>24. ExitsOK'
  <2>1. tls_max_' \in Nat /\ tls_max_ <= tls_max_' /\ ready \subseteq ready'
    BY <1>2, <1>8 DEF SlotTypes
  <2>2. \A u \in OSThreads : In(u, "exits", "loop") => Local(u)[1] \in Nat
    BY <1>2, ExitNumbers
  <2>3. \A x : In(t, "exits", "loop")' /\ Local(t)' = x => ExitOK(t, x[1], x[2], x[3])'
    BY <1>7
  <2>4. \A r \in ready : number'[r] = number[r] /\ \A u \in OSThreads \ {t} : wrote'[u][r] = wrote[u][r]
    BY <1>2, <1>19
  <2>5. QED BY <1>4, <1>8, <2>1, <2>2, <2>3, <2>4, ExitsAfter
<1>25. QED BY <1>4, <1>9, <1>15, <1>20, <1>21, <1>22, <1>23, <1>24 DEF StaticsInv, SlotsInv

(* ThreadLocalStorage gets its index.                                         *)
LEMMA KeyKeeps ==
  ASSUME StaticsInv, NEW t \in OSThreads, Key(t), UNCHANGED objectVars
  PROVE  StaticsInv'
<1>1. /\ In(t, "table", "key") /\ UNCHANGED slotVars
      /\ slot' = slot /\ life' = life /\ tls_key_' = tls_key_ /\ table' = table
      /\ UNCHANGED <<tls_max_, tls_destructors_, number, ready, wrote>>
      /\ StacksOK /\ ObjectsInv /\ NativeInv /\ SlotsInv /\ AboutSlots("table")
  BY DEF Key, StaticsInv, objectVars, slotVars, AboutSlots
<1>2. PICK c : c = calls[t][1]
  OBVIOUS
<1>3. /\ calls[t] # << >> /\ c.fn \in {"initialize", "getSlot", "setSlot"} /\ Last(calls[t]).fn = "table"
  BY <1>1, <1>2, SlotTop DEF CalledBy
<1>4. SlotCallOK(t, c, Last(calls[t]))
  BY <1>2, <1>3, TopCallOK
<1>5. table[t] = NULL
  BY <1>3, <1>4 DEF SlotCallOK
<1>6. \A i : ~Swaps(t, i)
  BY <1>1, NotSwapping
<1>7. CASE tls_key_ # NULL
  <2> DEFINE f == Frame("table", On(t), "create", << >>)
  <2>1. GoTo(t, "create", << >>, << >>) /\ native' = native
    BY <1>7 DEF Key
  <2>2. f.fn = "table" /\ f.pc = "create"
    BY FrameFields
  <2>3. FrameOK(f) /\ << >> \in Locals /\ "create" \in Pcs
    BY <2>2, NoLocals DEF FrameOK, Pcs
  <2>4. SlotMoved(t) /\ Ends(calls'[t], c, f)
    BY <1>1, <1>2, <2>1, <2>3, SlotGoesOn
  <2> HIDE DEF f
  <2>5. SlotCallOK(t, c, f)
    BY <1>4, <1>5, <1>7, <2>2 DEF SlotCallOK, NeedsTable
  <2>6. InitsSame(t)
    BY <1>2, <1>3, <2>4, FirstInitsSame
  <2>7. QuietEnd(t)
    BY <2>2, <2>4, <2>5 DEF QuietEnd
  <2>8. QED BY <1>1, <1>6, <2>1, <2>4, <2>6, <2>7, SlotQuiet
<1>8. CASE tls_key_ = NULL
  <2>1. PICK i \in Indexes : TlsAlloc(i) /\ GoTo(t, "swap", <<i>>, << >>)
    BY <1>8 DEF Key
  <2>0. PICK f : f = Frame("table", On(t), "swap", <<i>>)
    OBVIOUS
  <2>2. f.fn = "table" /\ f.pc = "swap" /\ f.x[1] = i
    BY <2>0, FrameFields
  <2>3. FrameOK(f) /\ <<i>> \in Locals /\ "swap" \in Pcs
    BY <2>2 DEF FrameOK, Pcs, Locals
  <2>4. SlotMoved(t) /\ Ends(calls'[t], c, f)
    BY <1>1, <1>2, <2>0, <2>1, <2>3, SlotGoesOn
  <2>5. StacksOK' /\ ObjectsInv' /\ OnlyOf(t) /\ Shows(t, c, f)
    BY <2>4, EndsIn DEF SlotMoved
  <2>6. InitsSame(t)
    BY <1>2, <1>3, <2>4, FirstInitsSame
  <2>7. (\A j : Swaps(t, j)' <=> j = i) /\ ~In(t, "exits", "loop")'
    BY <2>2, <2>5 DEF Shows
  <2>8. NativeTypes(native) /\ NULL \notin Indexes /\ i # NULL
    BY <1>1, NativeTyped, IndexesAssumption
  <2>9. /\ NativeTypes(native') /\ i \notin DOMAIN native /\ DOMAIN native' = DOMAIN native \cup {i}
        /\ \A u \in OSThreads : native'[i][u] = NULL
        /\ \A j \in DOMAIN native : native'[j] = native[j]
    BY <2>1, <2>8, Allocated
  <2>10. \A u \in OSThreads : \A j : u # t => (Swaps(u, j)' <=> Swaps(u, j))
    BY <2>5, OtherInits
  <2>11. NativeOK'
    <3>1. ASSUME NEW u \in OSThreads, NEW w \in OSThreads, NEW j \in Indexes, Swaps(u, j)'
          PROVE  native'[j][w] = NULL
      <4>1. CASE u = t
        BY <2>7, <2>9, <3>1, <4>1
      <4>2. CASE u # t
        <5>1. Swaps(u, j)
          BY <2>10, <3>1, <4>2
        <5>2. j \in DOMAIN native /\ native[j][w] = NULL
          BY <1>1, <5>1, Apart DEF NativeInv, NativeOK
        <5>3. QED BY <2>9, <5>2
      <4>3. QED BY <4>1, <4>2
    <3>2. QED BY <1>1, <2>9, <3>1 DEF NativeInv, NativeOK, NativeTypes
  <2>12. Holders(i) = {}
    BY <1>1, <2>9 DEF NativeInv, OneHolder
  <2>13. \A x : x \in Holders(i)' <=> x = <<"thread", t>>
    <3>1. \A o \in Pointers : slot[o] # i
      BY <2>12, HolderIs
    <3>2. \A u \in OSThreads : Swaps(u, i)' <=> u = t
      <4>1. \A u \in OSThreads : ~Swaps(u, i)
        BY <2>12, HolderIs
      <4>2. QED BY <2>7, <2>10, <4>1
    <3>3. QED BY <1>1, <1>8, <2>8, <3>1, <3>2, HolderIs
  <2>14. Holders(i)' = {<<"thread", t>>}
    BY <2>13
  <2>15. \A j \in Indexes : j # i => Holders(j)' = Holders(j)
    <3>1. SUFFICES ASSUME NEW j \in Indexes, j # i PROVE \A x : x \in Holders(j)' <=> x \in Holders(j)
      OBVIOUS
    <3>2. \A u \in OSThreads : Swaps(u, j)' <=> Swaps(u, j)
      BY <1>6, <2>7, <2>10, <3>1
    <3>3. QED BY <1>1, <3>2, HolderIs
  <2>16. OneHolder'
    <3>1. OneHolder
      BY <1>1 DEF NativeInv
    <3>2. i \in DOMAIN native' /\ DOMAIN native' \ {i} = DOMAIN native \ {i} /\ \E x : Holders(i)' = {x}
      BY <2>9, <2>14
    <3>3. QED BY <2>15, <3>1, <3>2, OneHolderAfter
  <2>17. \A u \in OSThreads : HasTable(u)' <=> HasTable(u)
    BY <1>1, <1>8 DEF HasTable
  <2>18. SlotCallOK(t, c, f)'
    BY <1>1, <1>4, <1>5, <2>2 DEF SlotCallOK, NeedsTable, Initializing
  <2>19. \E e, d : Ends(calls'[t], e, d) /\ SlotCallOK(t, e, d)'
    BY <2>4, <2>18
  <2>20. \A x : In(t, "exits", "loop")' /\ Local(t)' = x => ExitOK(t, x[1], x[2], x[3])'
    BY <2>7
  <2>21. SlotsInv'
    BY <1>1, <1>8, <2>5, <2>6, <2>17, <2>19, <2>20, SlotsKept
  <2>22. QED BY <2>5, <2>11, <2>16, <2>21 DEF StaticsInv, NativeInv
<1>9. QED BY <1>7, <1>8

LEMMA SwapKeyKeeps ==
  ASSUME StaticsInv, NEW t \in OSThreads, SwapKey(t), UNCHANGED objectVars
  PROVE  StaticsInv'
<1>1. PICK i : i = Local(t)[1]
  OBVIOUS
<1>2. /\ In(t, "table", "swap") /\ GoTo(t, "create", << >>, << >>)
      /\ slot' = slot /\ life' = life /\ table' = table
      /\ UNCHANGED <<tls_max_, tls_destructors_, number, ready, wrote>>
      /\ StacksOK /\ ObjectsInv /\ NativeInv /\ SlotsInv /\ AboutSlots("table")
  BY DEF SwapKey, StaticsInv, objectVars, AboutSlots
<1>3. PICK c : c = calls[t][1]
  OBVIOUS
<1>4. /\ calls[t] # << >> /\ c.fn \in {"initialize", "getSlot", "setSlot"} /\ Last(calls[t]).fn = "table"
      /\ i \in Indexes
  BY <1>1, <1>2, <1>3, SlotTop DEF CalledBy, FrameOK
<1>5. SlotCallOK(t, c, Last(calls[t])) /\ table[t] = NULL
  BY <1>3, <1>4, TopCallOK DEF SlotCallOK
<1>6. \A j : Swaps(t, j) <=> j = i
  BY <1>1, <1>2 DEF Swaps
<1>0. PICK f : f = Frame("table", On(t), "create", << >>)
  OBVIOUS
<1>7. f.fn = "table" /\ f.pc = "create"
  BY <1>0, FrameFields
<1>8. FrameOK(f) /\ << >> \in Locals /\ "create" \in Pcs
  BY <1>7, NoLocals DEF FrameOK, Pcs
<1>9. SlotMoved(t) /\ Ends(calls'[t], c, f)
  BY <1>0, <1>2, <1>3, <1>8, SlotGoesOn
<1>10. StacksOK' /\ ObjectsInv' /\ OnlyOf(t) /\ Shows(t, c, f)
  BY <1>9, EndsIn DEF SlotMoved
<1>11. InitsSame(t)
  BY <1>3, <1>4, <1>9, FirstInitsSame
<1>12. (\A j : ~Swaps(t, j)') /\ ~In(t, "exits", "loop")'
  BY <1>7, <1>10 DEF Shows
<1>13. \A u \in OSThreads : \A j : u # t => (Swaps(u, j)' <=> Swaps(u, j))
  BY <1>10, OtherInits
<1>14. NULL \notin Indexes /\ i # NULL /\ NativeTypes(native) /\ tls_key_ \in Indexes \cup {NULL}
  BY <1>2, <1>4, NativeTyped
<1>15. /\ i \in DOMAIN native /\ \A u \in OSThreads : Swaps(u, i) => u = t
       /\ \A u \in OSThreads : native[i][u] = NULL
       /\ tls_key_ # i
  BY <1>2, <1>4, <1>6, <1>14, Apart DEF NativeInv, NativeOK
<1>16. \A o \in Pointers : slot[o] # i
  BY <1>2, <1>6, <1>14, Apart
<1>17. \A u \in OSThreads : ~Swaps(u, i)'
  BY <1>12, <1>13, <1>15
<1>18. (tls_key_' = i /\ native' = native /\ tls_key_ = NULL) \/ (tls_key_' = tls_key_ /\ tls_key_ # NULL /\ TlsFree(i))
  BY <1>1 DEF SwapKey, WinsKey
<1>19. \A j \in Indexes : j # i => Holders(j)' = Holders(j)
  <2>1. SUFFICES ASSUME NEW j \in Indexes, j # i PROVE \A x : x \in Holders(j)' <=> x \in Holders(j)
    OBVIOUS
  <2>2. \A u \in OSThreads : Swaps(u, j)' <=> Swaps(u, j)
    BY <1>6, <1>12, <1>13, <2>1
  <2>3. tls_key_' = j <=> tls_key_ = j
    BY <1>14, <1>18, <2>1
  <2>4. QED BY <1>2, <2>2, <2>3, HolderIs
<1>20. OneHolder
  BY <1>2 DEF NativeInv
<1>21. NativeInv' /\ \A u \in OSThreads : HasTable(u)' <=> HasTable(u)
  <2>1. CASE tls_key_' = i /\ native' = native /\ tls_key_ = NULL
    <3>1. \A x : x \in Holders(i)' <=> x = <<"storage", i>>
      BY <1>2, <1>16, <1>17, <2>1, HolderIs
    <3>2. Holders(i)' = {<<"storage", i>>}
      BY <3>1
    <3>3. i \in DOMAIN native' /\ DOMAIN native' \ {i} = DOMAIN native \ {i} /\ \E x : Holders(i)' = {x}
      BY <1>15, <2>1, <3>2
    <3>4. OneHolder'
      BY <1>19, <1>20, <3>3, OneHolderAfter
    <3>5. ASSUME NEW u \in OSThreads, NEW w \in OSThreads, NEW j \in Indexes, Swaps(u, j)'
          PROVE  native[j][w] = NULL
      <4>1. Swaps(u, j)
        BY <1>12, <1>13, <3>5
      <4>2. QED BY <1>2, <4>1 DEF NativeInv, NativeOK
    <3>6. NativeOK'
      BY <1>2, <1>4, <2>1, <3>5 DEF NativeInv, NativeOK
    <3>7. \A u \in OSThreads : ~HasTable(u)' /\ ~HasTable(u)
      BY <1>15, <2>1 DEF HasTable
    <3>8. QED BY <3>4, <3>6, <3>7 DEF NativeInv
  <2>2. CASE tls_key_' = tls_key_ /\ tls_key_ # NULL /\ TlsFree(i)
    <3>1. \A x : x \notin Holders(i)'
      BY <1>2, <1>15, <1>16, <1>17, <2>2, HolderIs
    <3>2. Holders(i)' = {}
      BY <3>1
    <3>3. NativeTypes(native') /\ DOMAIN native' = DOMAIN native \ {i} /\ \A j \in DOMAIN native' : native'[j] = native[j]
      BY <1>14, <2>2, Freed
    <3>4. i \notin DOMAIN native' /\ DOMAIN native' \ {i} = DOMAIN native \ {i}
      BY <3>3
    <3>5. OneHolder'
      BY <1>19, <1>20, <3>2, <3>4, OneHolderAfter
    <3>6. ASSUME NEW u \in OSThreads, NEW w \in OSThreads, NEW j \in Indexes, Swaps(u, j)'
          PROVE  native'[j][w] = NULL
      <4>1. Swaps(u, j) /\ j # i
        BY <1>12, <1>13, <1>17, <3>6
      <4>2. j \in DOMAIN native /\ native[j][w] = NULL
        BY <1>2, <4>1, Apart DEF NativeInv, NativeOK
      <4>3. QED BY <3>3, <4>1, <4>2
    <3>7. NativeOK'
      BY <1>2, <2>2, <3>3, <3>6 DEF NativeInv, NativeOK, NativeTypes
    <3>8. tls_key_ \in DOMAIN native
      BY <1>2, <2>2, Apart
    <3>9. \A u \in OSThreads : HasTable(u)' <=> HasTable(u)
      BY <1>15, <2>2, <3>3, <3>8 DEF HasTable
    <3>10. QED BY <3>5, <3>7, <3>9 DEF NativeInv
  <2>3. QED BY <1>18, <2>1, <2>2
<1>22. tls_key_' # NULL
  BY <1>14, <1>18
<1>23. SlotCallOK(t, c, f)'
  BY <1>2, <1>5, <1>7, <1>22 DEF SlotCallOK, NeedsTable, Initializing
<1>24. \E e, d : Ends(calls'[t], e, d) /\ SlotCallOK(t, e, d)'
  BY <1>9, <1>23
<1>25. \A x : In(t, "exits", "loop")' /\ Local(t)' = x => ExitOK(t, x[1], x[2], x[3])'
  BY <1>12
<1>26. SlotsInv'
  BY <1>2, <1>10, <1>11, <1>21, <1>22, <1>24, <1>25, SlotsKept
<1>27. QED BY <1>10, <1>21, <1>26 DEF StaticsInv

-----------------------------------------------------------------------------
(* The invariant holds at first and is kept.                                  *)
LEMMA AtFirst ==
  ASSUME StaticsInit
  PROVE  StaticsInv
<1>1. /\ calls = [t \in OSThreads |-> << >>] /\ native = [i \in {} |-> << >>]
      /\ cell = [o \in Objects |-> "empty"] /\ life = [o \in Objects |-> "none"]
      /\ slot = [o \in Pointers |-> NULL] /\ managers = << << >> >> /\ under = [o \in Objects |-> {}]
      /\ tls_key_ = NULL /\ tls_max_ = 1 /\ tls_destructors_ = {} /\ ready = {}
      /\ number = [s \in Slots |-> 0] /\ table = [t \in OSThreads |-> NULL]
      /\ wrote = [t \in OSThreads |-> [s \in Slots |-> NULL]]
  BY DEF StaticsInit, CallsInit, ObjectsInit, SlotsInit
<1>2. \A t \in OSThreads : /\ calls[t] = << >> /\ (\A fn, pc_ : ~In(t, fn, pc_))
                           /\ (\A s : ~Inits(t, s) /\ ~Begun(t, s) /\ ~Late(t, s)) /\ \A i : ~Swaps(t, i)
  BY <1>1, EmptyIn
<1>3. MainThread \in OSThreads /\ Len(<< >>) = 0 /\ DOMAIN << >> = {} /\ 1..0 = {} /\ << >> \in Seq(Frames)
  BY OSThreadsAssumption
<1>4. StacksOK
  <2>1. \A t : StackOK(t, << >>)
    BY <1>3 DEF StackOK
  <2>2. ~Processing
    BY <1>2, <1>3 DEF Processing, Holds
  <2>3. QED BY <1>1, <1>2, <1>3, <2>1, <2>2 DEF StacksOK
<1>5. ObjectsInv
  <2>1. managers \in Seq(Seq(Objects)) /\ \A m \in DOMAIN managers : managers[m] = << >>
    <3>1. << >> \in Seq(Objects) /\ << << >> >> \in Seq({<< >>})
      OBVIOUS
    <3>2. PICK none : none = << >>
      OBVIOUS
    <3>3. <<none>> \in Seq(Seq(Objects)) /\ \A m \in DOMAIN <<none>> : <<none>>[m] = none
      BY <3>1, <3>2
    <3>4. QED BY <1>1, <3>2, <3>3
  <2>2. ObjectTypes
    BY <1>1, <2>1 DEF ObjectTypes
  <2>3. \A o \in Objects : Sites(o) = {}
    BY <1>2, <1>3 DEF Sites
  <2>4. CellsFit
    BY <1>1 DEF CellsFit, CellFits
  <2>5. CallsFit
    BY <1>2, <1>3 DEF CallsFit
  <2>6. OneSite
    BY <2>3 DEF OneSite
  <2>7. ReliedAlive
    BY <1>2 DEF ReliedAlive, Relies
  <2>8. \A m, k, o : ~At(m, k, o)
    BY <1>3, <2>1 DEF At, AtIn
  <2>9. Placed
    BY <1>1, <2>8 DEF Placed, InPlace
  <2>10. PlacedOnce
    BY <2>8 DEF PlacedOnce
  <2>11. Ordered
    BY <1>1 DEF Ordered
  <2>12. QED BY <2>2, <2>4, <2>5, <2>6, <2>7, <2>9, <2>10, <2>11 DEF ObjectsInv
<1>6. NativeInv
  <2>1. DOMAIN native = {} /\ native = [i \in DOMAIN native |-> native[i]]
    BY <1>1
  <2>2. NativeOK
    <3>1. Pointers \subseteq Objects
      BY ObjectsAssumption
    <3>2. \A o \in Pointers : life[o] = "none" /\ slot[o] = NULL
      BY <1>1, <3>1
    <3>3. QED BY <1>1, <1>2, <2>1, <3>2 DEF NativeOK
  <2>3. NULL \notin Indexes
    BY IndexesAssumption
  <2>4. \A i \in Indexes : Holders(i) = {}
    <3>1. \A i \in Indexes : \A x : x \notin Holders(i)
      BY <1>1, <1>2, <2>3, HolderIs
    <3>2. QED BY <3>1
  <2>5. OneHolder
    BY <2>1, <2>4 DEF OneHolder
  <2>6. QED BY <2>2, <2>5 DEF NativeInv
<1>7. SlotsInv
  <2>1. SlotTypes
    BY <1>1 DEF SlotTypes
  <2>2. SlotCallsOK /\ OneInitializes
    BY <1>2 DEF SlotCallsOK, OneInitializes
  <2>3. Started = {} /\ \A s : ~Grabbed(s)
    BY <1>2 DEF Started, Grabbed
  <2>4. Size \in Nat \ {0}
    BY SlotsAssumption
  <2>5. NumbersOK
    BY <1>1, <2>3, <2>4, FS_EmptySet DEF NumbersOK
  <2>6. TablesOK
    BY <1>1 DEF TablesOK, HasTable
  <2>7. ExitsOK
    BY <1>2 DEF ExitsOK
  <2>8. QED BY <2>1, <2>2, <2>5, <2>6, <2>7 DEF SlotsInv
<1>8. QED BY <1>4, <1>5, <1>6, <1>7 DEF StaticsInv

LEMMA SlotStepKeeps ==
  ASSUME StaticsInv, NEW t \in OSThreads, SlotStep(t), UNCHANGED objectVars
  PROVE  StaticsInv'
<1>1. CASE Check(t)
  BY <1>1, CheckKeeps
<1>2. CASE Grab(t)
  BY <1>2, GrabKeeps
<1>3. CASE SetDestructor(t)
  BY <1>3, SetDestructorKeeps
<1>4. CASE Key(t)
  BY <1>4, KeyKeeps
<1>5. CASE SwapKey(t)
  BY <1>5, SwapKeyKeeps
<1>6. CASE CreateTable(t)
  BY <1>6, CreateTableKeeps
<1>7. CASE Read(t)
  BY <1>7, ReadKeeps
<1>8. CASE Write(t)
  BY <1>8, WriteKeeps
<1>9. CASE CallDestructor(t)
  BY <1>9, CallDestructorKeeps
<1>10. CASE ThreadGone(t)
  BY <1>10, ThreadGoneKeeps
<1>11. QED BY <1>1, <1>2, <1>3, <1>4, <1>5, <1>6, <1>7, <1>8, <1>9, <1>10 DEF SlotStep

LEMMA SlotCallsKeep ==
  ASSUME StaticsInv, MayCall, NEW t \in OSThreads, SlotCalls(t), UNCHANGED objectVars
  PROVE  StaticsInv'
<1>1. PICK s \in Slots : \/ InitializeSlot(t, s) \/ GetSlot(t, s) \/ FreeSlot(t, s)
                         \/ \E v \in Values : SetSlot(t, s, v)
  BY DEF SlotCalls
<1>2. QED BY <1>1, InitializeSlotKeeps, GetSlotKeeps, FreeSlotKeeps, SetSlotKeeps

LEMMA NextKeeps ==
  ASSUME StaticsInv, LockInv, [StaticsNext]_staticsVars
  PROVE  StaticsInv'
<1>1. CASE ObjectCalls /\ UNCHANGED slotVars
  BY <1>1, ObjectCallsKeep
<1>2. ASSUME NEW t \in OSThreads, MayCall, SlotCalls(t), UNCHANGED objectVars PROVE StaticsInv'
  BY <1>2, SlotCallsKeep
<1>3. ASSUME NEW t \in OSThreads, ThreadExit(t), UNCHANGED objectVars PROVE StaticsInv'
  BY <1>3, ThreadExitKeeps
<1>4. ASSUME NEW t \in OSThreads, ObjectStep(t), UNCHANGED slotVars PROVE StaticsInv'
  BY <1>4, ObjectStepKeeps
<1>5. ASSUME NEW t \in OSThreads, SlotStep(t), UNCHANGED objectVars PROVE StaticsInv'
  BY <1>5, SlotStepKeeps
<1>6. CASE UNCHANGED staticsVars
  <2>1. calls' = calls /\ native' = native /\ UNCHANGED objectVars /\ UNCHANGED slotVars
    BY <1>6 DEF staticsVars
  <2>2. cell' = cell /\ life' = life /\ slot' = slot /\ managers' = managers /\ under' = under
    BY <2>1 DEF objectVars
  <2>3. /\ tls_key_' = tls_key_ /\ tls_max_' = tls_max_ /\ tls_destructors_' = tls_destructors_ /\ number' = number
        /\ ready' = ready /\ table' = table /\ wrote' = wrote
    BY <2>1 DEF slotVars
  <2>4. StacksOK'
    BY <2>1, <2>2 DEF StaticsInv, StacksOK, Processing, Holds
  <2>5. \A o : Sites(o)' = Sites(o)
    BY <2>1 DEF Sites
  <2>6. \A t : Relies(t)' = Relies(t)
    BY <2>1 DEF Relies, In, On
  <2>7. (\A o : Handled(o)' <=> Handled(o)) /\ (\A o : InPlace(o)' <=> InPlace(o)) /\ \A m, k, o : At(m, k, o)' <=> At(m, k, o)
    BY <2>2, <2>5 DEF Handled, InPlace, At
  <2>8. ObjectsInv'
    <3>1. ObjectTypes' /\ CellsFit'
      BY <2>2, <2>7 DEF StaticsInv, ObjectsInv, ObjectTypes, CellsFit, CellFits
    <3>2. CallsFit'
      BY <2>1, <2>2 DEF StaticsInv, ObjectsInv, CallsFit, ObjectFits
    <3>3. OneSite' /\ ReliedAlive'
      BY <2>2, <2>5, <2>6 DEF StaticsInv, ObjectsInv, OneSite, ReliedAlive
    <3>4. Placed' /\ PlacedOnce' /\ Ordered'
      BY <2>2, <2>7 DEF StaticsInv, ObjectsInv, Placed, PlacedOnce, Ordered
    <3>5. QED BY <3>1, <3>2, <3>3, <3>4 DEF ObjectsInv
  <2>9. \A t, i : Swaps(t, i)' <=> Swaps(t, i)
    BY <2>1 DEF Swaps, In, Local
  <2>10. \A i : Holders(i)' = Holders(i)
    BY <2>1, <2>2, <2>3 DEF Holders, In, Local
  <2>11. NativeInv'
    BY <2>1, <2>2, <2>3, <2>9, <2>10 DEF StaticsInv, NativeInv, NativeOK, OneHolder
  <2>12. \A t, s : (Inits(t, s)' <=> Inits(t, s)) /\ (Begun(t, s)' <=> Begun(t, s)) /\ (Late(t, s)' <=> Late(t, s))
    BY <2>1 DEF Inits, Begun, Late
  <2>13. Started' = Started /\ \A s : Grabbed(s)' <=> Grabbed(s)
    BY <2>12 DEF Started, Grabbed
  <2>14. \A t : HasTable(t)' <=> HasTable(t)
    BY <2>1, <2>3 DEF HasTable
  <2>15. SlotsInv'
    <3>1. SlotTypes' /\ NumbersOK'
      BY <2>3, <2>13 DEF StaticsInv, SlotsInv, SlotTypes, NumbersOK
    <3>2. SlotCallsOK'
      BY <2>1, <2>3 DEF StaticsInv, SlotsInv, SlotCallsOK, SlotCallOK
    <3>3. OneInitializes'
      BY <2>12 DEF StaticsInv, SlotsInv, OneInitializes
    <3>4. TablesOK'
      BY <2>3, <2>13, <2>14 DEF StaticsInv, SlotsInv, TablesOK
    <3>5. ExitsOK'
      BY <2>1, <2>3 DEF StaticsInv, SlotsInv, ExitsOK, ExitOK, In, Local
    <3>6. QED BY <3>1, <3>2, <3>3, <3>4, <3>5 DEF SlotsInv
  <2>16. QED BY <2>4, <2>8, <2>11, <2>15 DEF StaticsInv
<1>7. CASE StaticsNext
  BY <1>1, <1>2, <1>3, <1>4, <1>5, <1>7 DEF StaticsNext, UserCode, Step
<1>8. QED BY <1>6, <1>7

(* What is known of lock_, after a step of t.                                  *)
LEMMA UsableStays ==
  ASSUME NEW o, Usable(o), \A q \in Objects : Spent(q)' => Spent(q)
  PROVE  Usable(o)'
BY DEF Usable

LEMMA FreeStays ==
  ASSUME NEW c, NEW o \in Objects, FreeFor(c, o), Processing' <=> Processing,
         c.fn = "exit" => \A p \in Objects : life'[p] \in {"alive", "destroying"} => life[p] \in {"alive", "destroying"},
         Processing \/ \A q \in Objects : Spent(q)' => Spent(q)
  PROVE  FreeFor(c, o)'
<1>1. c.fn = "exit" /\ NotUsed(o) => NotUsed(o)'
  BY DEF NotUsed
<1>2. Usable(o) => Usable(o)' \/ Processing
  BY UsableStays
<1>3. QED BY <1>1, <1>2 DEF FreeFor

Free(c) == \A o \in Objects : c.on = o => FreeFor(c, o)

LEMMA CallsFreeAfter ==
  ASSUME StacksOK, CallsFree, NEW t \in OSThreads, OnlyOf(t), Processing' <=> Processing,
         Processing => \A p \in Objects : life'[p] \in {"alive", "destroying"} => life[p] \in {"alive", "destroying"},
         Processing \/ \A q \in Objects : Spent(q)' => Spent(q),
         \A k \in 1..Len(calls'[t]) : \/ k \in 1..Len(calls[t]) /\ calls'[t][k] = calls[t][k]
                                      \/ \E c : calls'[t][k] = c /\ Free(c)'
  PROVE  CallsFree'
<1>1. SUFFICES ASSUME NEW u \in OSThreads, NEW k \in 1..Len(calls'[u]), NEW o \in Objects, calls'[u][k].on = o,
                      NEW c, c = calls'[u][k]
               PROVE  FreeFor(c, o)'
  BY DEF CallsFree, FreeFor
<1>2. ASSUME k \in 1..Len(calls[u]), c = calls[u][k] PROVE FreeFor(c, o)'
  <2>1. FreeFor(c, o)
    BY <1>1, <1>2 DEF CallsFree
  <2>2. c.fn = "exit" => Processing
    BY <1>2, ExitsWhileProcessing
  <2>3. QED BY <2>1, <2>2, FreeStays
<1>3. ASSUME Free(c)' PROVE FreeFor(c, o)'
  BY <1>1, <1>3 DEF Free
<1>4. CASE u = t
  BY <1>1, <1>2, <1>3, <1>4
<1>5. CASE u # t
  BY <1>1, <1>2, <1>5 DEF OnlyOf
<1>6. QED BY <1>4, <1>5

LEMMA OthersFree ==
  ASSUME NEW c, c.fn \notin {"exit", "get"}
  PROVE  Free(c)'
BY DEF Free, FreeFor

LEMMA MovedFree ==
  ASSUME StacksOK, NEW t \in OSThreads, NEW n, NEW new, Len(new) \in Nat, Moved(t, n, new),
         \A j \in 1..Len(new) : \E c : new[j] = c /\ Free(c)'
  PROVE  \A k \in 1..Len(calls'[t]) : \/ k \in 1..Len(calls[t]) /\ calls'[t][k] = calls[t][k]
                                      \/ \E c : calls'[t][k] = c /\ Free(c)'
<1>1. SUFFICES ASSUME NEW k \in 1..Len(calls'[t])
               PROVE  \/ k \in 1..Len(calls[t]) /\ calls'[t][k] = calls[t][k]
                      \/ \E c : calls'[t][k] = c /\ Free(c)'
  OBVIOUS
<1>2. \/ Kept(t, n, t, k) /\ calls'[t][k] = calls[t][k]
      \/ t = t /\ \E j \in 1..Len(new) : k = n + j /\ calls'[t][k] = new[j]
  BY KeptFrames
<1>3. QED BY <1>2 DEF Kept

(* Whether callbacks are processed is seen from the first call.                *)
LEMMA ProcessingSame ==
  ASSUME StacksOK, NEW t \in OSThreads, OnlyOf(t),
         calls'[t] # << >> /\ calls'[t][1].fn = "callbacks" <=> calls[t] # << >> /\ calls[t][1].fn = "callbacks"
  PROVE  Processing' <=> Processing
<1>1. MainThread \in OSThreads
  BY OSThreadsAssumption
<1>2. StackOK(MainThread, calls[MainThread]) /\ StackOK(MainThread, calls'[MainThread])
  BY <1>1, StacksAfter
<1>3. Processing <=> calls[MainThread] # << >> /\ calls[MainThread][1].fn = "callbacks"
  BY <1>2, ProcessingFirst DEF Processing, Holds
<1>4. Processing' <=> calls'[MainThread] # << >> /\ calls'[MainThread][1].fn = "callbacks"
  BY <1>2, ProcessingFirst DEF Processing, Holds
<1>5. t # MainThread => calls'[MainThread] = calls[MainThread]
  BY <1>1 DEF OnlyOf
<1>6. QED BY <1>3, <1>4, <1>5

LEMMA ManagersKept ==
  ASSUME LockInv, managers' = managers, Processing' => Processing \/ ~Overtaken
  PROVE  UsedBelow' /\ InTurn'
<1>1. \A m, k, q : At(m, k, q)' <=> At(m, k, q)
  BY DEF At
<1>2. UsedBelow'
  BY <1>1 DEF LockInv, UsedBelow
<1>3. Overtaken' <=> Overtaken
  BY DEF Overtaken
<1>4. InTurn'
  BY <1>3 DEF LockInv, InTurn
<1>5. QED BY <1>2, <1>4

LEMMA LivesKept ==
  ASSUME LockInv, life' = life
  PROVE  UsedAlive'
BY DEF LockInv, UsedAlive

LEMMA SpentKept ==
  ASSUME cell' = cell, life' = life
  PROVE  \A q : Spent(q)' => Spent(q)
BY DEF Spent

(* A step that changes neither the objects nor the managers.                   *)
LEMMA LockStays ==
  ASSUME StacksOK, LockInv, NEW t \in OSThreads, OnlyOf(t), cell' = cell, life' = life, managers' = managers,
         Processing' <=> Processing,
         \A k \in 1..Len(calls'[t]) : \/ k \in 1..Len(calls[t]) /\ calls'[t][k] = calls[t][k]
                                      \/ \E c : calls'[t][k] = c /\ Free(c)'
  PROVE  LockInv'
<1>1. \A q : Spent(q)' => Spent(q)
  BY SpentKept
<1>2. CallsFree /\ \A p \in Objects : life'[p] \in {"alive", "destroying"} => life[p] \in {"alive", "destroying"}
  BY DEF LockInv
<1>3. CallsFree'
  BY <1>1, <1>2, CallsFreeAfter
<1>4. UsedAlive'
  BY LivesKept
<1>5. UsedBelow' /\ InTurn'
  BY ManagersKept
<1>6. QED BY <1>3, <1>4, <1>5 DEF LockInv

LEMMA ReturnsFree ==
  ASSUME StacksOK, CallsFree, NEW t \in OSThreads, NEW fn, NEW pc_, In(t, fn, pc_), fn # "callbacks", Return(t),
         Processing => \A p \in Objects : life'[p] \in {"alive", "destroying"} => life[p] \in {"alive", "destroying"},
         Processing \/ \A q \in Objects : Spent(q)' => Spent(q)
  PROVE  CallsFree' /\ (Processing' <=> Processing)
<1>1. /\ calls[t] # << >> /\ OnlyOf(t) /\ SameFirst(t) /\ TopIs(t, Len(calls[t]) - 1, fn, pc_)
      /\ Moved(t, Len(calls[t]) - 1, << >>) /\ Len(<< >>) = 0
  BY ComesBack
<1>2. \A j \in 1..Len(<< >>) : FALSE
  BY <1>1
<1>3. \A k \in 1..Len(calls'[t]) : \/ k \in 1..Len(calls[t]) /\ calls'[t][k] = calls[t][k]
                                   \/ \E c : calls'[t][k] = c /\ Free(c)'
  BY <1>1, <1>2, MovedFree
<1>4. calls'[t] = << >> => calls[t][1].fn # "callbacks"
  <2>1. SUFFICES ASSUME calls'[t] = << >> PROVE calls[t][1].fn # "callbacks"
    OBVIOUS
  <2>2. Len(calls[t]) - 1 + 0 = 0 /\ Len(calls[t]) - 1 \in Nat
    BY <1>1, <2>1 DEF Moved
  <2>3. Len(calls[t]) - 1 + 1 = 1
    BY <2>2
  <2>4. QED BY <1>1, <2>3 DEF TopIs
<1>5. Processing' <=> Processing
  BY <1>1, <1>4, ProcessingSame DEF SameFirst
<1>6. QED BY <1>1, <1>3, <1>5, CallsFreeAfter

LEMMA LockOnReturn ==
  ASSUME StacksOK, LockInv, NEW t \in OSThreads, NEW fn, NEW pc_, In(t, fn, pc_), fn # "callbacks", Return(t),
         cell' = cell, life' = life, managers' = managers
  PROVE  LockInv'
<1>1. \A q : Spent(q)' => Spent(q)
  BY SpentKept
<1>2. CallsFree' /\ (Processing' <=> Processing)
  BY <1>1, ReturnsFree DEF LockInv
<1>3. UsedAlive' /\ UsedBelow' /\ InTurn'
  BY <1>2, LivesKept, ManagersKept
<1>4. QED BY <1>2, <1>3 DEF LockInv

(* Steps of get that make an object: its caller does not process callbacks.    *)
LEMMA GetFree ==
  ASSUME ~Processing', NEW o, Usable(o), \A q \in Objects : Spent(q)' => Spent(q), NEW c, c.fn = "get", c.on = o
  PROVE  Free(c)'
<1>1. Usable(o)'
  BY UsableStays
<1>2. QED BY <1>1 DEF Free, FreeFor

LEMMA GetMoves ==
  ASSUME StacksOK, LockInv, NEW t \in OSThreads, NEW pc_, In(t, "get", pc_), ~Processing,
         NEW next \in {"swap", "new", "store", "register", "spin"}, next = "register" => On(t) \notin Leaky,
         NEW nested, nested = << >> \/ (next = "new" /\ nested = GetUsed(On(t))),
         GoTo(t, next, << >>, nested), \A q \in Objects : Spent(q)' => Spent(q)
  PROVE  OnlyOf(t) /\ CallsFree' /\ (Processing' <=> Processing)
<1>1. PICK o \in Objects : o = On(t) /\ Usable(o)
  BY TopGet DEF LockInv
<1>2. PICK c : c = Frame("get", o, next, << >>)
  OBVIOUS
<1>3. c.fn = "get" /\ c.on = o /\ c.pc = next
  BY <1>2, FrameFields
<1>4. next \in Pcs /\ << >> \in Locals
  BY NoLocals DEF Pcs
<1>5. FrameOK(c)
  BY <1>1, <1>3 DEF FrameOK
<1>6. \E new : /\ OnlyOf(t) /\ SameFirst(t) /\ calls[t] # << >> /\ Len(new) \in Nat /\ Len(new) > 0
               /\ Moved(t, Len(calls[t]) - 1, new)
               /\ \A j \in 1..Len(new) : new[j].fn = "get" /\ Usable(new[j].on)
  <2>1. CASE nested = << >>
    <3>1. GoTo(t, next, << >>, << >>)
      BY <2>1
    <3>2. OnlyOf(t) /\ SameFirst(t) /\ calls[t] # << >> /\ Moved(t, Len(calls[t]) - 1, <<c>>)
      BY <1>1, <1>2, <1>4, <1>5, <3>1, GoesOn
    <3>3. \A j \in 1..Len(<<c>>) : <<c>>[j].fn = "get" /\ Usable(<<c>>[j].on)
      BY <1>1, <1>3, One
    <3>4. Len(<<c>>) \in Nat /\ Len(<<c>>) > 0
      BY One
    <3>5. QED BY <3>2, <3>3, <3>4
  <2>2. CASE nested # << >>
    <3>1. next = "new" /\ Uses[o] # NULL /\ nested = <<GetCall(Uses[o])>>
      BY <1>1, <2>2 DEF GetUsed
    <3>2. Uses[o] \in Objects /\ Usable(Uses[o])
      BY <1>1, <3>1, RankFact, UsableUnspent
    <3>3. PICK f : f = GetCall(Uses[o])
      OBVIOUS
    <3>4. f \in Frames /\ FrameOK(f) /\ f.fn = "get" /\ f.on = Uses[o]
      BY <3>2, <3>3, GetCallOK
    <3>5. CalledBy(f, c)
      BY <1>3, <3>1, <3>4 DEF CalledBy
    <3>6. GoTo(t, next, << >>, <<f>>)
      BY <3>1, <3>3
    <3>7. OnlyOf(t) /\ SameFirst(t) /\ calls[t] # << >> /\ Moved(t, Len(calls[t]) - 1, <<c, f>>)
      BY <1>1, <1>2, <1>4, <1>5, <3>4, <3>5, <3>6, GoesIn
    <3>8. \A j \in 1..Len(<<c, f>>) : <<c, f>>[j].fn = "get" /\ Usable(<<c, f>>[j].on)
      BY <1>1, <1>3, <3>2, <3>4, Two
    <3>9. Len(<<c, f>>) \in Nat /\ Len(<<c, f>>) > 0
      BY Two
    <3>10. QED BY <3>7, <3>8, <3>9
  <2>3. QED BY <2>1, <2>2
<1>7. PICK new : /\ OnlyOf(t) /\ SameFirst(t) /\ calls[t] # << >> /\ Len(new) \in Nat /\ Len(new) > 0
                 /\ Moved(t, Len(calls[t]) - 1, new)
                 /\ \A j \in 1..Len(new) : new[j].fn = "get" /\ Usable(new[j].on)
  BY <1>6
<1>8. calls'[t] # << >>
  BY <1>7, TopAfter
<1>9. Processing' <=> Processing
  BY <1>7, <1>8, ProcessingSame DEF SameFirst
<1>10. \A j \in 1..Len(new) : \E d : new[j] = d /\ Free(d)'
  <2>1. SUFFICES ASSUME NEW j \in 1..Len(new), NEW d, d = new[j] PROVE Free(d)'
    OBVIOUS
  <2>2. PICK p : p = d.on
    OBVIOUS
  <2>3. d.fn = "get" /\ Usable(p)
    BY <1>7, <2>1, <2>2
  <2>4. QED BY <1>9, <2>2, <2>3, GetFree
<1>11. \A k \in 1..Len(calls'[t]) : \/ k \in 1..Len(calls[t]) /\ calls'[t][k] = calls[t][k]
                                    \/ \E d : calls'[t][k] = d /\ Free(d)'
  BY <1>7, <1>10, MovedFree
<1>12. CallsFree'
  BY <1>7, <1>9, <1>11, CallsFreeAfter DEF LockInv
<1>13. QED BY <1>7, <1>9, <1>12

LEMMA LoadLock ==
  ASSUME StacksOK, ObjectsInv, LockInv, NEW t \in OSThreads, Load(t)
  PROVE  LockInv'
<1>1. In(t, "get", "load") /\ cell' = cell /\ life' = life /\ managers' = managers
  BY DEF Load, objectVars
<1>2. CASE Return(t)
  BY <1>1, <1>2, LockOnReturn
<1>3. CASE cell[On(t)] # "created" /\ GoTo(t, "swap", << >>, << >>)
  <2>1. ~Processing
    BY <1>1, <1>3, GetWhileProcessing
  <2>2. \A q \in Objects : Spent(q)' => Spent(q)
    BY <1>1, SpentKept
  <2>3. CallsFree' /\ (Processing' <=> Processing)
    BY <1>1, <1>3, <2>1, <2>2, GetMoves
  <2>4. UsedAlive' /\ UsedBelow' /\ InTurn'
    BY <1>1, <2>1, <2>3, LivesKept, ManagersKept
  <2>5. QED BY <2>3, <2>4 DEF LockInv
<1>4. QED BY <1>2, <1>3 DEF Load

LEMMA SwapLock ==
  ASSUME StacksOK, ObjectsInv, LockInv, NEW t \in OSThreads, Swap(t)
  PROVE  LockInv'
<1>1. In(t, "get", "swap") /\ managers' = managers
  BY DEF Swap
<1>2. ~Processing
  BY <1>1, TopGet DEF LockInv
<1>3. PICK o \in Objects : o = On(t)
  BY <1>1, TopGet DEF LockInv
<1>4. CASE /\ cell[o] = "empty" /\ cell' = [cell EXCEPT ![o] = "creating"] /\ life' = [life EXCEPT ![o] = "constructing"]
           /\ GoTo(t, "new", << >>, GetUsed(On(t)))
  <2>1. /\ cell \in [Objects -> {"empty", "creating", "created"}]
        /\ life \in [Objects -> {"none", "constructing", "alive", "destroying"}] /\ life[o] \in {"none", "destroying"}
    BY <1>4 DEF ObjectsInv, ObjectTypes, CellsFit, CellFits
  <2>2. \A q \in Objects : Spent(q)' => Spent(q)
    BY <1>4, <2>1 DEF Spent
  <2>3. CallsFree' /\ (Processing' <=> Processing)
    BY <1>1, <1>2, <1>4, <2>2, GetMoves
  <2>4. UsedAlive'
    <3>1. SUFFICES ASSUME NEW p \in Objects \ Leaky, Uses[p] # NULL, life'[p] \in {"alive", "destroying"}
                   PROVE  life'[Uses[p]] = "alive"
      BY DEF UsedAlive
    <3>2. p # o /\ life[p] \in {"alive", "destroying"} /\ Uses[p] \in Objects
      BY <1>4, <2>1, <3>1, RankFact
    <3>3. life[Uses[p]] = "alive"
      BY <3>1, <3>2 DEF LockInv, UsedAlive
    <3>4. QED BY <1>4, <2>1, <3>2, <3>3
  <2>5. UsedBelow' /\ InTurn'
    BY <1>1, <1>2, <2>3, ManagersKept
  <2>6. QED BY <2>3, <2>4, <2>5 DEF LockInv
<1>5. CASE GoTo(t, "spin", << >>, << >>) /\ cell' = cell /\ life' = life
  <2>1. \A q \in Objects : Spent(q)' => Spent(q)
    BY <1>5, SpentKept
  <2>2. CallsFree' /\ (Processing' <=> Processing)
    BY <1>1, <1>2, <1>5, <2>1, GetMoves
  <2>3. UsedAlive' /\ UsedBelow' /\ InTurn'
    BY <1>1, <1>2, <1>5, <2>2, LivesKept, ManagersKept
  <2>4. QED BY <2>2, <2>3 DEF LockInv
<1>6. QED BY <1>3, <1>4, <1>5 DEF Swap, Wins

LEMMA NewLock ==
  ASSUME StacksOK, ObjectsInv, LockInv, NEW t \in OSThreads, New(t)
  PROVE  LockInv'
<1>1. In(t, "get", "new") /\ managers' = managers /\ cell' = cell /\ GoTo(t, "store", << >>, << >>)
  BY DEF New
<1>2. ~Processing
  BY <1>1, TopGet DEF LockInv
<1>3. PICK o \in Objects : o = On(t)
  BY <1>1, TopGet DEF LockInv
<1>4. life' = [life EXCEPT ![o] = "alive"] /\ life \in [Objects -> {"none", "constructing", "alive", "destroying"}]
  BY <1>3 DEF New, ObjectsInv, ObjectTypes
<1>5. \A q \in Objects : Spent(q)' => Spent(q)
  BY <1>1, <1>4 DEF Spent
<1>6. CallsFree' /\ (Processing' <=> Processing)
  BY <1>1, <1>2, <1>5, GetMoves
<1>7. Uses[o] # NULL => life[Uses[o]] = "alive"
  <2>1. Uses[o] # NULL => Uses[o] \in Relies(t)
    BY <1>1, <1>3 DEF Relies, In
  <2>2. QED BY <2>1 DEF ObjectsInv, ReliedAlive
<1>8. UsedAlive'
  <2>1. SUFFICES ASSUME NEW p \in Objects \ Leaky, Uses[p] # NULL, life'[p] \in {"alive", "destroying"}
                 PROVE  life'[Uses[p]] = "alive"
    BY DEF UsedAlive
  <2>2. Uses[p] \in Objects
    BY <2>1, RankFact
  <2>3. life[Uses[p]] = "alive"
    BY <1>4, <1>7, <2>1 DEF LockInv, UsedAlive
  <2>4. QED BY <1>4, <2>2, <2>3
<1>9. UsedBelow' /\ InTurn'
  BY <1>1, <1>2, <1>6, ManagersKept
<1>10. QED BY <1>6, <1>8, <1>9 DEF LockInv

LEMMA StoreLock ==
  ASSUME StacksOK, ObjectsInv, LockInv, NEW t \in OSThreads, Store(t)
  PROVE  LockInv'
<1>1. In(t, "get", "store") /\ managers' = managers /\ life' = life
  BY DEF Store
<1>2. ~Processing
  BY <1>1, TopGet DEF LockInv
<1>3. PICK o \in Objects : o = On(t)
  BY <1>1, TopGet DEF LockInv
<1>4. cell' = [cell EXCEPT ![o] = "created"] /\ cell \in [Objects -> {"empty", "creating", "created"}] /\ life[o] = "alive"
  <2>1. FitsIn(Last(calls[t]), cell, life) /\ Last(calls[t]).fn = "get" /\ Last(calls[t]).pc = "store" /\ Last(calls[t]).on = o
    BY <1>1, <1>3, TopSays
  <2>2. life[o] = "alive"
    BY <2>1 DEF FitsIn
  <2>3. QED BY <1>3, <2>2 DEF Store, Stored, ObjectsInv, ObjectTypes
<1>5. \A q \in Objects : Spent(q)' => Spent(q)
  BY <1>1, <1>4 DEF Spent
<1>6. CallsFree' /\ (Processing' <=> Processing)
  <2>1. CASE o \in Leaky /\ Return(t)
    BY <1>1, <1>2, <1>5, <2>1, ReturnsFree DEF LockInv
  <2>2. CASE o \notin Leaky /\ GoTo(t, "register", << >>, << >>)
    BY <1>1, <1>2, <1>3, <1>5, <2>2, GetMoves
  <2>3. QED BY <1>3, <2>1, <2>2 DEF Store
<1>7. UsedAlive' /\ UsedBelow' /\ InTurn'
  BY <1>1, <1>2, <1>6, LivesKept, ManagersKept
<1>8. QED BY <1>6, <1>7 DEF LockInv

LEMMA TopReplacedLen ==
  ASSUME NEW O, NEW ms \in Seq(Seq(O)), ms # << >>, NEW q
  PROVE  Len(TopReplaced(ms, q)) = Len(ms)
<1>1. Len(ms) \in Nat /\ Front(ms) \in Seq(Seq(O)) /\ Len(Front(ms)) = Len(ms) - 1
  BY FrontAndLast
<1>2. Len(<<q>>) = 1 /\ <<q>> \in Seq({q})
  OBVIOUS
<1>3. Len(Front(ms) \o <<q>>) = Len(Front(ms)) + Len(<<q>>)
  BY <1>1, <1>2
<1>4. QED BY <1>1, <1>2, <1>3 DEF TopReplaced

LEMMA RegisterLock ==
  ASSUME StacksOK, ObjectsInv, LockInv, NEW t \in OSThreads, Register(t)
  PROVE  LockInv'
<1>1. In(t, "get", "register") /\ Return(t) /\ managers # << >> /\ cell' = cell /\ life' = life
  BY DEF Register
<1>2. ~Processing
  BY <1>1, TopGet DEF LockInv
<1>3. PICK o \in Objects : o = On(t)
  BY <1>1, TopGet DEF LockInv
<1>4. managers' = TopReplaced(managers, Append(Last(managers), o)) /\ managers \in Seq(Seq(Objects))
  BY <1>3 DEF Register, TopReplaced, ObjectsInv, ObjectTypes
<1>5. \A q : Spent(q)' => Spent(q)
  BY <1>1, SpentKept
<1>6. CallsFree' /\ (Processing' <=> Processing)
  BY <1>1, <1>2, <1>5, ReturnsFree DEF LockInv
<1>7. UsedAlive' /\ InTurn'
  BY <1>1, <1>2, <1>6, LivesKept DEF InTurn
<1>8. Len(managers') = Len(managers)
  BY <1>1, <1>4, TopReplacedLen
<1>9. \A m, k, q : At(m, k, q)' <=> At(m, k, q) \/ (m = Len(managers) /\ k = Len(Last(managers)) + 1 /\ o = q)
  BY <1>1, <1>4, AtRegistered DEF At
<1>10. UsedBelow'
  BY <1>8, <1>9 DEF LockInv, UsedBelow
<1>11. QED BY <1>6, <1>7, <1>10 DEF LockInv

LEMMA UseLock ==
  ASSUME StacksOK, ObjectsInv, LockInv, NEW t \in OSThreads, NEW o \in Objects, Use(t, o), OnlyOf(t)
  PROVE  LockInv'
<1>1. PICK f : f = Frame("use", o, "got", << >>)
  OBVIOUS
<1>2. PICK g : g = GetCall(o)
  OBVIOUS
<1>3. /\ ~Processing /\ Usable(o) /\ calls[t] = << >> /\ calls' = [calls EXCEPT ![t] = <<f, g>>]
      /\ cell' = cell /\ life' = life /\ managers' = managers
  BY <1>1, <1>2 DEF Use, MayCall, UserCalls, Spend, Idle, objectVars
<1>4. calls'[t] = <<f, g>> /\ calls'[t] # << >> /\ calls'[t][1] = f
  <2>1. calls'[t] = <<f, g>>
    BY <1>3 DEF StacksOK
  <2>2. QED BY <2>1
<1>5. f.fn = "use" /\ g.fn = "get" /\ g.on = o
  BY <1>1, <1>2, FrameFields, GetCallOK
<1>6. Processing' <=> Processing
  BY <1>3, <1>4, <1>5, ProcessingSame
<1>7. \A q : Spent(q)' => Spent(q)
  BY <1>3, SpentKept
<1>8. Free(f)' /\ Free(g)'
  BY <1>3, <1>5, <1>6, <1>7, GetFree, OthersFree
<1>9. \A k \in 1..Len(calls'[t]) : \/ k \in 1..Len(calls[t]) /\ calls'[t][k] = calls[t][k]
                                   \/ \E c : calls'[t][k] = c /\ Free(c)'
  BY <1>4, <1>8, Two
<1>10. QED BY <1>3, <1>6, <1>9, LockStays

LEMMA CallbacksLock ==
  ASSUME ~Overtaking, StacksOK, LockInv, OthersIdle, Idle(MainThread), Overtaken => Overtaking, UNCHANGED objectVars,
         NEW on, calls' = [calls EXCEPT ![MainThread] = <<Frame("callbacks", on, "pop", << >>)>>]
  PROVE  LockInv'
<1>1. cell' = cell /\ life' = life /\ managers' = managers /\ ~Overtaken /\ \A t \in OSThreads : calls[t] = << >>
  BY DEF objectVars, OthersIdle, Idle
<1>2. \A t \in OSThreads : \A k \in 1..Len(calls'[t]) : calls'[t][k].fn = "callbacks"
  <2>1. SUFFICES ASSUME NEW t \in OSThreads, NEW k \in 1..Len(calls'[t]) PROVE calls'[t][k].fn = "callbacks"
    OBVIOUS
  <2>2. PICK c : c = Frame("callbacks", on, "pop", << >>)
    OBVIOUS
  <2>3. c.fn = "callbacks"
    BY <2>2, FrameFields
  <2>4. calls'[t] = IF t = MainThread THEN <<c>> ELSE << >>
    BY <1>1, <2>2 DEF StacksOK
  <2>5. QED BY <2>1, <2>3, <2>4, One
<1>3. CallsFree'
  BY <1>2 DEF CallsFree, FreeFor
<1>4. UsedAlive' /\ UsedBelow' /\ InTurn'
  BY <1>1, LivesKept, ManagersKept
<1>5. QED BY <1>3, <1>4 DEF LockInv

LEMMA ShadowLock ==
  ASSUME StacksOK, ObjectsInv, LockInv, Shadow
  PROVE  LockInv'
<1>1. /\ ~Processing /\ (\A t \in OSThreads : calls[t] = << >>) /\ calls' = calls
      /\ managers' = Append(managers, << >>) /\ cell' = cell /\ life' = life
  BY DEF Shadow, MayCall, OthersIdle, Spend, Idle
<1>2. managers \in Seq(Seq(Objects))
  BY DEF ObjectsInv, ObjectTypes
<1>3. \A m, k, q : At(m, k, q)' <=> At(m, k, q)
  BY <1>1, <1>2, AtShadowed DEF At
<1>4. Len(managers') = Len(managers) + 1 /\ Len(managers) \in Nat
  BY <1>1, <1>2
<1>5. ~Processing'
  BY <1>1 DEF Processing, Holds
<1>6. InTurn' /\ UsedAlive' /\ CallsFree'
  BY <1>1, <1>5, LivesKept DEF InTurn, CallsFree
<1>7. \A q : ~Handled(q)
  <2>1. \A q : Sites(q) = {}
    BY <1>1 DEF Sites
  <2>2. QED BY <2>1 DEF Handled
<1>8. UsedBelow'
  <2>1. SUFFICES ASSUME NEW o \in Objects, NEW m \in Nat, NEW k \in Nat, At(m, k, o), m # Len(managers'),
                        Uses[o] # NULL, Uses[o] \notin Leaky
                 PROVE  \E n, j \in Nat : n <= m /\ At(n, j, Uses[o])
    BY <1>3 DEF UsedBelow
  <2>2. CASE m # Len(managers)
    BY <2>1, <2>2 DEF LockInv, UsedBelow
  <2>3. CASE m = Len(managers)
    <3>1. Uses[o] \in Objects
      BY <2>1, RankFact
    <3>2. InPlace(o)
      BY <2>1 DEF InPlace
    <3>3. life[o] = "alive" /\ o \notin Leaky
      BY <3>2 DEF ObjectsInv, Placed
    <3>4. life[Uses[o]] = "alive"
      BY <2>1, <3>3 DEF LockInv, UsedAlive
    <3>5. InPlace(Uses[o])
      BY <1>7, <2>1, <3>1, <3>4 DEF ObjectsInv, Placed
    <3>6. PICK n, j \in Nat : At(n, j, Uses[o])
      BY <3>5 DEF InPlace
    <3>7. n <= m
      BY <1>2, <2>3, <3>6, AtBounds DEF At
    <3>8. QED BY <3>6, <3>7
  <2>4. QED BY <2>2, <2>3
<1>9. QED BY <1>6, <1>8 DEF LockInv

(* Steps while callbacks are processed.                                       *)
LEMMA FreeWhileProcessing ==
  ASSUME Processing', NEW c, c.fn = "exit" => c.pc # "take", c.fn = "get" => c.pc = "load"
  PROVE  Free(c)'
BY DEF Free, FreeFor

LEMMA TakeLock ==
  ASSUME StacksOK, ObjectsInv, LockInv, NEW t \in OSThreads, Take(t), OnlyOf(t)
  PROVE  LockInv'
<1>1. In(t, "exit", "take") /\ managers' = managers
  BY DEF Take
<1>2. PICK o \in Objects : o = On(t)
  BY <1>1, TopSays
<1>3. PICK d : d = Last(calls[t])
  OBVIOUS
<1>4. FitsIn(d, cell, life) /\ d.fn = "exit" /\ d.pc = "take" /\ d.on = o /\ FrameOK(d)
  BY <1>1, <1>2, <1>3, TopSays
<1>5. life[o] = "alive" /\ Processing /\ NotUsed(o)
  <2>1. calls[t] # << >> /\ StackOK(t, calls[t])
    BY <1>1 DEF In, StacksOK
  <2>2. Len(calls[t]) \in 1..Len(calls[t]) /\ calls[t][Len(calls[t])] = d
    BY <1>3, <2>1, StackTop
  <2>3. FreeFor(d, o)
    BY <1>4, <2>2 DEF LockInv, CallsFree
  <2>4. QED BY <1>1, <1>4, <2>3, ExitAt DEF FreeFor, FitsIn
<1>6. life' = [life EXCEPT ![o] = "destroying"] /\ life \in [Objects -> {"none", "constructing", "alive", "destroying"}]
  BY <1>2 DEF Take, ObjectsInv, ObjectTypes
<1>7. GoTo(t, "delete", << >>, GetUsed(o))
  BY <1>2 DEF Take
<1>8. PICK c : c = Frame("exit", o, "delete", << >>)
  OBVIOUS
<1>9. c.fn = "exit" /\ c.on = o /\ c.pc = "delete"
  BY <1>8, FrameFields
<1>10. "delete" \in Pcs /\ << >> \in Locals /\ FrameOK(c)
  BY <1>9, NoLocals DEF Pcs, FrameOK
<1>11. \E new : /\ SameFirst(t) /\ calls[t] # << >> /\ Len(new) \in Nat /\ Len(new) > 0
                /\ Moved(t, Len(calls[t]) - 1, new)
                /\ \A j \in 1..Len(new) : /\ new[j].fn = "exit" => new[j].pc # "take"
                                          /\ new[j].fn = "get" => new[j].pc = "load"
  <2>1. CASE GetUsed(o) = << >>
    <3>1. GoTo(t, "delete", << >>, << >>)
      BY <1>7, <2>1
    <3>2. SameFirst(t) /\ calls[t] # << >> /\ Moved(t, Len(calls[t]) - 1, <<c>>)
      BY <1>1, <1>2, <1>8, <1>10, <3>1, GoesOn
    <3>3. \A j \in 1..Len(<<c>>) : <<c>>[j].fn = "exit" /\ <<c>>[j].pc = "delete"
      BY <1>9, One
    <3>4. Len(<<c>>) \in Nat /\ Len(<<c>>) > 0
      BY One
    <3>5. QED BY <3>2, <3>3, <3>4
  <2>2. CASE GetUsed(o) # << >>
    <3>1. Uses[o] # NULL /\ GetUsed(o) = <<GetCall(Uses[o])>>
      BY <2>2 DEF GetUsed
    <3>2. PICK f : f = GetCall(Uses[o])
      OBVIOUS
    <3>3. f \in Frames /\ FrameOK(f) /\ f.fn = "get" /\ f.on = Uses[o] /\ f.pc = "load"
      BY <3>1, <3>2, RankFact, GetCallOK
    <3>4. CalledBy(f, c)
      BY <1>9, <3>3 DEF CalledBy
    <3>5. GoTo(t, "delete", << >>, <<f>>)
      BY <1>7, <3>1, <3>2
    <3>6. SameFirst(t) /\ calls[t] # << >> /\ Moved(t, Len(calls[t]) - 1, <<c, f>>)
      BY <1>1, <1>2, <1>8, <1>10, <3>3, <3>4, <3>5, GoesIn
    <3>7. \A j \in 1..Len(<<c, f>>) : /\ <<c, f>>[j].fn = "exit" => <<c, f>>[j].pc # "take"
                                      /\ <<c, f>>[j].fn = "get" => <<c, f>>[j].pc = "load"
      BY <1>9, <3>3, Two
    <3>8. Len(<<c, f>>) \in Nat /\ Len(<<c, f>>) > 0
      BY Two
    <3>9. QED BY <3>6, <3>7, <3>8
  <2>3. QED BY <2>1, <2>2
<1>12. PICK new : /\ SameFirst(t) /\ calls[t] # << >> /\ Len(new) \in Nat /\ Len(new) > 0
                  /\ Moved(t, Len(calls[t]) - 1, new)
                  /\ \A j \in 1..Len(new) : /\ new[j].fn = "exit" => new[j].pc # "take"
                                            /\ new[j].fn = "get" => new[j].pc = "load"
  BY <1>11
<1>13. calls'[t] # << >>
  BY <1>12, TopAfter
<1>14. Processing' <=> Processing
  BY <1>12, <1>13, ProcessingSame DEF SameFirst
<1>15. CallsFree'
  <2>1. \A j \in 1..Len(new) : \E e : new[j] = e /\ Free(e)'
    BY <1>5, <1>12, <1>14, FreeWhileProcessing
  <2>2. \A k \in 1..Len(calls'[t]) : \/ k \in 1..Len(calls[t]) /\ calls'[t][k] = calls[t][k]
                                     \/ \E e : calls'[t][k] = e /\ Free(e)'
    BY <1>12, <2>1, MovedFree
  <2>3. \A p \in Objects : life'[p] \in {"alive", "destroying"} => life[p] \in {"alive", "destroying"}
    BY <1>5, <1>6
  <2>4. QED BY <1>5, <1>14, <2>2, <2>3, CallsFreeAfter DEF LockInv
<1>16. UsedAlive'
  <2>1. SUFFICES ASSUME NEW p \in Objects \ Leaky, Uses[p] # NULL, life'[p] \in {"alive", "destroying"}
                 PROVE  life'[Uses[p]] = "alive"
    BY DEF UsedAlive
  <2>2. life[p] \in {"alive", "destroying"} /\ Uses[p] \in Objects
    BY <1>5, <1>6, <2>1, RankFact
  <2>3. life[Uses[p]] = "alive" /\ Uses[p] # o
    BY <1>5, <2>1, <2>2 DEF LockInv, UsedAlive, NotUsed
  <2>4. QED BY <1>6, <2>2, <2>3
<1>17. UsedBelow' /\ InTurn'
  BY <1>1, <1>5, ManagersKept
<1>18. QED BY <1>15, <1>16, <1>17 DEF LockInv

LEMMA DeleteLock ==
  ASSUME StacksOK, ObjectsInv, LockInv, NEW t \in OSThreads, Delete(t)
  PROVE  LockInv'
<1>1. In(t, "exit", "delete") /\ Return(t) /\ managers' = managers
  BY DEF Delete
<1>2. PICK o \in Objects : o = On(t)
  BY <1>1, TopSays
<1>3. life[o] = "destroying" /\ Processing
  <2>1. FitsIn(Last(calls[t]), cell, life) /\ Last(calls[t]).fn = "exit" /\ Last(calls[t]).pc = "delete" /\ Last(calls[t]).on = o
    BY <1>1, <1>2, TopSays
  <2>2. QED BY <1>1, <2>1, ExitAt DEF FitsIn
<1>4. life' = [life EXCEPT ![o] = "none"] /\ life \in [Objects -> {"none", "constructing", "alive", "destroying"}]
  BY <1>2 DEF Delete, ObjectsInv, ObjectTypes
<1>5. \A p \in Objects : life'[p] \in {"alive", "destroying"} => p # o /\ life[p] \in {"alive", "destroying"}
  BY <1>4
<1>6. CallsFree' /\ (Processing' <=> Processing)
  BY <1>1, <1>3, <1>5, ReturnsFree DEF LockInv
<1>7. UsedAlive'
  <2>1. SUFFICES ASSUME NEW p \in Objects \ Leaky, Uses[p] # NULL, life'[p] \in {"alive", "destroying"}
                 PROVE  life'[Uses[p]] = "alive"
    BY DEF UsedAlive
  <2>2. life[Uses[p]] = "alive" /\ Uses[p] \in Objects
    BY <1>5, <2>1, RankFact DEF LockInv, UsedAlive
  <2>3. QED BY <1>3, <1>4, <2>2
<1>8. UsedBelow' /\ InTurn'
  BY <1>1, <1>3, ManagersKept
<1>9. QED BY <1>6, <1>7, <1>8 DEF LockInv

LEMMA ProcessedLock ==
  ASSUME StacksOK, ObjectsInv, LockInv, NEW t \in OSThreads, Processed(t), OnlyOf(t)
  PROVE  LockInv'
<1>1. /\ In(t, "callbacks", "pop") /\ Return(t) /\ Last(managers) = << >> /\ cell' = cell /\ life' = life
      /\ managers' = (IF On(t) = "destructor" THEN Front(managers) ELSE managers)
  BY DEF Processed
<1>2. t = MainThread /\ Len(calls[t]) - 1 = 0 /\ Processing
  BY <1>1, NoneHandled
<1>3. calls'[t] = << >>
  <2>1. Moved(t, Len(calls[t]) - 1, << >>) /\ Len(<< >>) = 0
    BY <1>1, ComesBack
  <2>2. QED BY <1>2, <2>1, TopAfter
<1>4. ~Processing'
  BY <1>2, <1>3 DEF Processing, Holds
<1>5. CallsFree'
  <2>1. SUFFICES ASSUME NEW u \in OSThreads, NEW k \in 1..Len(calls'[u]) PROVE calls'[u][k].fn = "exits"
    BY DEF CallsFree, FreeFor
  <2>2. u # t
    BY <1>3, <2>1
  <2>3. calls'[u] = calls[u]
    BY <2>2 DEF OnlyOf
  <2>4. QED BY <1>2, <2>1, <2>2, <2>3, OthersExit
<1>6. managers \in Seq(Seq(Objects)) /\ managers # << >>
  BY <1>2 DEF ObjectsInv, ObjectTypes, StacksOK
<1>7. \A m, k, q : At(m, k, q)' <=> At(m, k, q)
  BY <1>1, <1>6, AtDropped DEF At
<1>8. UsedBelow'
  <2>1. SUFFICES ASSUME NEW o \in Objects, NEW m \in Nat, NEW k \in Nat, At(m, k, o),
                        Uses[o] # NULL, Uses[o] \notin Leaky
                 PROVE  \E n, j \in Nat : n <= m /\ At(n, j, Uses[o])
    BY <1>7 DEF UsedBelow
  <2>2. m # Len(managers)
    BY <1>1, <1>6, <2>1, AtBounds DEF At
  <2>3. QED BY <2>1, <2>2 DEF LockInv, UsedBelow
<1>9. InTurn' /\ UsedAlive'
  BY <1>1, <1>4, LivesKept DEF InTurn
<1>10. QED BY <1>5, <1>8, <1>9 DEF LockInv

(* What is popped is used by no object that still lives.                      *)
LEMMA PoppedNotUsed ==
  ASSUME StacksOK, ObjectsInv, LockInv, Processing, \A q : Sites(q) = {}, managers # << >>, Last(managers) # << >>,
         NEW o \in Objects, o = Last(managers)[Len(Last(managers))], At(Len(managers), Len(Last(managers)), o)
  PROVE  NotUsed(o)
<1>1. SUFFICES ASSUME NEW p \in Objects \ Leaky, Uses[p] = o, life[p] \in {"alive", "destroying"}
               PROVE  FALSE
  BY DEF NotUsed
<1>2. managers \in Seq(Seq(Objects)) /\ ~Handled(p)
  BY DEF ObjectsInv, ObjectTypes, Handled
<1>3. life[p] = "alive"
  BY <1>1, <1>2 DEF ObjectsInv, CellsFit, CellFits
<1>4. PICK m \in Nat, k \in Nat : At(m, k, p)
  BY <1>2, <1>3 DEF ObjectsInv, Placed, InPlace
<1>5. o # NULL /\ p # o
  BY <1>1, RankFact, ObjectsAssumption
<1>6. InPlace(o)
  <2>1. Len(managers) \in Nat /\ Len(Last(managers)) \in Nat
    BY <1>2, FrontAndLast
  <2>2. QED BY <2>1 DEF InPlace
<1>7. o \notin Leaky
  BY <1>6 DEF ObjectsInv, Placed
<1>8. CASE m # Len(managers)
  <2>1. PICK n \in Nat, j \in Nat : n <= m /\ At(n, j, o)
    BY <1>1, <1>4, <1>5, <1>7, <1>8 DEF LockInv, UsedBelow
  <2>2. Len(managers) \in Nat /\ Len(Last(managers)) \in Nat
    BY <1>2, FrontAndLast
  <2>3. n = Len(managers)
    BY <2>1, <2>2 DEF ObjectsInv, PlacedOnce
  <2>4. m <= Len(managers)
    BY <1>2, <1>4, AtBounds DEF At
  <2>5. QED BY <1>8, <2>1, <2>2, <2>3, <2>4
<1>9. CASE m = Len(managers)
  <2>1. Last(managers) = managers[m] /\ Last(managers) \in Seq(Objects)
    BY <1>2, <1>9, FrontAndLast DEF Last
  <2>2. k \in DOMAIN Last(managers) /\ Last(managers)[k] = p
    BY <1>4, <2>1 DEF At, AtIn
  <2>3. k \in 1..Len(Last(managers)) /\ k # Len(Last(managers))
    BY <1>5, <2>1, <2>2
  <2>4. Len(Last(managers)) \in DOMAIN Last(managers) /\ k < Len(Last(managers))
    BY <2>1, <2>3
  <2>5. Overtaken
    BY <1>1, <2>2, <2>4 DEF Overtaken
  <2>6. QED BY <2>5 DEF LockInv, InTurn
<1>10. QED BY <1>8, <1>9

LEMMA PopLock ==
  ASSUME StacksOK, ObjectsInv, LockInv, NEW t \in OSThreads, Pop(t)
  PROVE  LockInv'
<1>1. In(t, "callbacks", "pop") /\ Last(managers) # << >> /\ cell' = cell /\ life' = life
  BY DEF Pop
<1>2. Processing /\ \A q : Sites(q) = {}
  BY <1>1, NoneHandled
<1>3. managers \in Seq(Seq(Objects)) /\ managers # << >>
  BY <1>2 DEF ObjectsInv, ObjectTypes, StacksOK
<1>4. PICK L : L = Len(Last(managers))
  OBVIOUS
<1>5. PICK o : o = Last(managers)[L]
  OBVIOUS
<1>6. PICK q : q = RemoveAt(Last(managers), L)
  OBVIOUS
<1>7. /\ managers' = TopReplaced(managers, q)
      /\ GoTo(t, "pop", << >>, <<Frame("exit", o, "take", << >>)>>)
  BY <1>4, <1>5, <1>6 DEF Pop, TopReplaced, NextCallback
<1>8. /\ managers' \in Seq(Seq(Objects)) /\ managers' # << >> /\ AtIn(managers, Len(managers), L, o)
      /\ \A m, k, r : AtIn(managers', m, k, r) <=> AtIn(managers, m, k, r) /\ ~(m = Len(managers) /\ k = L)
  BY <1>1, <1>3, <1>4, <1>5, <1>6, <1>7, AtPopped
<1>9. At(Len(managers), L, o) /\ o \in Objects
  BY <1>3, <1>8, AtBounds DEF At
<1>10. \A m, k, r : At(m, k, r)' <=> At(m, k, r) /\ ~(m = Len(managers) /\ k = L)
  BY <1>8 DEF At, AtIn
<1>11. Len(managers') = Len(managers)
  BY <1>3, <1>7, TopReplacedLen
<1>12. NotUsed(o)
  BY <1>2, <1>3, <1>1, <1>4, <1>5, <1>9, PoppedNotUsed
<1>13. UsedBelow'
  <2>1. SUFFICES ASSUME NEW p \in Objects, NEW m \in Nat, NEW k \in Nat, At(m, k, p)', m # Len(managers),
                        Uses[p] # NULL, Uses[p] \notin Leaky
                 PROVE  \E n, j \in Nat : n <= m /\ At(n, j, Uses[p])'
    BY <1>11 DEF UsedBelow
  <2>2. At(m, k, p)
    BY <1>10, <2>1
  <2>3. PICK n \in Nat, j \in Nat : n <= m /\ At(n, j, Uses[p])
    BY <2>1, <2>2 DEF LockInv, UsedBelow
  <2>4. m <= Len(managers) /\ Len(managers) \in Nat
    BY <1>3, <2>2, AtBounds DEF At
  <2>5. n # Len(managers)
    BY <2>1, <2>3, <2>4
  <2>6. QED BY <1>10, <2>3, <2>5
<1>14. ~Overtaken'
  <2>1. SUFFICES ASSUME Overtaken' PROVE FALSE
    OBVIOUS
  <2>2. PICK k \in DOMAIN Last(managers'), j \in DOMAIN Last(managers') :
             k < j /\ Last(managers')[j] = Uses[Last(managers')[k]]
    BY <2>1 DEF Overtaken
  <2>3. Last(managers') = managers'[Len(managers')] /\ Len(managers') \in DOMAIN managers'
    BY <1>8 DEF Last
  <2>4. PICK a, b : a = Last(managers')[k] /\ b = Last(managers')[j]
    OBVIOUS
  <2>5. AtIn(managers', Len(managers), k, a) /\ AtIn(managers', Len(managers), j, b)
    BY <1>11, <2>2, <2>3, <2>4 DEF AtIn
  <2>6. AtIn(managers, Len(managers), k, a) /\ AtIn(managers, Len(managers), j, b)
    BY <1>8, <2>5
  <2>7. Last(managers) = managers[Len(managers)]
    BY DEF Last
  <2>8. k \in DOMAIN Last(managers) /\ j \in DOMAIN Last(managers) /\ Last(managers)[k] = a /\ Last(managers)[j] = b
    BY <2>6, <2>7 DEF AtIn
  <2>9. Overtaken
    BY <2>2, <2>4, <2>8 DEF Overtaken
  <2>10. QED BY <1>2, <2>9 DEF LockInv, InTurn
<1>15. PICK c : c = Frame("callbacks", On(t), "pop", << >>)
  OBVIOUS
<1>16. PICK f : f = Frame("exit", o, "take", << >>)
  OBVIOUS
<1>17. c.fn = "callbacks" /\ c.pc = "pop" /\ f.fn = "exit" /\ f.on = o /\ f.pc = "take"
  BY <1>15, <1>16, FrameFields
<1>18. "pop" \in Pcs /\ "take" \in Pcs /\ << >> \in Locals /\ FrameOK(c) /\ FrameOK(f) /\ CalledBy(f, c)
  BY <1>9, <1>17, NoLocals DEF Pcs, FrameOK, CalledBy
<1>19. f \in Frames
  BY <1>9, <1>16, <1>18, FrameType
<1>20. /\ OnlyOf(t) /\ SameFirst(t) /\ calls[t] # << >> /\ Moved(t, Len(calls[t]) - 1, <<c, f>>)
  BY <1>1, <1>7, <1>15, <1>16, <1>18, <1>19, GoesIn
<1>21. calls'[t] # << >>
  <2>1. Len(<<c, f>>) \in Nat /\ Len(<<c, f>>) > 0
    BY Two
  <2>2. QED BY <1>20, <2>1, TopAfter
<1>22. Processing' <=> Processing
  BY <1>20, <1>21, ProcessingSame DEF SameFirst
<1>23. Free(c)' /\ Free(f)'
  <2>1. NotUsed(o)'
    BY <1>1, <1>12 DEF NotUsed
  <2>2. QED BY <1>17, <2>1 DEF Free, FreeFor
<1>24. CallsFree'
  <2>1. \A j \in 1..Len(<<c, f>>) : \E d : <<c, f>>[j] = d /\ Free(d)'
    BY <1>23, Two
  <2>2. Len(<<c, f>>) \in Nat
    BY Two
  <2>3. \A k \in 1..Len(calls'[t]) : \/ k \in 1..Len(calls[t]) /\ calls'[t][k] = calls[t][k]
                                     \/ \E d : calls'[t][k] = d /\ Free(d)'
    BY <1>20, <2>1, <2>2, MovedFree
  <2>4. QED BY <1>1, <1>2, <1>20, <1>22, <2>3, CallsFreeAfter DEF LockInv
<1>25. UsedAlive'
  BY <1>1, LivesKept
<1>26. QED BY <1>13, <1>14, <1>24, <1>25 DEF LockInv, InTurn

(* A step about objects, and a call that user code makes.                     *)
LEMMA ObjectStepLock ==
  ASSUME StaticsInv, LockInv, NEW t \in OSThreads, ObjectStep(t)
  PROVE  LockInv'
<1>1. StacksOK /\ ObjectsInv
  BY DEF StaticsInv
<1>2. CASE Used(t)
  <2>1. In(t, "use", "got") /\ Return(t) /\ cell' = cell /\ life' = life /\ managers' = managers
    BY <1>2 DEF Used, objectVars
  <2>2. QED BY <1>1, <2>1, LockOnReturn
<1>3. CASE Load(t)
  BY <1>1, <1>3, LoadLock
<1>4. CASE Swap(t)
  BY <1>1, <1>4, SwapLock
<1>5. CASE New(t)
  BY <1>1, <1>5, NewLock
<1>6. CASE Store(t)
  BY <1>1, <1>6, StoreLock
<1>7. CASE Register(t)
  BY <1>1, <1>7, RegisterLock
<1>8. CASE Spin(t)
  <2>1. In(t, "get", "spin") /\ Return(t) /\ cell' = cell /\ life' = life /\ managers' = managers
    BY <1>8 DEF Spin, objectVars
  <2>2. QED BY <1>1, <2>1, LockOnReturn
<1>9. CASE Pop(t)
  BY <1>1, <1>9, PopLock
<1>10. CASE Processed(t)
  <2>1. OnlyOf(t)
    BY <1>1, <1>10, ProcessedKeeps DEF ObjectMoved
  <2>2. QED BY <1>1, <1>10, <2>1, ProcessedLock
<1>11. CASE Take(t)
  <2>1. OnlyOf(t)
    BY <1>1, <1>11, TakeKeeps DEF ObjectMoved
  <2>2. QED BY <1>1, <1>11, <2>1, TakeLock
<1>12. CASE Delete(t)
  BY <1>1, <1>12, DeleteLock
<1>13. QED BY <1>2, <1>3, <1>4, <1>5, <1>6, <1>7, <1>8, <1>9, <1>10, <1>11, <1>12 DEF ObjectStep

LEMMA ObjectCallsLock ==
  ASSUME ~Overtaking, StaticsInv, LockInv, ObjectCalls
  PROVE  LockInv'
<1>1. StacksOK /\ ObjectsInv
  BY DEF StaticsInv
<1>2. ASSUME NEW t \in OSThreads, NEW o \in Objects, Use(t, o) PROVE LockInv'
  <2>1. OnlyOf(t)
    BY <1>1, <1>2, UseKeeps DEF ObjectMoved
  <2>2. QED BY <1>1, <1>2, <2>1, UseLock
<1>3. CASE Shadow
  BY <1>1, <1>3, ShadowLock
<1>4. CASE ProcessCallbacksNow
  <2>1. /\ OthersIdle /\ Idle(MainThread) /\ (Overtaken => Overtaking) /\ UNCHANGED objectVars
        /\ calls' = [calls EXCEPT ![MainThread] = <<Frame("callbacks", "now", "pop", << >>)>>]
    BY <1>4 DEF ProcessCallbacksNow, UserCalls, Spend
  <2>2. QED BY <1>1, <2>1, CallbacksLock
<1>5. CASE DestroyManager
  <2>1. /\ OthersIdle /\ Idle(MainThread) /\ (Overtaken => Overtaking) /\ UNCHANGED objectVars
        /\ calls' = [calls EXCEPT ![MainThread] = <<Frame("callbacks", "destructor", "pop", << >>)>>]
    BY <1>5 DEF DestroyManager
  <2>2. QED BY <1>1, <2>1, CallbacksLock
<1>6. QED BY <1>2, <1>3, <1>4, <1>5 DEF ObjectCalls

(* The calls about slots leave the objects alone.                              *)
SlotStack(s) == s = << >> \/ AboutSlots(s[1].fn)

LEMMA SlotFrames ==
  ASSUME NEW t, NEW s, StackOK(t, s), SlotStack(s), NEW k \in 1..Len(s)
  PROVE  AboutSlots(s[k].fn)
<1>1. Len(s) \in Nat /\ s # << >>
  BY DEF StackOK
<1>2. s[1].fn \in {"initialize", "getSlot", "setSlot", "exits"}
  BY <1>1 DEF StackOK, SlotStack, AboutSlots
<1>3. Len(s) \in 1..2 /\ (Len(s) = 2 => s[2].fn = "table")
  BY <1>1, <1>2, SlotStacks
<1>4. k = 1 \/ (k = 2 /\ Len(s) = 2)
  <2>1. PICK n \in Nat : n = Len(s)
    BY <1>1
  <2>2. n \in 1..2 /\ k \in 1..n
    BY <1>3, <2>1
  <2>3. k = 1 \/ (k = 2 /\ n = 2)
    BY <2>2
  <2>4. QED BY <2>1, <2>3
<1>5. QED BY <1>2, <1>3, <1>4 DEF AboutSlots

LEMMA SlotsLock ==
  ASSUME StacksOK, LockInv, UNCHANGED objectVars, NEW t \in OSThreads, OnlyOf(t), SlotStack(calls[t]), SlotStack(calls'[t])
  PROVE  LockInv'
<1>1. cell' = cell /\ life' = life /\ managers' = managers
  BY DEF objectVars
<1>2. StackOK(t, calls'[t])
  BY DEF OnlyOf
<1>3. ~(calls[t] # << >> /\ calls[t][1].fn = "callbacks") /\ ~(calls'[t] # << >> /\ calls'[t][1].fn = "callbacks")
  BY DEF SlotStack, AboutSlots
<1>4. Processing' <=> Processing
  BY <1>3, ProcessingSame
<1>5. \A k \in 1..Len(calls'[t]) : \E c : calls'[t][k] = c /\ Free(c)'
  <2>1. SUFFICES ASSUME NEW k \in 1..Len(calls'[t]), NEW c, c = calls'[t][k] PROVE Free(c)'
    OBVIOUS
  <2>2. AboutSlots(c.fn)
    BY <1>2, <2>1, SlotFrames
  <2>3. QED BY <2>2, OthersFree DEF AboutSlots
<1>6. QED BY <1>1, <1>4, <1>5, LockStays

LEMMA FirstStays ==
  ASSUME NEW F, NEW s \in Seq(F), s # << >>, NEW c, Len(s) = 1 => c.fn = s[1].fn,
         NEW d, NEW nested \in {<< >>, <<d>>}
  PROVE  /\ Front(s) # << >> => Front(s)[1].fn = s[1].fn
         /\ (Front(s) \o <<c>> \o nested)[1].fn = s[1].fn
<1> DEFINE G == F \cup {c, d}
<1>1. Len(s) \in Nat \ {0} /\ Front(s) \in Seq(F) /\ Len(Front(s)) = Len(s) - 1
      /\ \A k \in 1..Len(s) - 1 : Front(s)[k] = s[k]
  BY FrontAndLast
<1>2. PICK p : p = Front(s)
  OBVIOUS
<1>3. p \in Seq(G) /\ <<c>> \in Seq(G) /\ nested \in Seq(G) /\ Len(<<c>>) = 1 /\ <<c>>[1] = c
  <2>1. p \in Seq(G)
    BY <1>1, <1>2
  <2>2. <<c>> \in Seq(G) /\ Len(<<c>>) = 1 /\ <<c>>[1] = c
    OBVIOUS
  <2>3. << >> \in Seq(G) /\ <<d>> \in Seq(G)
    OBVIOUS
  <2>4. QED BY <2>1, <2>2, <2>3
<1> HIDE DEF G
<1>4. PICK q : q = p \o <<c>>
  OBVIOUS
<1>5. q \in Seq(G) /\ Len(q) = Len(p) + 1 /\ (\A k \in 1..Len(p) : q[k] = p[k]) /\ q[Len(p) + 1] = c
  BY <1>3, <1>4
<1>6. Len(q) \in Nat /\ Len(p) \in Nat /\ Len(q) > 0
  BY <1>3, <1>5
<1>7. (q \o nested)[1] = q[1]
  BY <1>3, <1>5, <1>6
<1>8. CASE Len(s) = 1
  <2>1. Len(p) = 0
    BY <1>1, <1>2, <1>8
  <2>2. p = << >>
    BY <1>3, <2>1
  <2>3. q[1] = c
    BY <1>5, <2>1
  <2>4. QED BY <1>2, <1>4, <1>7, <1>8, <2>2, <2>3
<1>9. CASE Len(s) # 1
  <2>1. 1 \in 1..Len(s) - 1 /\ 1 \in 1..Len(p)
    BY <1>1, <1>2, <1>9
  <2>2. p[1] = s[1] /\ q[1] = s[1]
    BY <1>1, <1>2, <1>5, <2>1
  <2>3. QED BY <1>2, <1>4, <1>7, <2>2
<1>10. QED BY <1>8, <1>9

(* What every step of a call about slots does to the stack.                   *)
StackSteps(t) ==
  \/ Return(t)
  \/ \E next, x : \E nested \in {<< >>, <<MakeTable>>} : GoTo(t, next, x, nested)

LEMMA SlotStepsStack ==
  ASSUME NEW t, SlotStep(t)
  PROVE  (\E fn, pc_ : In(t, fn, pc_) /\ AboutSlots(fn)) /\ StackSteps(t)
<1>1. CASE Check(t)
  <2>1. TableFirst(t) \in {<< >>, <<MakeTable>>}
    BY DEF TableFirst
  <2>2. QED BY <1>1, <2>1 DEF Check, AboutSlots, StackSteps
<1>2. CASE Grab(t)
  BY <1>2 DEF Grab, AboutSlots, StackSteps
<1>3. CASE SetDestructor(t)
  BY <1>3 DEF SetDestructor, AboutSlots, StackSteps
<1>4. CASE Key(t)
  BY <1>4 DEF Key, AboutSlots, StackSteps
<1>5. CASE SwapKey(t)
  BY <1>5 DEF SwapKey, AboutSlots, StackSteps
<1>6. CASE CreateTable(t)
  BY <1>6 DEF CreateTable, AboutSlots, StackSteps
<1>7. CASE Read(t)
  BY <1>7 DEF Read, AboutSlots, StackSteps
<1>8. CASE Write(t)
  BY <1>8 DEF Write, AboutSlots, StackSteps
<1>9. CASE CallDestructor(t)
  BY <1>9 DEF CallDestructor, AboutSlots, StackSteps
<1>10. CASE ThreadGone(t)
  BY <1>10 DEF ThreadGone, AboutSlots, StackSteps
<1>11. QED BY <1>1, <1>2, <1>3, <1>4, <1>5, <1>6, <1>7, <1>8, <1>9, <1>10 DEF SlotStep

LEMMA StackAfter ==
  ASSUME StacksOK', NEW t \in OSThreads
  PROVE  calls' \in [OSThreads -> Seq(Frames)] /\ StackOK(t, calls'[t])
<1>1. StacksOK' =>
        /\ calls' \in [OSThreads -> Seq(Frames)]
        /\ \A u \in OSThreads : StackOK(u, calls'[u])
  BY DEF StacksOK, StackOK, Frames, Pcs, Locals, FrameOK, CalledBy, Rank, Passed
<1>2. QED BY <1>1

LEMMA SlotStepLock ==
  ASSUME StacksOK, StacksOK', LockInv, UNCHANGED objectVars, NEW t \in OSThreads, SlotStep(t)
  PROVE  LockInv'
<1>1. PICK fn, pc_ : In(t, fn, pc_) /\ AboutSlots(fn)
  BY SlotStepsStack
<1>2. /\ calls[t] # << >> /\ Last(calls[t]) = calls[t][Len(calls[t])] /\ calls \in [OSThreads -> Seq(Frames)]
      /\ AboutSlots(calls[t][1].fn)
  BY <1>1, SlotTop DEF StacksOK, AboutSlots
<1>3. StackSteps(t)
  BY SlotStepsStack
<1>4. /\ \A u \in OSThreads \ {t} : calls'[u] = calls[u]
      /\ \/ calls'[t] = Front(calls[t])
         \/ \E c : \E nested \in {<< >>, <<MakeTable>>} :
              c.fn = Last(calls[t]).fn /\ calls'[t] = Front(calls[t]) \o <<c>> \o nested
  <2>1. CASE Return(t)
    BY <1>2, <2>1 DEF Return
  <2>2. CASE \E next, x : \E nested \in {<< >>, <<MakeTable>>} : GoTo(t, next, x, nested)
    <3>1. PICK next, x : \E nested \in {<< >>, <<MakeTable>>} : GoTo(t, next, x, nested)
      BY <2>2
    <3>2. PICK nested \in {<< >>, <<MakeTable>>} : GoTo(t, next, x, nested)
      BY <3>1
    <3>3. PICK c : c = Frame(Last(calls[t]).fn, Last(calls[t]).on, next, x)
      OBVIOUS
    <3>4. c.fn = Last(calls[t]).fn
      BY <3>3, FrameFields
    <3>5. calls' = [calls EXCEPT ![t] = Front(@) \o <<c>> \o nested]
      BY <3>2, <3>3 DEF GoTo
    <3>6. QED BY <1>2, <3>4, <3>5
  <2>3. QED BY <1>3, <2>1, <2>2 DEF StackSteps
<1>5. SlotStack(calls'[t])
  <2>1. SUFFICES ASSUME calls'[t] # << >> PROVE calls'[t][1].fn = calls[t][1].fn
    BY <1>2 DEF SlotStack
  <2>2. calls[t] \in Seq(Frames)
    BY <1>2
  <2>3. CASE calls'[t] = Front(calls[t])
    <3>1. PICK s, d : s = calls[t] /\ d = << >>
      OBVIOUS
    <3>2. s \in Seq(Frames) /\ s # << >> /\ (Len(s) = 1 => s[1].fn = s[1].fn) /\ d \in {<< >>, <<d>>}
      BY <1>2, <2>2, <3>1
    <3>3. Front(s) # << >> => Front(s)[1].fn = s[1].fn
      BY <3>2, FirstStays
    <3>4. QED BY <2>1, <2>3, <3>1, <3>3
  <2>4. CASE \E c : \E nested \in {<< >>, <<MakeTable>>} :
               c.fn = Last(calls[t]).fn /\ calls'[t] = Front(calls[t]) \o <<c>> \o nested
    <3>1. PICK c : \E nested \in {<< >>, <<MakeTable>>} :
                     c.fn = Last(calls[t]).fn /\ calls'[t] = Front(calls[t]) \o <<c>> \o nested
      BY <2>4
    <3>2. PICK nested \in {<< >>, <<MakeTable>>} :
                 c.fn = Last(calls[t]).fn /\ calls'[t] = Front(calls[t]) \o <<c>> \o nested
      BY <3>1
    <3>3. Len(calls[t]) = 1 => c.fn = calls[t][1].fn
      BY <1>2, <3>2
    <3>4. PICK s, d : s = calls[t] /\ d = MakeTable
      OBVIOUS
    <3>5. s \in Seq(Frames) /\ s # << >> /\ (Len(s) = 1 => c.fn = s[1].fn) /\ nested \in {<< >>, <<d>>}
      BY <1>2, <2>2, <3>2, <3>3, <3>4
    <3>6. (Front(s) \o <<c>> \o nested)[1].fn = s[1].fn
      BY <3>5, FirstStays
    <3>7. QED BY <3>2, <3>4, <3>6
  <2>5. QED BY <1>4, <2>3, <2>4
<1>6. OnlyOf(t)
  BY <1>4, StackAfter DEF OnlyOf
<1>7. SlotStack(calls[t])
  BY <1>2 DEF SlotStack
<1>8. QED BY <1>5, <1>6, <1>7, SlotsLock

LEMMA SlotBeginLock ==
  ASSUME StacksOK, StacksOK', LockInv, UNCHANGED objectVars, NEW t \in OSThreads, calls[t] = << >>,
         NEW r, SlotStack(r), calls' = [calls EXCEPT ![t] = r]
  PROVE  LockInv'
<1>1. calls'[t] = r /\ \A u \in OSThreads \ {t} : calls'[u] = calls[u]
  BY DEF StacksOK
<1>2. OnlyOf(t)
  BY <1>1, StackAfter DEF OnlyOf
<1>3. SlotStack(calls[t]) /\ SlotStack(calls'[t])
  BY <1>1 DEF SlotStack
<1>4. QED BY <1>2, <1>3, SlotsLock

LEMMA SlotFirst ==
  ASSUME NEW c, AboutSlots(c.fn), NEW nested \in {<< >>, <<MakeTable>>}
  PROVE  SlotStack(<<c>>) /\ SlotStack(<<c>> \o nested)
<1>1. <<c>>[1] = c
  OBVIOUS
<1>2. PICK d : d = MakeTable
  OBVIOUS
<1>3. <<c>> \o << >> = <<c>> /\ (<<c>> \o <<d>>)[1] = c
  OBVIOUS
<1>4. QED BY <1>1, <1>2, <1>3 DEF SlotStack

LEMMA SlotCallsLock ==
  ASSUME StacksOK, StacksOK', LockInv, UNCHANGED objectVars, NEW t \in OSThreads, SlotCalls(t) \/ ThreadExit(t)
  PROVE  LockInv'
<1>1. \E r : SlotStack(r) /\ calls[t] = << >> /\ calls' = [calls EXCEPT ![t] = r]
  <2>1. TableFirst(t) \in {<< >>, <<MakeTable>>}
    BY DEF TableFirst
  <2>2. ASSUME NEW s, InitializeSlot(t, s)
        PROVE  \E r : SlotStack(r) /\ calls[t] = << >> /\ calls' = [calls EXCEPT ![t] = r]
    <3>1. PICK c : c = Frame("initialize", s, "check", << >>)
      OBVIOUS
    <3>2. AboutSlots(c.fn)
      BY <3>1, FrameFields DEF AboutSlots
    <3>3. SlotStack(<<c>>)
      BY <3>2, <2>1, SlotFirst
    <3>4. QED BY <2>2, <3>1, <3>3 DEF InitializeSlot, UserCalls, Spend, Idle
  <2>3. ASSUME NEW s, GetSlot(t, s)
        PROVE  \E r : SlotStack(r) /\ calls[t] = << >> /\ calls' = [calls EXCEPT ![t] = r]
    <3>1. PICK c : c = Frame("getSlot", s, "read", << >>)
      OBVIOUS
    <3>2. AboutSlots(c.fn)
      BY <3>1, FrameFields DEF AboutSlots
    <3>3. SlotStack(<<c>> \o TableFirst(t))
      BY <3>2, <2>1, SlotFirst
    <3>4. QED BY <2>3, <3>1, <3>3 DEF GetSlot, UserCalls, Spend, Idle
  <2>4. ASSUME NEW s, NEW v, SetSlot(t, s, v)
        PROVE  \E r : SlotStack(r) /\ calls[t] = << >> /\ calls' = [calls EXCEPT ![t] = r]
    <3>1. PICK c : c = Frame("setSlot", s, "write", <<v>>)
      OBVIOUS
    <3>2. AboutSlots(c.fn)
      BY <3>1, FrameFields DEF AboutSlots
    <3>3. SlotStack(<<c>> \o TableFirst(t))
      BY <3>2, <2>1, SlotFirst
    <3>4. QED BY <2>4, <3>1, <3>3 DEF SetSlot, UserCalls, Spend, Idle
  <2>5. ASSUME NEW s, FreeSlot(t, s)
        PROVE  \E r : SlotStack(r) /\ calls[t] = << >> /\ calls' = [calls EXCEPT ![t] = r]
    <3>1. SlotStack(<< >>)
      BY DEF SlotStack
    <3>2. QED BY <2>5, <3>1 DEF FreeSlot, UserCalls, Spend, Idle
  <2>6. ASSUME ThreadExit(t)
        PROVE  \E r : SlotStack(r) /\ calls[t] = << >> /\ calls' = [calls EXCEPT ![t] = r]
    <3>1. PICK c : c = Frame("exits", NULL, "loop", <<0, << >>, ready \cap Cleaned>>)
      OBVIOUS
    <3>2. AboutSlots(c.fn)
      BY <3>1, FrameFields DEF AboutSlots
    <3>3. SlotStack(<<c>>)
      BY <3>2, <2>1, SlotFirst
    <3>4. QED BY <2>6, <3>1, <3>3 DEF ThreadExit, Idle
  <2>7. QED BY <2>2, <2>3, <2>4, <2>5, <2>6 DEF SlotCalls
<1>2. PICK r : SlotStack(r) /\ calls[t] = << >> /\ calls' = [calls EXCEPT ![t] = r]
  BY <1>1
<1>3. QED BY <1>2, SlotBeginLock

LEMMA LockAtFirst ==
  ASSUME StaticsInit
  PROVE  LockInv
<1>1. /\ calls = [t \in OSThreads |-> << >>] /\ life = [o \in Objects |-> "none"] /\ managers = << << >> >>
  BY DEF StaticsInit, ObjectsInit, CallsInit
<1>2. MainThread \in OSThreads /\ \A t \in OSThreads : calls[t] = << >>
  BY <1>1, OSThreadsAssumption
<1>3. InTurn
  BY <1>2 DEF InTurn, Processing, Holds
<1>4. CallsFree
  BY <1>2 DEF CallsFree
<1>5. UsedAlive
  BY <1>1 DEF UsedAlive
<1>6. UsedBelow
  <2>1. Len(managers) = 1 /\ DOMAIN managers = {1}
    BY <1>1
  <2>2. QED BY <2>1 DEF UsedBelow, At, AtIn
<1>7. QED BY <1>3, <1>4, <1>5, <1>6 DEF LockInv

LEMMA LockStutters ==
  ASSUME LockInv, UNCHANGED staticsVars
  PROVE  LockInv'
<1>1. calls' = calls /\ cell' = cell /\ life' = life /\ managers' = managers
  BY DEF staticsVars, objectVars
<1>2. Processing' <=> Processing
  BY <1>1 DEF Processing, Holds
<1>3. \A o : Usable(o) => Usable(o)'
  BY <1>1 DEF Usable, Spent
<1>4. CallsFree'
  <2>1. \A o : NotUsed(o) => NotUsed(o)'
    BY <1>1 DEF NotUsed
  <2>2. \A c, o : FreeFor(c, o) => FreeFor(c, o)'
    BY <1>2, <1>3, <2>1 DEF FreeFor
  <2>3. QED BY <1>1, <2>2 DEF LockInv, CallsFree
<1>5. UsedAlive' /\ UsedBelow' /\ InTurn'
  BY <1>1, <1>2, LivesKept, ManagersKept
<1>6. QED BY <1>4, <1>5 DEF LockInv

LEMMA LockKept ==
  ASSUME ~Overtaking, StaticsInv, LockInv, [StaticsNext]_staticsVars
  PROVE  LockInv'
<1>1. StacksOK /\ StacksOK'
  BY NextKeeps DEF StaticsInv
<1>2. CASE ObjectCalls
  BY <1>2, ObjectCallsLock
<1>3. ASSUME NEW t \in OSThreads, SlotCalls(t) \/ ThreadExit(t), UNCHANGED objectVars PROVE LockInv'
  BY <1>1, <1>3, SlotCallsLock
<1>4. ASSUME NEW t \in OSThreads, ObjectStep(t) PROVE LockInv'
  BY <1>4, ObjectStepLock
<1>5. ASSUME NEW t \in OSThreads, SlotStep(t), UNCHANGED objectVars PROVE LockInv'
  BY <1>1, <1>5, SlotStepLock
<1>6. CASE UNCHANGED staticsVars
  BY <1>6, LockStutters
<1>7. CASE StaticsNext
  BY <1>2, <1>3, <1>4, <1>5, <1>7 DEF StaticsNext, UserCode, Step
<1>8. QED BY <1>6, <1>7

-----------------------------------------------------------------------------
(* What the invariant says of the objects, the slots and the native storage.   *)
LEMMA OneOrNone ==
  ASSUME NEW S, \A x, y \in S : x = y
  PROVE  Cardinality(S) = IF S = {} THEN 0 ELSE 1
<1>1. CASE S = {}
  BY <1>1, FS_EmptySet
<1>2. CASE S # {}
  <2>1. PICK x : x \in S
    BY <1>2
  <2>2. S = {x}
    BY <2>1
  <2>3. QED BY <1>2, <2>2, FS_Singleton
<1>3. QED BY <1>1, <1>2

LEMMA OneConstructs ==
  ASSUME StaticsInv, NEW o \in Objects
  PROVE  Cardinality(Constructors(o)) <= 1
<1>1. calls \in [OSThreads -> Seq(Frames)] /\ OneSite
  BY DEF StaticsInv, StacksOK, ObjectsInv
<1>2. ASSUME NEW t \in Constructors(o), NEW u \in Constructors(o) PROVE t = u
  <2>1. \A w \in Constructors(o) : \E k \in Nat : <<w, k>> \in Sites(o)
    <3>1. SUFFICES ASSUME NEW w \in Constructors(o) PROVE \E k \in Nat : <<w, k>> \in Sites(o)
      OBVIOUS
    <3>2. PICK k \in DOMAIN calls[w] : calls[w][k].fn = "get" /\ calls[w][k].on = o /\ calls[w][k].pc \in {"new", "store"}
      BY DEF Constructors
    <3>3. w \in OSThreads /\ calls[w] \in Seq(Frames)
      BY <1>1 DEF Constructors
    <3>4. k \in 1..Len(calls[w]) /\ k \in Nat
      BY <3>3
    <3>5. Handles(calls[w][k], o)
      BY <3>2 DEF Handles
    <3>6. QED BY <3>3, <3>4, <3>5 DEF Sites
  <2>2. PICK j, k : <<t, j>> \in Sites(o) /\ <<u, k>> \in Sites(o)
    BY <2>1
  <2>3. <<t, j>> = <<u, k>>
    BY <1>1, <2>2 DEF OneSite
  <2>4. QED BY <2>3
<1>3. Cardinality(Constructors(o)) \in {0, 1}
  BY <1>2, OneOrNone
<1>4. QED BY <1>3

Taking(o) == \E t \in OSThreads : In(t, "exit", "take") /\ On(t) = o

LEMMA OnTheWay ==
  ASSUME StaticsInv, NEW o \in Objects, life[o] = "alive"
  PROVE  Handled(o) <=> Registering(o) \/ Taking(o)
<1>1. StacksOK /\ CallsFit
  BY DEF StaticsInv, ObjectsInv
<1>2. ASSUME Handled(o) PROVE Registering(o) \/ Taking(o)
  <2>1. PICK t \in OSThreads, k \in Nat : k \in 1..Len(calls[t]) /\ Handles(calls[t][k], o)
    BY <1>2 DEF Handled, Sites
  <2>2. PICK c : c = calls[t][k]
    OBVIOUS
  <2>3. StackOK(t, calls[t])
    BY <1>1 DEF StacksOK
  <2>4. FrameOK(c) /\ ObjectFits(c) /\ c.on = o
    BY <1>1, <2>1, <2>2, <2>3 DEF CallsFit, StackOK, Handles
  <2>5. (c.fn = "get" /\ c.pc \in {"store", "register"}) \/ (c.fn = "exit" /\ c.pc = "take")
    BY <2>1, <2>2, <2>4 DEF ObjectFits, FitsIn, Handles, FrameOK
  <2>6. k = Len(calls[t])
    <3>1. SUFFICES ASSUME k # Len(calls[t]) PROVE FALSE
      OBVIOUS
    <3>2. k \in 1..Len(calls[t]) - 1
      BY <2>1, <2>3, <3>1 DEF StackOK
    <3>3. CalledBy(calls[t][k + 1], c)
      BY <2>2, <2>3, <3>2 DEF StackOK
    <3>4. QED BY <2>5, <3>3 DEF CalledBy
  <2>7. calls[t] # << >> /\ Last(calls[t]) = c
    <3>1. calls[t] # << >>
      BY <2>1
    <3>2. QED BY <2>2, <2>3, <2>6, <3>1, StackTop
  <2>8. QED BY <2>4, <2>5, <2>7 DEF Registering, Taking, In, On
<1>3. ASSUME Registering(o) \/ Taking(o) PROVE Handled(o)
  <2>1. PICK t \in OSThreads : /\ calls[t] # << >> /\ On(t) = o
                               /\ In(t, "get", "store") \/ In(t, "get", "register") \/ In(t, "exit", "take")
    BY <1>3 DEF Registering, Taking, In
  <2>2. StackOK(t, calls[t])
    BY <1>1 DEF StacksOK
  <2>3. PICK k : k = Len(calls[t]) /\ k \in 1..Len(calls[t]) /\ k \in Nat /\ Last(calls[t]) = calls[t][k]
    BY <2>1, <2>2, StackTop
  <2>4. Handles(calls[t][k], o)
    <3>1. PICK c : c = Last(calls[t])
      OBVIOUS
    <3>2. c.on = o /\ (c.fn = "exit" \/ (c.fn = "get" /\ c.pc \in {"store", "register"}))
      BY <2>1, <3>1 DEF In, On
    <3>3. Handles(c, o)
      BY <3>2 DEF Handles
    <3>4. QED BY <2>3, <3>1, <3>3
  <2>5. PICK x : x = <<t, k>>
    OBVIOUS
  <2>6. x \in OSThreads \X Nat /\ x[1] = t /\ x[2] = k
    BY <2>3, <2>5
  <2>7. x \in Sites(o)
    BY <2>3, <2>4, <2>6 DEF Sites
  <2>8. QED BY <2>7 DEF Handled
<1>4. QED BY <1>2, <1>3

LEMMA RegisteredOnce ==
  ASSUME StaticsInv, NEW o \in Objects
  PROVE  Count(o) = IF life[o] = "alive" /\ o \notin Leaky /\ ~Registering(o) /\ ~Taking(o) THEN 1 ELSE 0
<1> DEFINE S == UNION {{<<m, k>> : k \in {j \in DOMAIN managers[m] : managers[m][j] = o}} : m \in DOMAIN managers}
<1>1. Placed /\ PlacedOnce /\ managers \in Seq(Seq(Objects))
  BY DEF StaticsInv, ObjectsInv, ObjectTypes
<1>2. \A m \in DOMAIN managers : m \in Nat /\ managers[m] \in Seq(Objects) /\ DOMAIN managers[m] \subseteq Nat
  BY <1>1
<1>3. \A x : x \in S <=> \E m, k \in Nat : x = <<m, k>> /\ At(m, k, o)
  <2>1. ASSUME NEW x \in S PROVE \E m, k \in Nat : x = <<m, k>> /\ At(m, k, o)
    <3>1. PICK m \in DOMAIN managers : x \in {<<m, k>> : k \in {j \in DOMAIN managers[m] : managers[m][j] = o}}
      BY <2>1
    <3>2. PICK k \in DOMAIN managers[m] : x = <<m, k>> /\ managers[m][k] = o
      BY <3>1
    <3>3. QED BY <1>2, <3>1, <3>2 DEF At, AtIn
  <2>2. ASSUME NEW m \in Nat, NEW k \in Nat, At(m, k, o) PROVE <<m, k>> \in S
    BY <2>2 DEF At, AtIn
  <2>3. QED BY <2>1, <2>2
<1>4. Count(o) = Cardinality(S)
  BY DEF Count
<1> HIDE DEF S
<1>5. \A x, y \in S : x = y
  <2>1. SUFFICES ASSUME NEW x \in S, NEW y \in S PROVE x = y
    OBVIOUS
  <2>2. PICK m, k \in Nat : x = <<m, k>> /\ At(m, k, o)
    BY <1>3
  <2>3. PICK n, j \in Nat : y = <<n, j>> /\ At(n, j, o)
    BY <1>3
  <2>4. m = n /\ k = j
    BY <1>1, <2>2, <2>3 DEF PlacedOnce
  <2>5. QED BY <2>2, <2>3, <2>4
<1>6. S # {} <=> InPlace(o)
  BY <1>3 DEF InPlace
<1>7. InPlace(o) <=> life[o] = "alive" /\ o \notin Leaky /\ ~Registering(o) /\ ~Taking(o)
  BY <1>1, OnTheWay DEF Placed
<1>8. Cardinality(S) = IF S = {} THEN 0 ELSE 1
  BY <1>5, OneOrNone
<1>9. QED BY <1>4, <1>6, <1>7, <1>8

LEMMA PassedOnce ==
  ASSUME StaticsInv, NEW t \in OSThreads, In(t, "exits", "loop"), NEW s \in Local(t)[3]
  PROVE  Cardinality({k \in DOMAIN Local(t)[2] : Local(t)[2][k] = <<number[s], wrote[t][s]>>})
           = IF number[s] < Local(t)[1] \/ Local(t)[1] >= tls_max_ THEN 1 ELSE 0
<1>0. PICK n, passed, due : n = Local(t)[1] /\ passed = Local(t)[2] /\ due = Local(t)[3]
  OBVIOUS
<1>1. ExitOK(t, n, passed, due) /\ SlotTypes /\ NumbersOK /\ StacksOK
  BY <1>0 DEF StaticsInv, SlotsInv, ExitsOK
<1>2. /\ s \in ready /\ n <= tls_max_ /\ \A j, k \in DOMAIN passed : passed[j][1] = passed[k][1] => j = k
      /\ (\E k \in DOMAIN passed : passed[k] = <<number[s], wrote[t][s]>>) <=> number[s] < n
  BY <1>0, <1>1 DEF ExitOK
<1>3. number[s] \in Nat /\ number[s] < tls_max_ /\ tls_max_ \in Nat /\ n \in Nat
  BY <1>0, <1>1, <1>2, ExitNumbers DEF SlotTypes, NumbersOK
<1>4. n >= tls_max_ => number[s] < n
  BY <1>2, <1>3
<1>5. PICK e : e = <<number[s], wrote[t][s]>>
  OBVIOUS
<1>6. PICK S : S = {k \in DOMAIN passed : passed[k] = e}
  OBVIOUS
<1>7. \A j, k \in S : j = k
  BY <1>2, <1>6
<1>8. Cardinality(S) = IF S = {} THEN 0 ELSE 1
  BY <1>7, OneOrNone
<1>9. S # {} <=> number[s] < n
  BY <1>2, <1>5, <1>6
<1>10. QED BY <1>0, <1>4, <1>5, <1>6, <1>8, <1>9

LEMMA InvImpliesSound ==
  ASSUME StaticsInv, LockInv
  PROVE  StaticsSound /\ DestroyedInOrder
<1>1. ObjectsSound
  <2>1. \A t \in OSThreads : \A o \in Relies(t) : life[o] = "alive"
    BY DEF StaticsInv, ObjectsInv, ReliedAlive
  <2>2. ASSUME NEW t \in OSThreads, In(t, "get", "register") PROVE ~Holds(t)
    <3>1. SUFFICES ASSUME Holds(t) PROVE FALSE
      OBVIOUS
    <3>2. StacksOK /\ CallsFree /\ "register" # "load"
      BY DEF StaticsInv, LockInv
    <3>3. ~Processing
      BY <2>2, <3>2, TopGet
    <3>4. PICK k \in DOMAIN calls[t] : calls[t][k].fn = "callbacks"
      BY <3>1 DEF Holds
    <3>5. StackOK(t, calls[t])
      BY <3>2 DEF StacksOK
    <3>6. calls[t] \in Seq(Frames)
      BY <3>5 DEF StackOK
    <3>7. k \in 1..Len(calls[t])
      BY <3>4, <3>6
    <3>8. k = 1
      BY <3>4, <3>5, <3>7, Positions
    <3>9. calls[t] # << >> /\ calls[t][1].fn = "callbacks"
      BY <3>4, <3>7, <3>8
    <3>10. t = MainThread
      BY <3>5, <3>9 DEF StackOK
    <3>11. QED BY <3>1, <3>3, <3>10 DEF Processing
  <2>3. QED BY <2>1, <2>2, OneConstructs, RegisteredOnce DEF ObjectsSound, Taking
<1>2. SlotsSound
  <2>1. \A t \in OSThreads : /\ table[t] # NULL <=> HasTable(t)
                             /\ \A s \in ready : wrote[t][s] = IF table[t] = NULL THEN NULL ELSE table[t][number[s]]
    BY DEF StaticsInv, SlotsInv, TablesOK
  <2>2. \A s, u \in ready : s # u => number[s] # number[u]
    BY DEF StaticsInv, SlotsInv, NumbersOK, SlotTypes
  <2>3. ASSUME NEW t \in OSThreads, In(t, "exits", "loop"), NEW s \in Local(t)[3]
        PROVE  Cardinality({k \in DOMAIN Local(t)[2] : Local(t)[2][k] = <<number[s], wrote[t][s]>>})
                 = IF number[s] < Local(t)[1] \/ Local(t)[1] >= tls_max_ THEN 1 ELSE 0
    BY <2>3, PassedOnce
  <2>4. QED BY <2>1, <2>2, <2>3 DEF SlotsSound
<1>3. \A i \in Indexes : Cardinality(Holders(i)) = IF i \in DOMAIN native THEN 1 ELSE 0
  <2>1. \A i \in Indexes : (\A x, y \in Holders(i) : x = y) /\ (i \in DOMAIN native <=> Holders(i) # {})
    BY DEF StaticsInv, NativeInv, OneHolder
  <2>2. QED BY <2>1, OneOrNone
<1>4. DestroyedInOrder
  <2>1. Ordered /\ Placed
    BY DEF StaticsInv, ObjectsInv
  <2>2. SUFFICES ASSUME NEW o \in Objects, NEW p \in Objects \ Leaky, life[o] = "destroying", o \in under[p],
                        life[p] \in {"constructing", "alive"}
                 PROVE  FALSE
    BY DEF DestroyedInOrder
  <2>3. InPlace(o)
    BY <2>1, <2>2 DEF Ordered
  <2>4. QED BY <2>1, <2>2, <2>3 DEF Placed
<1>5. QED BY <1>1, <1>2, <1>3, <1>4 DEF StaticsSound

LEMMA StaticsInductive ==
  ASSUME ~Overtaking
  PROVE  StaticsSpec => [](StaticsInv /\ LockInv)
<1>1. StaticsInit => StaticsInv /\ LockInv
  BY AtFirst, LockAtFirst
<1>2. StaticsInv /\ LockInv /\ [StaticsNext]_staticsVars => StaticsInv' /\ LockInv'
  BY NextKeeps, LockKept
<1>3. QED BY <1>1, <1>2, PTL DEF StaticsSpec

(* What threads get from Singleton::get and LazyInstance::Pointer is           *)
(* constructed, once, and alive; each object is registered once and destroyed  *)
(* once, and nobody registers one while he holds the manager's lock_; a slot   *)
(* keeps what its thread set, each destructor due gets that once; and no index *)
(* of the native storage is leaked, shared or used when free.                 *)
THEOREM StaticsStaySound ==
  ASSUME ~Overtaking
  PROVE  StaticsSpec => []StaticsSound
<1>1. StaticsInv /\ LockInv => StaticsSound
  BY InvImpliesSound
<1>2. QED BY <1>1, StaticsInductive, PTL

(* AtExitManager destroys no object before those whose constructors began when *)
(* it was already registered.                                                *)
THEOREM LastMadeFirstDestroyed ==
  ASSUME ~Overtaking
  PROVE  StaticsSpec => []DestroyedInOrder
<1>1. StaticsInv /\ LockInv => DestroyedInOrder
  BY InvImpliesSound
<1>2. QED BY <1>1, StaticsInductive, PTL
=============================================================================
