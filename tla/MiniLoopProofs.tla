--------------------------- MODULE MiniLoopProofs ----------------------------
(***************************************************************************)
(* Proofs about MiniLoop, for any sets of jobs, threads and delays, any    *)
(* nesting of Run and any clock.                                           *)
(***************************************************************************)
EXTENDS MiniLoop, SequenceFacts

USE DEF vars, queueVars, pumpVars, runVars, jobVars

-----------------------------------------------------------------------------
(* A tick, and the difference of two ticks, below half the range of the      *)
(* counter, is read as itself.                                               *)
LEMMA Int32Identity ==
  ASSUME NEW n \in Int, -MaxClock <= n, n <= MaxClock, 2 * MaxClock < TickMod
  PROVE  Int32(n) = n
<1>1. CASE n >= 0
  <2>1. n % TickMod = n
    BY <1>1, ClockAssumption, TickModAssumption
  <2>2. QED BY <2>1, <1>1, ClockAssumption, TickModAssumption DEF Int32
<1>2. CASE n < 0
  <2>1. n % TickMod = TickMod + n
    BY <1>2, ClockAssumption, TickModAssumption
  <2>2. QED BY <2>1, <1>2, ClockAssumption, TickModAssumption DEF Int32
<1>3. QED BY <1>1, <1>2

LEMMA Int32Type == ASSUME NEW n \in Int PROVE Int32(n) \in Int
  BY TickModAssumption DEF Int32

LEMMA KTimeType == TypeOK => kTime \in Int
  BY Int32Type DEF TypeOK, kTime

(* The delayed queue, when it is not empty, has a top, and nothing in it     *)
(* comes before the top.                                                     *)
LEMMA TopFirst ==
  ASSUME NEW queue, queue \subseteq Parked, queue # {}
  PROVE  /\ Top(queue) \in queue
         /\ \A f \in queue : Before(Top(queue), f)
<1>1. PICK due \in {e.due : e \in queue} : \A d \in {e.due : e \in queue} : due <= d
  <2>1. {e.due : e \in queue} \subseteq Nat
    BY DEF Parked
  <2>2. {e.due : e \in queue} # {}
    OBVIOUS
  <2>3. QED BY <2>1, <2>2, NatMin
<1> DEFINE first == {e \in queue : e.due = due}
<1>2. PICK seq \in {e.seq : e \in first} : \A n \in {e.seq : e \in first} : seq <= n
  <2>1. {e.seq : e \in first} \subseteq Nat
    BY DEF Parked
  <2>2. {e.seq : e \in first} # {}
    OBVIOUS
  <2> HIDE DEF first
  <2>3. QED BY <2>1, <2>2, NatMin
<1>3. PICK e \in first : e.seq = seq
  OBVIOUS
<1>4. ASSUME NEW f \in queue PROVE Before(e, f)
  <2>1. due <= f.due
    BY <1>1
  <2>2. CASE f.due = due
    BY <2>2, <1>2, <1>3 DEF Before
  <2>3. CASE f.due # due
    <3>1. due \in Nat /\ f.due \in Nat
      BY DEF Parked
    <3>2. QED BY <2>1, <2>3, <3>1 DEF Before
  <2>4. QED BY <2>2, <2>3
<1>5. \E x \in queue : \A f \in queue : Before(x, f)
  BY <1>4
<1>6. QED BY <1>5 DEF Top

-----------------------------------------------------------------------------
(* Every reachable state is well typed.                                      *)
LEMMA InitTypeOK == Init => TypeOK
<1>1. SUFFICES ASSUME Init PROVE TypeOK
  OBVIOUS
<1>2. << >> \in Seq(Entry)
  OBVIOUS
<1>3. depth \in 0..MaxDepth
  BY <1>1, DepthAssumption DEF Init
<1>4. clock \in 0..MaxClock /\ asked \in [Jobs -> 0..MaxClock]
  BY <1>1, ClockAssumption DEF Init
<1>5. /\ call \in [Threads -> [pc : {"idle", "push", "signal", "recurse"},
                              job : Jobs \cup {NoJob}, due : Int]]
      /\ \A t \in Threads : call[t].pc = "idle"
  BY <1>1 DEF Init, NoCall
<1>6. /\ quit \in [Depths -> BOOLEAN]
      /\ running \in [Depths -> Jobs \cup {NoJob}]
      /\ caller \in [Depths -> {"DoWork", "DoDelayedWork"}]
      /\ fate \in [Jobs -> Fates]
      /\ number \in [Jobs -> Nat]
  BY <1>1 DEF Init, Fates
<1>7. /\ incoming \in Seq(Entry) /\ work \in Seq(Entry)
      /\ delayed \subseteq Parked /\ nextSeq \in Nat
      /\ signaled \in BOOLEAN /\ keepRunning \in BOOLEAN /\ delayedTime \in Int
  BY <1>1, <1>2, GarbageAssumption DEF Init
<1>8. /\ didWork = FALSE /\ deadline = 0 /\ pc = "out" /\ depth = 0 /\ pushed = 0
  BY <1>1, Zenon DEF Init
<1>9. didWork \in BOOLEAN
  BY <1>8, Zenon
<1>10. deadline \in Int /\ pc \in Pcs /\ (pc = "out" <=> depth = 0) /\ pushed \in Nat
  BY <1>8 DEF Pcs
<1>11. QED
  BY <1>3, <1>4, <1>5, <1>6, <1>7, <1>9, <1>10 DEF TypeOK

LEMMA NextTypeOK == TypeOK /\ [Next]_vars => TypeOK'
<1>0. SUFFICES ASSUME TypeOK, [Next]_vars PROVE TypeOK'
  OBVIOUS
<1>a. kTime \in Int
  BY <1>0, KTimeType
<1>b. ASSUME NEW queue, queue \subseteq Parked, queue # {}
      PROVE  Top(queue) \in queue /\ Top(queue) \in Parked
  BY <1>b, TopFirst
<1> USE <1>0, <1>a DEF TypeOK
<1>1. CASE Tick
  BY <1>1, ClockAssumption DEF Tick
<1>2. ASSUME NEW t \in Threads, NEW j \in Jobs, PostJob(t, j) PROVE TypeOK'
  BY <1>2 DEF PostJob, Fates
<1>3. ASSUME NEW t \in Threads, NEW j \in Jobs, NEW d \in Delays, PostDelayJob(t, j, d)
      PROVE  TypeOK'
  <2>1. Int32(kTime + d) \in Int
    BY Int32Type, DelaysAssumption
  <2>2. clock + d \in 0..MaxClock
    BY <1>3, DelaysAssumption, ClockAssumption DEF PostDelayJob
  <2>3. QED BY <1>3, <2>1, <2>2 DEF PostDelayJob, Fates
<1>4. ASSUME NEW t \in Threads, NEW j \in Jobs, PostDelayJobNow(t, j) PROVE TypeOK'
  BY <1>4 DEF PostDelayJobNow, Fates
<1>5. ASSUME NEW t \in Threads, Push(t) PROVE TypeOK'
  <2>1. [job |-> call[t].job, due |-> call[t].due] \in Entry
    BY <1>5 DEF Push, Entry
  <2>2. incoming' \in Seq(Entry)
    BY <1>5, <2>1 DEF Push
  <2>3. /\ call' \in [Threads -> [pc : {"idle", "push", "signal", "recurse"},
                                 job : Jobs \cup {NoJob}, due : Int]]
        /\ \A u \in Threads : call'[u].pc = "push" => call'[u].job \in Jobs
    <3>1. [call[t] EXCEPT !.pc = "signal"] =
            [pc |-> "signal", job |-> call[t].job, due |-> call[t].due]
      OBVIOUS
    <3>2. QED BY <1>5, <3>1 DEF Push, NoCall
  <2>4. fate' \in [Jobs -> Fates] /\ number' \in [Jobs -> Nat] /\ pushed' \in Nat
    BY <1>5 DEF Push, Fates
  <2>5. QED BY <1>5, <2>2, <2>3, <2>4 DEF Push
<1>6. ASSUME NEW t \in Threads, ScheduleWork(t) PROVE TypeOK'
  BY <1>6 DEF ScheduleWork, NoCall
<1>7. CASE Run
  BY <1>7, DepthAssumption DEF Run, Pcs, Depths
<1>8. CASE Quit
  BY <1>8 DEF Quit
<1>9. CASE JobReturn
  BY <1>9 DEF JobReturn, Checked, Pcs, Fates, Depths
<1>10. CASE ReloadWorkQueue
  BY <1>10 DEF ReloadWorkQueue, Checked, Pcs
<1>11. CASE DoWork
  <2>1. Head(work) \in Entry /\ Tail(work) \in Seq(Entry)
    BY <1>11, HeadTailProperties DEF DoWork
  <2>2. QED BY <1>11, <2>1 DEF DoWork, StartJob, Entry, Pcs, Fates, Depths
<1>12. CASE AddToDelayedWorkQueue
  <2>1. Head(work) \in Entry /\ Tail(work) \in Seq(Entry)
    BY <1>12, HeadTailProperties DEF AddToDelayedWorkQueue
  <2>2. delayed' \subseteq Parked
    <3>1. [job |-> Head(work).job, due |-> Head(work).due, seq |-> nextSeq] \in Parked
      BY <1>12, <2>1 DEF AddToDelayedWorkQueue, Entry, Parked
    <3>2. QED BY <1>12, <3>1 DEF AddToDelayedWorkQueue
  <2>3. delayedTime' \in Int
    BY <1>12, <2>1 DEF AddToDelayedWorkQueue, Entry
  <2>4. QED BY <1>12, <2>1, <2>2, <2>3 DEF AddToDelayedWorkQueue
<1>13. CASE DoDelayedWorkLater
  <2>1. delayedTime' \in Int
    BY <1>13, <1>b DEF DoDelayedWorkLater, Parked
  <2>2. QED BY <1>13, <2>1 DEF DoDelayedWorkLater, Checked, Pcs
<1>14. CASE DoDelayedWork
  <2>1. Top(delayed).job \in Jobs
    BY <1>14, <1>b DEF DoDelayedWork, TopIsDue, Parked
  <2>2. delayedTime' \in Int
    BY <1>14, <1>b DEF DoDelayedWork, Parked
  <2>3. QED BY <1>14, <2>1, <2>2 DEF DoDelayedWork, StartJob, Pcs, Fates, Depths
<1>15. CASE DoIdleWork
  BY <1>15 DEF DoIdleWork, Pcs
<1>16. CASE Sleep
  <2>1. Int32(delayedTime - kTime) \in Int
    BY Int32Type
  <2>2. deadline' \in Int /\ delayedTime' \in Int
    BY <1>16, <2>1 DEF Sleep
  <2>3. pc' \in Pcs /\ pc # "out" /\ pc' # "out"
    BY <1>16 DEF Sleep, Pcs
  <2>4. QED BY <1>16, <2>2, <2>3 DEF Sleep
<1>17. CASE WakeUp
  BY <1>17 DEF WakeUp, Pcs
<1>18. CASE TimeOut
  BY <1>18 DEF TimeOut, Pcs
<1>19. CASE ExitRun
  BY <1>19, DepthAssumption DEF ExitRun, Pcs
<1>20. CASE UNCHANGED vars
  BY <1>20
<1>21. QED
  BY <1>0, <1>1, <1>2, <1>3, <1>4, <1>5, <1>6, <1>7, <1>8, <1>9, <1>10, <1>11, <1>12,
     <1>13, <1>14, <1>15, <1>16, <1>17, <1>18, <1>19, <1>20 DEF Next, Post, LoopStep

THEOREM TypeCorrect == Spec => []TypeOK
<1>1. QED BY InitTypeOK, NextTypeOK, PTL DEF Spec
-----------------------------------------------------------------------------
(* The pump never sleeps on a job: NoLostWakeup is inductive as it stands,   *)
(* because the thread that finds incoming_job_ empty is the one that will    *)
(* signal, and only WakeUp resets the event, on the way to DoWork.           *)
LEMMA NextNoLostWakeup == TypeOK /\ NoLostWakeup /\ [Next]_vars => NoLostWakeup'
<1>1. SUFFICES ASSUME TypeOK, NoLostWakeup, [Next]_vars,
                      Committed', incoming' # << >>
               PROVE  signaled' \/ \E u \in Threads : call'[u].pc = "signal"
  BY DEF NoLostWakeup
<1> DEFINE Calls == [Threads -> [pc : {"idle", "push", "signal", "recurse"},
                                 job : Jobs \cup {NoJob}, due : Int]]
<1>2. call \in Calls
  BY <1>1 DEF TypeOK
<1>3. ASSUME UNCHANGED <<incoming, pc, didWork, signaled>>,
             \A u \in Threads : call[u].pc = "signal" => call'[u].pc = "signal"
      PROVE  signaled' \/ \E u \in Threads : call'[u].pc = "signal"
  BY <1>1, <1>3 DEF NoLostWakeup, Committed
<1>4. CASE Tick
  BY <1>3, <1>4 DEF Tick
<1>5. ASSUME NEW t \in Threads, Post(t)
      PROVE  signaled' \/ \E u \in Threads : call'[u].pc = "signal"
  <2>1. /\ UNCHANGED <<incoming, pc, didWork, signaled>>
        /\ call[t].pc = "idle"
        /\ \E c : call' = [call EXCEPT ![t] = c]
    BY <1>5 DEF Post, PostJob, PostDelayJob, PostDelayJobNow, MayCall
  <2>2. \A u \in Threads : call[u].pc = "signal" => call'[u].pc = "signal"
    BY <2>1, <1>2
  <2>3. QED BY <1>3, <2>1, <2>2
<1>6. ASSUME NEW t \in Threads, Push(t)
      PROVE  signaled' \/ \E u \in Threads : call'[u].pc = "signal"
  <2>1. CASE incoming = << >>
    BY <1>2, <1>6, <2>1 DEF Push
  <2>2. CASE incoming # << >>
    <3>1. \A u \in Threads : call[u].pc = "signal" => call'[u].pc = "signal"
      BY <1>2, <1>6, <2>2 DEF Push
    <3>2. Committed
      BY <1>1, <1>6 DEF Push, Committed
    <3>3. QED BY <1>1, <1>6, <2>2, <3>1, <3>2 DEF Push, NoLostWakeup
  <2>3. QED BY <2>1, <2>2
<1>7. ASSUME NEW t \in Threads, ScheduleWork(t)
      PROVE  signaled' \/ \E u \in Threads : call'[u].pc = "signal"
  BY <1>7 DEF ScheduleWork
<1>8. CASE Run
  BY <1>1, <1>8 DEF Run, Committed
<1>9. CASE Quit
  BY <1>3, <1>9 DEF Quit
<1>10. CASE JobReturn
  BY <1>1, <1>10 DEF JobReturn, Checked, Committed
<1>11. CASE ReloadWorkQueue
  BY <1>1, <1>11 DEF ReloadWorkQueue
<1>12. CASE DoWork
  BY <1>1, <1>12 DEF DoWork, StartJob, Committed
<1>13. CASE AddToDelayedWorkQueue
  BY <1>1, <1>13 DEF AddToDelayedWorkQueue, Committed
<1>14. CASE DoDelayedWorkLater
  BY <1>1, <1>14 DEF DoDelayedWorkLater, Checked, Committed, NoLostWakeup
<1>15. CASE DoDelayedWork
  BY <1>1, <1>15 DEF DoDelayedWork, StartJob, Committed
<1>16. CASE DoIdleWork
  BY <1>1, <1>16 DEF DoIdleWork, Committed, NoLostWakeup
<1>17. CASE Sleep
  BY <1>1, <1>17 DEF Sleep, Committed, NoLostWakeup
<1>18. CASE WakeUp
  BY <1>1, <1>18 DEF WakeUp, Committed
<1>19. CASE TimeOut
  BY <1>1, <1>19 DEF TimeOut, Committed
<1>20. CASE ExitRun
  BY <1>1, <1>20 DEF ExitRun, Committed
<1>21. CASE UNCHANGED vars
  BY <1>3, <1>21
<1>22. QED
  BY <1>1, <1>4, <1>5, <1>6, <1>7, <1>8, <1>9, <1>10, <1>11, <1>12, <1>13, <1>14, <1>15,
     <1>16, <1>17, <1>18, <1>19, <1>20, <1>21 DEF Next, LoopStep

(* No wake-up is lost, whatever the number of posting threads.               *)
THEOREM WakeupsKept == Spec => []NoLostWakeup
<1>1. Init => NoLostWakeup
  BY DEF Init, NoLostWakeup
<1>2. QED BY <1>1, TypeCorrect, NextNoLostWakeup, PTL DEF Spec

-----------------------------------------------------------------------------
(* keep_running_ is cleared only between DoIdleWork and the end of the Run.  *)
StoppedAtExit == keepRunning \/ pc = "exit"

(* Every Run starts with keep_running_ set, and the pump goes to sleep with  *)
(* work_job_ empty.                                                          *)
LEMMA NextDrained ==
  StoppedAtExit /\ IdleImpliesDrained /\ [Next]_vars => (StoppedAtExit /\ IdleImpliesDrained)'
<1>1. SUFFICES ASSUME StoppedAtExit, IdleImpliesDrained, [Next]_vars
               PROVE  (StoppedAtExit /\ IdleImpliesDrained)'
  OBVIOUS
<1> USE <1>1 DEF StoppedAtExit, IdleImpliesDrained, Committed
<1>2. CASE Tick
  BY <1>2 DEF Tick
<1>3. ASSUME NEW t \in Threads, Post(t) \/ Push(t) \/ ScheduleWork(t)
      PROVE  (StoppedAtExit /\ IdleImpliesDrained)'
  BY <1>3 DEF Post, PostJob, PostDelayJob, PostDelayJobNow, Push, ScheduleWork
<1>4. CASE Run
  BY <1>4 DEF Run
<1>5. CASE Quit
  BY <1>5 DEF Quit
<1>6. CASE JobReturn
  BY <1>6 DEF JobReturn, Checked
<1>7. CASE ReloadWorkQueue
  BY <1>7 DEF ReloadWorkQueue, Checked
<1>8. CASE DoWork
  BY <1>8 DEF DoWork, StartJob
<1>9. CASE AddToDelayedWorkQueue
  BY <1>9 DEF AddToDelayedWorkQueue
<1>10. CASE DoDelayedWorkLater
  BY <1>10 DEF DoDelayedWorkLater, Checked
<1>11. CASE DoDelayedWork
  BY <1>11 DEF DoDelayedWork, StartJob
<1>12. CASE DoIdleWork
  BY <1>12 DEF DoIdleWork
<1>13. CASE Sleep
  BY <1>13 DEF Sleep
<1>14. CASE WakeUp
  BY <1>14 DEF WakeUp
<1>15. CASE TimeOut
  BY <1>15 DEF TimeOut
<1>16. CASE ExitRun
  BY <1>16 DEF ExitRun
<1>17. CASE UNCHANGED vars
  BY <1>17
<1>18. QED
  BY <1>2, <1>3, <1>4, <1>5, <1>6, <1>7, <1>8, <1>9, <1>10, <1>11, <1>12, <1>13, <1>14,
     <1>15, <1>16, <1>17 DEF Next, LoopStep

(* The assertion of MiniPumpDefault::Run never fails, and a pump about to    *)
(* sleep has run everything it took from incoming_job_.                      *)
THEOREM PumpDrains == Spec => []RunAssertion /\ []IdleImpliesDrained
<1>1. Init => StoppedAtExit /\ IdleImpliesDrained
  BY DEF Init, StoppedAtExit, IdleImpliesDrained, Committed
<1>2. StoppedAtExit => RunAssertion
  BY DEF StoppedAtExit, RunAssertion
<1>3. QED BY <1>1, <1>2, NextDrained, PTL DEF Spec
-----------------------------------------------------------------------------
(* The inductive invariant of the queues, in four parts.                     *)

(* A job on its way to the queue carries the time it asked for, and no two   *)
(* threads carry the same job.                                               *)
CallInv ==
  /\ \A t \in Threads : call[t].pc = "push" =>
       fate[call[t].job] = "posting" /\ call[t].due = asked[call[t].job]
  /\ \A t, u \in Threads :
       call[t].pc = "push" /\ call[u].pc = "push" /\ t # u => call[t].job # call[u].job
  /\ \A j \in Jobs : fate[j] = "new" => asked[j] = 0

(* The queues hold the pending jobs, each with the time it asked for.        *)
Kept(e) == fate[e.job] = "queued" /\ e.due = asked[e.job]

EntryInv ==
  /\ \A i \in 1..Len(incoming) : Kept(incoming[i])
  /\ \A i \in 1..Len(work) : Kept(work[i])
  /\ \A e \in delayed : Kept(e)
  /\ \A j \in Jobs : fate[j] = "queued" =>
       \/ \E i \in 1..Len(incoming) : incoming[i].job = j
       \/ \E i \in 1..Len(work) : work[i].job = j
       \/ \E e \in delayed : e.job = j

(* They hold them in the order of posting: first the delayed ones, by their  *)
(* sequence numbers, then work_job_, then incoming_job_.                     *)
Rank(e) == number[e.job]

OrderInv ==
  /\ \A j \in Jobs : number[j] <= pushed
  /\ \A i, k \in 1..Len(incoming) : i < k => Rank(incoming[i]) < Rank(incoming[k])
  /\ \A i, k \in 1..Len(work) : i < k => Rank(work[i]) < Rank(work[k])
  /\ \A i \in 1..Len(work), k \in 1..Len(incoming) : Rank(work[i]) < Rank(incoming[k])
  /\ \A e \in delayed : /\ \A i \in 1..Len(work) : Rank(e) < Rank(work[i])
                        /\ \A k \in 1..Len(incoming) : Rank(e) < Rank(incoming[k])
                        /\ e.seq < nextSeq
  /\ \A e, f \in delayed : e.seq < f.seq => Rank(e) < Rank(f)
  /\ \A e, f \in delayed : e.seq = f.seq => e = f

(* The Runs in progress execute different jobs.                              *)
Executing(d) == d < depth \/ (d = depth /\ pc = "job")

RunningInv ==
  /\ \A d \in Depths : Executing(d) => running[d] \in Jobs /\ fate[running[d]] = "running"
  /\ \A c, d \in Depths : Executing(c) /\ Executing(d) /\ c # d => running[c] # running[d]

(* Once DoDelayedWork has returned false the pump knows the top's due time.  *)
SleepInv ==
  /\ pc \in {"DoIdleWork", "sleep"} =>
       IF delayed = {} THEN delayedTime = 0 ELSE delayedTime = Top(delayed).due
  /\ pc = "TimedWait" => \A e \in delayed : deadline <= e.due
  /\ pc = "Wait" => delayed = {}

LoopInv == TypeOK /\ CallInv /\ EntryInv /\ OrderInv /\ RunningInv

(* The counter of ticks does not reach half its range.                       *)
NoWrap == 2 * MaxClock < TickMod

LEMMA KTimeIsClock == NoWrap /\ TypeOK => kTime = clock
  BY Int32Identity, ClockAssumption DEF TypeOK, kTime, NoWrap

(* The jobs an action starts or ends were pending or running before.         *)
LEMMA HeadOfWork ==
  ASSUME TypeOK, EntryInv, work # << >>
  PROVE  /\ Head(work) = work[1] /\ Head(work) \in Entry /\ Kept(Head(work))
         /\ Len(Tail(work)) = Len(work) - 1
         /\ \A i \in 1..Len(Tail(work)) : Tail(work)[i] = work[i + 1]
<1>1. work \in Seq(Entry) /\ Len(work) \in Nat \ {0}
  BY EmptySeq DEF TypeOK
<1>2. QED BY <1>1, HeadTailProperties DEF EntryInv

LEMMA TopOfDelayed ==
  ASSUME TypeOK, EntryInv, delayed # {}
  PROVE  /\ Top(delayed) \in delayed /\ Top(delayed) \in Parked /\ Kept(Top(delayed))
         /\ \A f \in delayed : Before(Top(delayed), f)
  BY TopFirst DEF TypeOK, EntryInv

LEMMA Innermost ==
  ASSUME TypeOK, RunningInv, pc = "job"
  PROVE  /\ depth \in Depths /\ Executing(depth)
         /\ running[depth] \in Jobs /\ fate[running[depth]] = "running"
  BY DepthAssumption DEF TypeOK, RunningInv, Executing, Depths

LEMMA NextCallInv == NoWrap /\ LoopInv /\ [Next]_vars => CallInv'
<1>0. SUFFICES ASSUME NoWrap, LoopInv, [Next]_vars PROVE CallInv'
  OBVIOUS
<1> USE <1>0 DEF LoopInv
<1> DEFINE Calls == [Threads -> [pc : {"idle", "push", "signal", "recurse"},
                                 job : Jobs \cup {NoJob}, due : Int]]
<1>1. /\ call \in Calls /\ fate \in [Jobs -> Fates] /\ asked \in [Jobs -> 0..MaxClock]
      /\ \A t \in Threads : call[t].pc = "push" => call[t].job \in Jobs
  BY DEF TypeOK
<1>2. ASSUME UNCHANGED <<call, fate, asked>> PROVE CallInv'
  BY <1>2 DEF CallInv
<1>3. ASSUME NEW j \in Jobs, fate[j] \in {"queued", "running"},
             fate' = [fate EXCEPT ![j] = "running"] \/ fate' = [fate EXCEPT ![j] = "done"],
             UNCHANGED <<call, asked>>
      PROVE  CallInv'
  BY <1>1, <1>3 DEF CallInv
<1>4. CASE Tick \/ Run \/ Quit
  BY <1>2, <1>4 DEF Tick, Run, Quit
<1>5. ASSUME NEW t \in Threads, NEW j \in Jobs, PostJob(t, j) PROVE CallInv'
  BY <1>1, <1>5 DEF PostJob, CallInv
<1>6. ASSUME NEW t \in Threads, NEW j \in Jobs, NEW d \in Delays, PostDelayJob(t, j, d)
      PROVE  CallInv'
  <2>1. Int32(kTime + d) = clock + d
    BY <1>6, KTimeIsClock, Int32Identity, DelaysAssumption, ClockAssumption
    DEF PostDelayJob, NoWrap, TypeOK
  <2>2. QED BY <1>1, <1>6, <2>1 DEF PostDelayJob, CallInv
<1>7. ASSUME NEW t \in Threads, NEW j \in Jobs, PostDelayJobNow(t, j) PROVE CallInv'
  BY <1>1, <1>7 DEF PostDelayJobNow, CallInv
<1>8. ASSUME NEW t \in Threads, Push(t) PROVE CallInv'
  <2>1. \A u \in Threads : call'[u].pc = "push" => u # t /\ call'[u] = call[u]
    BY <1>1, <1>8 DEF Push, NoCall
  <2>2. QED BY <1>1, <1>8, <2>1 DEF Push, CallInv
<1>9. ASSUME NEW t \in Threads, ScheduleWork(t) PROVE CallInv'
  BY <1>1, <1>9 DEF ScheduleWork, NoCall, CallInv
<1>10. CASE JobReturn
  BY <1>3, <1>10, Innermost DEF JobReturn
<1>11. CASE DoWork
  BY <1>3, <1>11, HeadOfWork DEF DoWork, StartJob, Kept, Entry
<1>12. CASE DoDelayedWork
  BY <1>3, <1>12, TopOfDelayed DEF DoDelayedWork, StartJob, TopIsDue, Kept, Parked
<1>13. CASE \/ ReloadWorkQueue \/ AddToDelayedWorkQueue \/ DoDelayedWorkLater
            \/ DoIdleWork \/ Sleep \/ WakeUp \/ TimeOut \/ ExitRun
  BY <1>2, <1>13 DEF ReloadWorkQueue, AddToDelayedWorkQueue, DoDelayedWorkLater,
                     DoIdleWork, Sleep, WakeUp, TimeOut, ExitRun
<1>14. CASE UNCHANGED vars
  BY <1>2, <1>14
<1>15. QED
  BY <1>4, <1>5, <1>6, <1>7, <1>8, <1>9, <1>10, <1>11, <1>12, <1>13, <1>14
  DEF Next, Post, LoopStep

(* What a Push, a swap and a pop make of the queues.                         *)
LEMMA PushedQueue ==
  ASSUME TypeOK, NEW t \in Threads, Push(t)
  PROVE  LET n == Len(incoming)
         IN  /\ n \in Nat /\ Len(incoming') = n + 1
             /\ \A i \in 1..n : incoming'[i] = incoming[i]
             /\ incoming'[n + 1] = [job |-> call[t].job, due |-> call[t].due]
<1>1. incoming \in Seq(Entry) /\ [job |-> call[t].job, due |-> call[t].due] \in Entry
  BY DEF TypeOK, Push, Entry
<1>2. QED BY <1>1, AppendProperties, LenProperties DEF Push

LEMMA EntriesAreJobs ==
  ASSUME TypeOK
  PROVE  /\ Len(incoming) \in Nat /\ \A i \in 1..Len(incoming) : incoming[i].job \in Jobs
         /\ Len(work) \in Nat /\ \A i \in 1..Len(work) : work[i].job \in Jobs
         /\ \A e \in delayed : e.job \in Jobs /\ e.seq \in Nat /\ e.due \in Nat \ {0}
<1>1. incoming \in Seq(Entry) /\ work \in Seq(Entry) /\ delayed \subseteq Parked
  BY DEF TypeOK
<1>2. /\ Len(incoming) \in Nat /\ \A i \in 1..Len(incoming) : incoming[i] \in Entry
      /\ Len(work) \in Nat /\ \A i \in 1..Len(work) : work[i] \in Entry
  BY <1>1, ElementOfSeq, LenProperties
<1>3. QED BY <1>1, <1>2 DEF Entry, Parked

LEMMA NextEntryInv == LoopInv /\ [Next]_vars => EntryInv'
<1>0. SUFFICES ASSUME LoopInv, [Next]_vars PROVE EntryInv'
  OBVIOUS
<1> USE <1>0 DEF LoopInv
<1>1. /\ fate \in [Jobs -> Fates] /\ asked \in [Jobs -> 0..MaxClock]
      /\ number \in [Jobs -> Nat]
      /\ \A t \in Threads : call[t].pc = "push" => call[t].job \in Jobs
  BY DEF TypeOK
<1>2. ASSUME UNCHANGED <<incoming, work, delayed, fate, asked>> PROVE EntryInv'
  BY <1>2 DEF EntryInv, Kept
<1>3. ASSUME NEW j \in Jobs, fate[j] = "new", fate' = [fate EXCEPT ![j] = "posting"],
             \A k \in Jobs : k # j => asked'[k] = asked[k],
             UNCHANGED <<incoming, work, delayed>>
      PROVE  EntryInv'
  BY <1>1, <1>3, EntriesAreJobs DEF EntryInv, Kept
<1>4. CASE Tick \/ Run \/ Quit
  BY <1>2, <1>4 DEF Tick, Run, Quit
<1>5. ASSUME NEW t \in Threads, Post(t) PROVE EntryInv'
  BY <1>1, <1>3, <1>5 DEF Post, PostJob, PostDelayJob, PostDelayJobNow
<1>6. ASSUME NEW t \in Threads, Push(t) PROVE EntryInv'
  <2>1. /\ call[t].job \in Jobs /\ fate[call[t].job] = "posting"
        /\ call[t].due = asked[call[t].job]
    BY <1>1, <1>6 DEF Push, CallInv
  <2>2. /\ fate' = [fate EXCEPT ![call[t].job] = "queued"] /\ asked' = asked
        /\ work' = work /\ delayed' = delayed
    BY <1>6 DEF Push
  <2>3. /\ Len(incoming) \in Nat /\ Len(incoming') = Len(incoming) + 1
        /\ \A i \in 1..Len(incoming) : incoming'[i] = incoming[i]
        /\ incoming'[Len(incoming) + 1] = [job |-> call[t].job, due |-> call[t].due]
    BY <1>6, PushedQueue
  <2>4. \A i \in 1..Len(incoming') : Kept(incoming[i])'
    <3>1. TAKE i \in 1..Len(incoming')
    <3>2. CASE i \in 1..Len(incoming)
      <4>1. Kept(incoming[i]) /\ incoming[i].job \in Jobs /\ incoming'[i] = incoming[i]
        BY <2>3, <3>2, EntriesAreJobs DEF EntryInv
      <4>2. QED BY <1>1, <2>1, <2>2, <4>1 DEF Kept
    <3>3. CASE i = Len(incoming) + 1
      BY <1>1, <2>1, <2>2, <2>3, <3>3 DEF Kept
    <3>4. QED BY <2>3, <3>2, <3>3
  <2>5. /\ \A i \in 1..Len(work') : Kept(work[i])'
        /\ \A e \in delayed' : Kept(e)'
    BY <1>1, <2>1, <2>2, EntriesAreJobs DEF EntryInv, Kept
  <2>6. ASSUME NEW j \in Jobs, fate'[j] = "queued"
        PROVE  \/ \E i \in 1..Len(incoming') : incoming'[i].job = j
               \/ \E i \in 1..Len(work') : work'[i].job = j
               \/ \E e \in delayed' : e.job = j
    <3>1. CASE j = call[t].job
      BY <2>3, <3>1
    <3>2. CASE j # call[t].job
      <4>1. fate[j] = "queued"
        BY <1>1, <2>1, <2>2, <2>6, <3>2
      <4>2. ASSUME NEW i \in 1..Len(incoming), incoming[i].job = j
            PROVE  i \in 1..Len(incoming') /\ incoming'[i].job = j
        BY <2>3, <4>2
      <4>3. QED BY <2>2, <4>1, <4>2 DEF EntryInv
    <3>3. QED BY <3>1, <3>2
  <2>7. QED BY <2>4, <2>5, <2>6 DEF EntryInv
<1>7. ASSUME NEW t \in Threads, ScheduleWork(t) PROVE EntryInv'
  BY <1>2, <1>7 DEF ScheduleWork
<1>8. CASE JobReturn
  <2>1. fate' = [fate EXCEPT ![running[depth]] = "done"]
        /\ UNCHANGED <<incoming, work, delayed, asked>>
    BY <1>8 DEF JobReturn
  <2>2. running[depth] \in Jobs /\ fate[running[depth]] = "running"
    BY <1>8, Innermost DEF JobReturn
  <2>3. QED BY <1>1, <2>1, <2>2, EntriesAreJobs DEF EntryInv, Kept
<1>9. CASE ReloadWorkQueue
  <2>1. /\ work = << >> /\ work' = incoming /\ incoming' = << >>
        /\ UNCHANGED <<delayed, fate, asked>>
    BY <1>9 DEF ReloadWorkQueue
  <2>2. QED BY <2>1 DEF EntryInv, Kept
<1>10. CASE DoWork
  <2> DEFINE j == Head(work).job
  <2>1. /\ work # << >> /\ work' = Tail(work) /\ fate' = [fate EXCEPT ![j] = "running"]
        /\ UNCHANGED <<incoming, delayed, asked>>
    BY <1>10 DEF DoWork, StartJob
  <2>2. /\ j = work[1].job /\ j \in Jobs
        /\ Len(work') = Len(work) - 1
        /\ \A i \in 1..Len(work') : work'[i] = work[i + 1]
    BY <2>1, HeadOfWork DEF Entry
  <2>3. /\ \A i \in 1..Len(incoming) : incoming[i].job # j
        /\ \A i \in 2..Len(work) : work[i].job # j
        /\ \A e \in delayed : e.job # j
    <3>1. Len(work) \in Nat \ {0}
      BY <2>1, EmptySeq DEF TypeOK
    <3>2. 1 \in 1..Len(work) /\ number[j] \in Nat
      BY <1>1, <2>2, <3>1
    <3>3. \A i \in 1..Len(incoming) : number[j] < number[incoming[i].job]
      BY <2>2, <3>2 DEF OrderInv, Rank
    <3>4. \A i \in 2..Len(work) : number[j] < number[work[i].job]
      BY <2>2, <3>1, <3>2 DEF OrderInv, Rank
    <3>5. \A e \in delayed : number[e.job] < number[j]
      BY <2>2, <3>2 DEF OrderInv, Rank
    <3>6. QED BY <3>2, <3>3, <3>4, <3>5
  <2>4. Len(work) \in Nat
    BY EntriesAreJobs
  <2> HIDE DEF j
  <2>5. /\ \A i \in 1..Len(incoming') : Kept(incoming[i])'
        /\ \A e \in delayed' : Kept(e)'
    BY <1>1, <2>1, <2>3, EntriesAreJobs DEF EntryInv, Kept
  <2>6. \A i \in 1..Len(work') : Kept(work[i])'
    <3>1. TAKE i \in 1..Len(work')
    <3>2. i + 1 \in 2..Len(work) /\ work'[i] = work[i + 1]
      BY <2>2, <2>4
    <3>3. Kept(work[i + 1]) /\ work[i + 1].job \in Jobs /\ work[i + 1].job # j
      BY <2>3, <3>2, EntriesAreJobs DEF EntryInv
    <3>4. QED BY <1>1, <2>1, <3>2, <3>3 DEF Kept
  <2>7. ASSUME NEW k \in Jobs, fate'[k] = "queued"
        PROVE  \/ \E i \in 1..Len(incoming') : incoming'[i].job = k
               \/ \E i \in 1..Len(work') : work'[i].job = k
               \/ \E e \in delayed' : e.job = k
    <3>1. fate[k] = "queued" /\ k # j
      BY <1>1, <2>1, <2>2, <2>7
    <3>2. ASSUME NEW i \in 1..Len(work), work[i].job = k
          PROVE  i - 1 \in 1..Len(work') /\ work'[i - 1].job = k
      BY <2>2, <2>4, <3>1, <3>2
    <3>3. QED BY <2>1, <3>1, <3>2 DEF EntryInv
  <2>8. QED BY <2>5, <2>6, <2>7 DEF EntryInv
<1>11. CASE AddToDelayedWorkQueue
  <2> DEFINE entry == [job |-> Head(work).job, due |-> Head(work).due, seq |-> nextSeq]
  <2>1. /\ work # << >> /\ work' = Tail(work) /\ delayed' = delayed \cup {entry}
        /\ UNCHANGED <<incoming, fate, asked>>
    BY <1>11 DEF AddToDelayedWorkQueue
  <2>2. /\ Head(work) = work[1] /\ Kept(Head(work))
        /\ Len(work') = Len(work) - 1
        /\ \A i \in 1..Len(work') : work'[i] = work[i + 1]
    BY <2>1, HeadOfWork
  <2>3. entry.job = Head(work).job /\ entry.due = Head(work).due
    OBVIOUS
  <2>4. Len(work) \in Nat
    BY EntriesAreJobs
  <2> HIDE DEF entry
  <2>5. /\ \A i \in 1..Len(incoming') : Kept(incoming[i])'
        /\ \A i \in 1..Len(work') : Kept(work[i])'
        /\ \A e \in delayed' : Kept(e)'
    <3>1. \A i \in 1..Len(incoming') : Kept(incoming[i])'
      BY <2>1 DEF EntryInv, Kept
    <3>2. ASSUME NEW i \in 1..Len(work') PROVE Kept(work[i])'
      <4>1. i + 1 \in 1..Len(work) /\ work'[i] = work[i + 1]
        BY <2>2, <2>4
      <4>2. QED BY <2>1, <4>1 DEF EntryInv, Kept
    <3>3. ASSUME NEW e \in delayed' PROVE Kept(e)'
      BY <2>1, <2>2, <2>3 DEF EntryInv, Kept
    <3>4. QED BY <3>1, <3>2, <3>3
  <2>6. ASSUME NEW j \in Jobs, fate'[j] = "queued"
        PROVE  \/ \E i \in 1..Len(incoming') : incoming'[i].job = j
               \/ \E i \in 1..Len(work') : work'[i].job = j
               \/ \E e \in delayed' : e.job = j
    <3>1. ASSUME NEW i \in 1..Len(work), work[i].job = j, i # 1
          PROVE  i - 1 \in 1..Len(work') /\ work'[i - 1].job = j
      BY <2>2, <2>4, <3>1
    <3>2. ASSUME NEW i \in 1..Len(work), work[i].job = j, i = 1
          PROVE  entry \in delayed' /\ entry.job = j
      BY <2>1, <2>2, <2>3, <3>2
    <3>3. fate[j] = "queued"
      BY <2>1, <2>6
    <3>4. QED BY <2>1, <3>1, <3>2, <3>3 DEF EntryInv
  <2>7. QED BY <2>5, <2>6 DEF EntryInv
<1>12. CASE DoDelayedWork
  <2> DEFINE top == Top(delayed)
  <2>1. /\ delayed # {} /\ delayed' = delayed \ {top}
        /\ fate' = [fate EXCEPT ![top.job] = "running"]
        /\ UNCHANGED <<incoming, work, asked>>
    BY <1>12 DEF DoDelayedWork, StartJob, TopIsDue
  <2>2. top \in delayed /\ top.job \in Jobs
    BY <2>1, TopOfDelayed, EntriesAreJobs
  <2> HIDE DEF top
  <2>3. /\ \A i \in 1..Len(incoming) : incoming[i].job # top.job
        /\ \A i \in 1..Len(work) : work[i].job # top.job
        /\ \A e \in delayed : e # top => e.job # top.job
    <3>1. number[top.job] \in Nat
      BY <1>1, <2>2
    <3>2. /\ \A i \in 1..Len(incoming) : number[top.job] < number[incoming[i].job]
          /\ \A i \in 1..Len(work) : number[top.job] < number[work[i].job]
      BY <2>2 DEF OrderInv, Rank
    <3>3. ASSUME NEW e \in delayed, e # top PROVE e.job # top.job
      <4>1. e.seq < top.seq \/ top.seq < e.seq
        BY <2>2, <3>3, EntriesAreJobs DEF OrderInv
      <4>2. number[e.job] < number[top.job] \/ number[top.job] < number[e.job]
        BY <2>2, <4>1 DEF OrderInv, Rank
      <4>3. QED BY <3>1, <4>2
    <3>4. QED BY <3>1, <3>2, <3>3
  <2>4. QED BY <1>1, <2>1, <2>2, <2>3, EntriesAreJobs DEF EntryInv, Kept
<1>13. CASE DoDelayedWorkLater \/ DoIdleWork \/ Sleep \/ WakeUp \/ TimeOut \/ ExitRun
  BY <1>2, <1>13 DEF DoDelayedWorkLater, DoIdleWork, Sleep, WakeUp, TimeOut, ExitRun
<1>14. CASE UNCHANGED vars
  BY <1>2, <1>14
<1>15. QED
  BY <1>4, <1>5, <1>6, <1>7, <1>8, <1>9, <1>10, <1>11, <1>12, <1>13, <1>14
  DEF Next, LoopStep

LEMMA NextOrderInv == LoopInv /\ [Next]_vars => OrderInv'
<1>0. SUFFICES ASSUME LoopInv, [Next]_vars PROVE OrderInv'
  OBVIOUS
<1> USE <1>0 DEF LoopInv
<1>1. /\ fate \in [Jobs -> Fates] /\ number \in [Jobs -> Nat] /\ pushed \in Nat
      /\ nextSeq \in Nat
      /\ \A t \in Threads : call[t].pc = "push" => call[t].job \in Jobs
  BY DEF TypeOK
<1>2. ASSUME UNCHANGED <<incoming, work, delayed, nextSeq, number, pushed>> PROVE OrderInv'
  BY <1>2 DEF OrderInv, Rank
<1>3. CASE Tick \/ Run \/ Quit
  BY <1>2, <1>3 DEF Tick, Run, Quit
<1>4. ASSUME NEW t \in Threads, Post(t) \/ ScheduleWork(t) PROVE OrderInv'
  BY <1>2, <1>4 DEF Post, PostJob, PostDelayJob, PostDelayJobNow, ScheduleWork
<1>5. ASSUME NEW t \in Threads, Push(t) PROVE OrderInv'
  <2>a. PICK k \in Jobs : k = call[t].job
    BY <1>1, <1>5 DEF Push
  <2>b. PICK n \in Nat : n = Len(incoming)
    BY EntriesAreJobs
  <2>1. /\ k \in Jobs /\ fate[k] = "posting"
        /\ UNCHANGED <<work, delayed, nextSeq>>
        /\ pushed' = pushed + 1 /\ number' = [number EXCEPT ![k] = pushed + 1]
    BY <1>1, <1>5, <2>a DEF Push, CallInv
  <2>2. /\ n \in Nat /\ Len(incoming') = n + 1
        /\ \A i \in 1..n : incoming'[i] = incoming[i]
        /\ incoming'[n + 1].job = k
    <3>1. /\ Len(incoming') = Len(incoming) + 1
          /\ \A i \in 1..Len(incoming) : incoming'[i] = incoming[i]
          /\ incoming'[Len(incoming) + 1] = [job |-> call[t].job, due |-> call[t].due]
      BY <1>5, PushedQueue
    <3>2. QED BY <2>a, <2>b, <3>1
  <2>3. /\ \A i \in 1..n : incoming[i].job # k /\ incoming[i].job \in Jobs
        /\ \A i \in 1..Len(work) : work[i].job # k /\ work[i].job \in Jobs
        /\ \A e \in delayed : e.job # k /\ e.job \in Jobs
    BY <2>1, <2>b, EntriesAreJobs DEF EntryInv, Kept
  <2>4. /\ \A i \in 1..n : Rank(incoming[i])' = Rank(incoming[i])
        /\ \A i \in 1..Len(work) : Rank(work[i])' = Rank(work[i])
        /\ \A e \in delayed : Rank(e)' = Rank(e)
        /\ Rank(incoming[n + 1])' = pushed + 1
    BY <1>1, <2>1, <2>2, <2>3 DEF Rank
  <2>5. /\ \A i \in 1..n : Rank(incoming[i]) < pushed + 1
        /\ \A i \in 1..Len(work) : Rank(work[i]) < pushed + 1
        /\ \A e \in delayed : Rank(e) < pushed + 1
    BY <1>1, <2>3, <2>b DEF OrderInv, Rank
  <2>6. \A j \in Jobs : number'[j] <= pushed'
    BY <1>1, <2>1 DEF OrderInv
  <2>7. ASSUME NEW i \in 1..Len(incoming'), NEW m \in 1..Len(incoming'), i < m
        PROVE  Rank(incoming[i])' < Rank(incoming[m])'
    <3>1. CASE m \in 1..n
      BY <2>2, <2>4, <2>7, <3>1, <2>b DEF OrderInv
    <3>2. CASE m = n + 1
      BY <2>2, <2>4, <2>5, <2>7, <3>2
    <3>3. QED BY <2>2, <3>1, <3>2
  <2>8. ASSUME NEW i \in 1..Len(work'), NEW m \in 1..Len(incoming')
        PROVE  Rank(work[i])' < Rank(incoming[m])'
    <3>1. CASE m \in 1..n
      BY <2>1, <2>4, <3>1, <2>b DEF OrderInv
    <3>2. CASE m = n + 1
      BY <2>1, <2>4, <2>5, <3>2
    <3>3. QED BY <2>2, <3>1, <3>2
  <2>9. ASSUME NEW e \in delayed', NEW m \in 1..Len(incoming')
        PROVE  Rank(e)' < Rank(incoming[m])'
    <3>1. CASE m \in 1..n
      BY <2>1, <2>4, <3>1, <2>b DEF OrderInv
    <3>2. CASE m = n + 1
      BY <2>1, <2>4, <2>5, <3>2
    <3>3. QED BY <2>2, <3>1, <3>2
  <2>10. /\ \A i, m \in 1..Len(work') : i < m => Rank(work[i])' < Rank(work[m])'
         /\ \A e \in delayed' : /\ \A i \in 1..Len(work') : Rank(e)' < Rank(work[i])'
                                /\ e.seq < nextSeq'
         /\ \A e, f \in delayed' : e.seq < f.seq => Rank(e)' < Rank(f)'
         /\ \A e, f \in delayed' : e.seq = f.seq => e = f
    BY <2>1, <2>4 DEF OrderInv
  <2>11. QED BY <2>6, <2>7, <2>8, <2>9, <2>10 DEF OrderInv
<1>6. CASE JobReturn
  BY <1>2, <1>6 DEF JobReturn
<1>7. CASE ReloadWorkQueue
  <2>1. /\ work = << >> /\ work' = incoming /\ incoming' = << >>
        /\ UNCHANGED <<delayed, nextSeq, number, pushed>>
    BY <1>7 DEF ReloadWorkQueue
  <2>2. QED BY <2>1 DEF OrderInv, Rank
<1>8. ASSUME work # << >>, work' = Tail(work),
             UNCHANGED <<incoming, number, pushed>>
      PROVE  /\ \A i \in 1..Len(work') : i + 1 \in 1..Len(work) /\ work'[i] = work[i + 1]
             /\ \A i, m \in 1..Len(work') : i < m => Rank(work[i])' < Rank(work[m])'
             /\ \A i \in 1..Len(work'), m \in 1..Len(incoming') :
                  Rank(work[i])' < Rank(incoming[m])'
  <2>1. Len(work) \in Nat /\ Len(work') = Len(work) - 1
        /\ \A i \in 1..Len(work') : work'[i] = work[i + 1]
    BY <1>8, HeadOfWork, EntriesAreJobs
  <2>2. \A i \in 1..Len(work') : i + 1 \in 1..Len(work) /\ Rank(work[i])' = Rank(work[i + 1])
    <3>1. number' = number
      BY <1>8
    <3>2. QED BY <2>1, <3>1 DEF Rank
  <2>3. \A i \in 1..Len(incoming') : Rank(incoming[i])' = Rank(incoming[i])
    BY <1>8 DEF Rank
  <2>4. ASSUME NEW i \in 1..Len(work'), NEW m \in 1..Len(work'), i < m
        PROVE  Rank(work[i])' < Rank(work[m])'
    <3>1. i + 1 < m + 1
      BY <2>1, <2>4
    <3>2. QED BY <2>2, <3>1 DEF OrderInv
  <2>5. ASSUME NEW i \in 1..Len(work'), NEW m \in 1..Len(incoming')
        PROVE  Rank(work[i])' < Rank(incoming[m])'
    BY <1>8, <2>2, <2>3 DEF OrderInv
  <2>6. QED BY <2>1, <2>2, <2>4, <2>5
<1>9. CASE DoWork
  <2>1. work # << >> /\ work' = Tail(work)
        /\ UNCHANGED <<incoming, delayed, nextSeq, number, pushed>>
    BY <1>9 DEF DoWork, StartJob
  <2>2. QED BY <1>8, <2>1 DEF OrderInv, Rank
<1>10. CASE AddToDelayedWorkQueue
  <2>a. PICK entry : entry = [job |-> Head(work).job, due |-> Head(work).due, seq |-> nextSeq]
    OBVIOUS
  <2>1. /\ work # << >> /\ work' = Tail(work) /\ delayed' = delayed \cup {entry}
        /\ nextSeq' = nextSeq + 1 /\ UNCHANGED <<incoming, number, pushed>>
    BY <1>10, <2>a DEF AddToDelayedWorkQueue
  <2>2. /\ Head(work) = work[1] /\ Len(work) \in Nat \ {0}
        /\ Len(work') = Len(work) - 1
        /\ \A i \in 1..Len(work') : work'[i] = work[i + 1]
    BY <2>1, HeadOfWork, EmptySeq DEF TypeOK
  <2>3. entry.job = work[1].job /\ entry.seq = nextSeq
    BY <2>2, <2>a
  <2>4. /\ 1 \in 1..Len(work)
        /\ \A i \in 1..Len(work') : i + 1 \in 1..Len(work) /\ 1 < i + 1
    BY <2>2
  <2>5. /\ \A e \in delayed : Rank(e)' = Rank(e) /\ e.seq < nextSeq /\ e.seq \in Nat
        /\ Rank(entry)' = Rank(work[1])
        /\ \A i \in 1..Len(work') : Rank(work[i])' = Rank(work[i + 1])
        /\ \A i \in 1..Len(incoming') : Rank(incoming[i])' = Rank(incoming[i])
    BY <2>1, <2>2, <2>3, EntriesAreJobs DEF Rank, OrderInv
  <2>6. ASSUME NEW e \in delayed'
        PROVE  /\ \A i \in 1..Len(work') : Rank(e)' < Rank(work[i])'
               /\ \A i \in 1..Len(incoming') : Rank(e)' < Rank(incoming[i])'
               /\ e.seq < nextSeq'
    <3>1. CASE e \in delayed
      BY <1>1, <2>1, <2>4, <2>5, <3>1 DEF OrderInv
    <3>2. CASE e = entry
      BY <1>1, <2>1, <2>3, <2>4, <2>5, <3>2 DEF OrderInv
    <3>3. QED BY <2>1, <3>1, <3>2
  <2>7. ASSUME NEW e \in delayed', NEW f \in delayed'
        PROVE  (e.seq < f.seq => Rank(e)' < Rank(f)') /\ (e.seq = f.seq => e = f)
    <3>1. CASE e \in delayed /\ f \in delayed
      BY <2>5, <3>1 DEF OrderInv
    <3>2. CASE e \in delayed /\ f = entry
      BY <1>1, <2>3, <2>4, <2>5, <3>2 DEF OrderInv
    <3>3. CASE e = entry /\ f \in delayed
      BY <1>1, <2>3, <2>5, <3>3
    <3>4. CASE e = entry /\ f = entry
      BY <1>1, <2>3, <3>4
    <3>5. QED BY <2>1, <3>1, <3>2, <3>3, <3>4
  <2>8. \A j \in Jobs : number'[j] <= pushed'
    BY <2>1 DEF OrderInv
  <2>9. QED BY <1>8, <2>1, <2>6, <2>7, <2>8 DEF OrderInv, Rank
<1>11. CASE DoDelayedWork
  <2>1. delayed' \subseteq delayed /\ UNCHANGED <<incoming, work, nextSeq, number, pushed>>
    BY <1>11 DEF DoDelayedWork, StartJob
  <2>2. QED BY <2>1 DEF OrderInv, Rank
<1>12. CASE DoDelayedWorkLater \/ DoIdleWork \/ Sleep \/ WakeUp \/ TimeOut \/ ExitRun
  BY <1>2, <1>12 DEF DoDelayedWorkLater, DoIdleWork, Sleep, WakeUp, TimeOut, ExitRun
<1>13. CASE UNCHANGED vars
  BY <1>2, <1>13
<1>14. QED
  BY <1>3, <1>4, <1>5, <1>6, <1>7, <1>9, <1>10, <1>11, <1>12, <1>13 DEF Next, LoopStep

LEMMA NextRunningInv == LoopInv /\ [Next]_vars => RunningInv'
<1>0. SUFFICES ASSUME LoopInv, [Next]_vars PROVE RunningInv'
  OBVIOUS
<1> USE <1>0 DEF LoopInv
<1>1. /\ fate \in [Jobs -> Fates] /\ running \in [Depths -> Jobs \cup {NoJob}]
      /\ depth \in 0..MaxDepth /\ (pc = "out" <=> depth = 0) /\ MaxDepth \in Nat
      /\ \A t \in Threads : call[t].pc = "push" => call[t].job \in Jobs
  BY DepthAssumption DEF TypeOK
<1>2. ASSUME UNCHANGED running,
             \A d \in Depths : Executing(d)' => Executing(d),
             \A j \in Jobs : fate[j] = "running" => fate'[j] = "running"
      PROVE  RunningInv'
  BY <1>2 DEF RunningInv
<1>3. ASSUME UNCHANGED <<running, depth, pc>>,
             NEW j \in Jobs, fate[j] # "running", NEW f, fate' = [fate EXCEPT ![j] = f]
      PROVE  RunningInv'
  BY <1>1, <1>2, <1>3 DEF Executing
<1>4. ASSUME UNCHANGED <<running, depth, fate>>, pc' # "job" \/ pc = "job"
      PROVE  RunningInv'
  BY <1>2, <1>4 DEF Executing
<1>5. ASSUME pc # "job", depth \in Depths, pc' = "job", UNCHANGED depth,
             NEW j \in Jobs, fate[j] = "queued", fate' = [fate EXCEPT ![j] = "running"],
             running' = [running EXCEPT ![depth] = j]
      PROVE  RunningInv'
  <2>1. \A d \in Depths : Executing(d)' => (Executing(d) /\ d # depth) \/ d = depth
    BY <1>1, <1>5 DEF Executing, Depths
  <2>2. \A d \in Depths : Executing(d) => running[d] # j
    BY <1>5 DEF RunningInv
  <2>3. /\ running'[depth] = j
        /\ \A d \in Depths : d # depth => running'[d] = running[d]
        /\ \A k \in Jobs : fate[k] = "running" \/ k = j => fate'[k] = "running"
    BY <1>1, <1>5
  <2>4. \A d \in Depths : Executing(d)' => running'[d] \in Jobs /\ fate'[running'[d]] = "running"
    BY <1>5, <2>1, <2>3 DEF RunningInv
  <2>5. \A c, d \in Depths : Executing(c)' /\ Executing(d)' /\ c # d => running'[c] # running'[d]
    BY <2>1, <2>2, <2>3 DEF RunningInv
  <2>6. QED BY <2>4, <2>5 DEF RunningInv
<1>6. pc # "out" => depth \in Depths
  BY <1>1 DEF Depths
<1>7. CASE Tick \/ Quit
  BY <1>4, <1>7 DEF Tick, Quit
<1>8. ASSUME NEW t \in Threads, Post(t) PROVE RunningInv'
  BY <1>3, <1>8 DEF Post, PostJob, PostDelayJob, PostDelayJobNow
<1>9. ASSUME NEW t \in Threads, Push(t) PROVE RunningInv'
  BY <1>1, <1>3, <1>9 DEF Push, CallInv
<1>10. ASSUME NEW t \in Threads, ScheduleWork(t) PROVE RunningInv'
  BY <1>4, <1>10 DEF ScheduleWork
<1>11. CASE Run
  <2>1. depth' = depth + 1 /\ pc' = "DoWork" /\ UNCHANGED <<running, fate>>
        /\ pc \in {"out", "job"}
    BY <1>11 DEF Run
  <2>2. \A d \in Depths : Executing(d)' => Executing(d)
    BY <1>1, <2>1 DEF Executing, Depths
  <2>3. QED BY <1>2, <2>1, <2>2
<1>12. CASE JobReturn
  <2>1. /\ pc = "job" /\ pc' # "job" /\ UNCHANGED depth
        /\ fate' = [fate EXCEPT ![running[depth]] = "done"]
        /\ running' = [running EXCEPT ![depth] = NoJob]
    BY <1>12 DEF JobReturn, Checked
  <2>2. depth \in Depths /\ Executing(depth) /\ running[depth] \in Jobs
    BY <2>1, Innermost
  <2>3. \A d \in Depths : Executing(d)' => Executing(d) /\ d # depth
    BY <1>1, <2>1 DEF Executing, Depths
  <2>4. \A d \in Depths : Executing(d)' => running'[d] = running[d] /\ running[d] # running[depth]
    BY <1>1, <2>1, <2>2, <2>3 DEF RunningInv
  <2>5. QED BY <1>1, <2>1, <2>2, <2>3, <2>4 DEF RunningInv
<1>13. CASE DoWork
  BY <1>5, <1>6, <1>13, HeadOfWork DEF DoWork, StartJob, Kept, Entry
<1>14. CASE DoDelayedWork
  BY <1>5, <1>6, <1>14, TopOfDelayed DEF DoDelayedWork, StartJob, TopIsDue, Kept, Parked
<1>15. CASE ReloadWorkQueue \/ AddToDelayedWorkQueue \/ DoDelayedWorkLater
  BY <1>4, <1>15 DEF ReloadWorkQueue, AddToDelayedWorkQueue, DoDelayedWorkLater, Checked
<1>16. CASE DoIdleWork \/ Sleep \/ WakeUp \/ TimeOut
  BY <1>4, <1>16 DEF DoIdleWork, Sleep, WakeUp, TimeOut
<1>17. CASE ExitRun
  <2>1. depth' = depth - 1 /\ UNCHANGED <<running, fate>>
    BY <1>17 DEF ExitRun
  <2>2. \A d \in Depths : Executing(d)' => Executing(d)
    BY <1>1, <2>1 DEF Executing, Depths
  <2>3. QED BY <1>2, <2>1, <2>2
<1>18. CASE UNCHANGED vars
  BY <1>4, <1>18
<1>19. QED
  BY <1>7, <1>8, <1>9, <1>10, <1>11, <1>12, <1>13, <1>14, <1>15, <1>16, <1>17, <1>18
  DEF Next, LoopStep

LEMMA InitLoopInv == Init => LoopInv
<1>1. SUFFICES ASSUME Init PROVE LoopInv
  OBVIOUS
<1>2. TypeOK
  BY <1>1, InitTypeOK
<1>3. CallInv
  BY <1>1 DEF Init, CallInv, NoCall
<1>4. Len(incoming) = 0 /\ Len(work) = 0 /\ delayed = {}
  BY <1>1 DEF Init
<1>5. EntryInv
  BY <1>1, <1>4 DEF Init, EntryInv
<1>6. OrderInv
  BY <1>1, <1>4 DEF Init, OrderInv
<1>7. RunningInv
  <2>1. depth = 0 /\ pc = "out"
    BY <1>1 DEF Init
  <2>2. \A d \in Depths : ~ Executing(d)
    BY <2>1, DepthAssumption DEF Executing, Depths
  <2>3. QED BY <2>2 DEF RunningInv
<1>8. QED BY <1>2, <1>3, <1>5, <1>6, <1>7 DEF LoopInv

(* The queues keep their invariant as long as the tick counter does not      *)
(* wrap.                                                                     *)
THEOREM QueuesKept == ASSUME NoWrap PROVE Spec => []LoopInv
<1>1. LoopInv /\ [Next]_vars => LoopInv'
  <2>1. LoopInv /\ [Next]_vars => TypeOK'
    BY NextTypeOK DEF LoopInv
  <2>2. QED BY <2>1, NextCallInv, NextEntryInv, NextOrderInv, NextRunningInv DEF LoopInv
<1>2. QED BY <1>1, InitLoopInv, PTL DEF Spec

-----------------------------------------------------------------------------
LEMMA NextSleepInv == NoWrap /\ LoopInv /\ SleepInv /\ [Next]_vars => SleepInv'
<1>0. SUFFICES ASSUME NoWrap, LoopInv, SleepInv, [Next]_vars PROVE SleepInv'
  OBVIOUS
<1> USE <1>0 DEF LoopInv
<1>1. ASSUME pc' \notin {"DoIdleWork", "sleep", "Wait", "TimedWait"} PROVE SleepInv'
  BY <1>1 DEF SleepInv
<1>2. ASSUME UNCHANGED <<pc, delayed, delayedTime, deadline>> PROVE SleepInv'
  BY <1>2 DEF SleepInv
<1>3. CASE Tick \/ Quit
  BY <1>2, <1>3 DEF Tick, Quit
<1>4. ASSUME NEW t \in Threads, Post(t) \/ Push(t) \/ ScheduleWork(t) PROVE SleepInv'
  BY <1>2, <1>4 DEF Post, PostJob, PostDelayJob, PostDelayJobNow, Push, ScheduleWork
<1>5. CASE \/ Run \/ JobReturn \/ ReloadWorkQueue \/ DoWork \/ AddToDelayedWorkQueue
           \/ DoDelayedWork \/ WakeUp \/ TimeOut \/ ExitRun
  BY <1>1, <1>5 DEF Run, JobReturn, Checked, ReloadWorkQueue, DoWork, StartJob,
     AddToDelayedWorkQueue, DoDelayedWork, WakeUp, TimeOut, ExitRun
<1>6. CASE DoDelayedWorkLater
  <2>1. /\ delayed' = delayed /\ pc' \notin {"Wait", "TimedWait"}
        /\ delayedTime' = IF delayed = {} THEN 0 ELSE Top(delayed).due
    BY <1>6 DEF DoDelayedWorkLater, Checked
  <2>2. QED BY <2>1 DEF SleepInv
<1>7. CASE DoIdleWork
  <2>1. /\ pc = "DoIdleWork" /\ pc' \in {"sleep", "exit"}
        /\ UNCHANGED <<delayed, delayedTime>>
    BY <1>7 DEF DoIdleWork
  <2>2. QED BY <2>1 DEF SleepInv
<1>8. CASE Sleep
  <2>1. pc = "sleep" /\ UNCHANGED delayed
    BY <1>8 DEF Sleep
  <2>2. IF delayed = {} THEN delayedTime = 0 ELSE delayedTime = Top(delayed).due
    BY <2>1 DEF SleepInv
  <2>3. CASE delayedTime = 0
    <3>1. delayed = {}
      BY <2>2, <2>3, TopOfDelayed, EntriesAreJobs
    <3>2. QED BY <1>8, <2>1, <2>3, <3>1 DEF Sleep, SleepInv
  <2>4. CASE delayedTime # 0 /\ Int32(delayedTime - kTime) > 0
    <3>1. delayed # {} /\ delayedTime = Top(delayed).due
      BY <2>2, <2>4
    <3>2. delayedTime \in 0..MaxClock
      BY <3>1, TopOfDelayed DEF Kept, Parked, TypeOK
    <3>3. clock \in 0..MaxClock /\ kTime = clock
      BY KTimeIsClock DEF TypeOK
    <3>4. Int32(delayedTime - kTime) = delayedTime - clock
      BY <3>2, <3>3, Int32Identity, ClockAssumption DEF NoWrap
    <3>5. pc' = "TimedWait" /\ deadline' = clock + Int32(delayedTime - kTime)
      <4>1. Int32(delayedTime - kTime) \in Int
        BY <3>2, <3>3, Int32Type
      <4>2. QED BY <1>8, <2>4, <4>1 DEF Sleep
    <3>6. deadline' = Top(delayed).due
      BY <3>1, <3>2, <3>3, <3>4, <3>5
    <3>7. \A e \in delayed : Top(delayed).due <= e.due
      BY <3>1, TopOfDelayed, EntriesAreJobs DEF Before
    <3>8. QED BY <2>1, <3>5, <3>6, <3>7 DEF SleepInv
  <2>5. CASE delayedTime # 0 /\ ~ (Int32(delayedTime - kTime) > 0)
    <3>1. pc' = "DoWork"
      BY <1>8, <2>5 DEF Sleep
    <3>2. QED BY <1>1, <3>1
  <2>6. QED BY <2>3, <2>4, <2>5
<1>9. CASE UNCHANGED vars
  BY <1>2, <1>9
<1>10. QED BY <1>3, <1>4, <1>5, <1>6, <1>7, <1>8, <1>9 DEF Next, LoopStep

(* The pump never sleeps past the due time of a delayed job, whatever        *)
(* delayed_work_time_ holds before it is first assigned.                     *)
THEOREM NeverOversleeps == ASSUME NoWrap PROVE Spec => []NoOversleep
<1>1. Init => SleepInv
  BY DEF Init, SleepInv
<1>2. LoopInv /\ SleepInv => NoOversleep
  BY DEF LoopInv, EntryInv, SleepInv, NoOversleep, Kept
<1>3. LoopInv /\ SleepInv /\ [Next]_vars => SleepInv'
  BY NextSleepInv
<1>4. QED BY <1>1, <1>2, <1>3, QueuesKept, PTL DEF Spec

-----------------------------------------------------------------------------
(* What the order of posting says of one job: it is not in two places.       *)
LEMMA OnePlace ==
  ASSUME LoopInv, NEW j \in Jobs, NEW p \in Places(j), NEW q \in Places(j)
  PROVE  p = q
<1>1. /\ Len(incoming) \in Nat /\ DOMAIN incoming = 1..Len(incoming)
      /\ Len(work) \in Nat /\ DOMAIN work = 1..Len(work)
  <2>1. incoming \in Seq(Entry) /\ work \in Seq(Entry)
    BY DEF LoopInv, TypeOK
  <2>2. QED BY <2>1
<1>2. /\ number[j] \in Nat
      /\ \A e \in delayed : e.seq \in Nat
  BY EntriesAreJobs DEF LoopInv, TypeOK
<1> DEFINE InIncoming(x) == \E i \in 1..Len(incoming) : incoming[i].job = j /\ x = <<"incoming", i>>
           InWork(x)     == \E i \in 1..Len(work) : work[i].job = j /\ x = <<"work", i>>
           InDelayed(x)  == \E e \in delayed : e.job = j /\ x = <<"delayed", e.seq>>
<1>3. /\ InIncoming(p) \/ InWork(p) \/ InDelayed(p)
      /\ InIncoming(q) \/ InWork(q) \/ InDelayed(q)
  BY <1>1 DEF Places
<1>4. ~(number[j] < number[j])
  BY <1>2
<1>5. ~(InIncoming(p) /\ InWork(q)) /\ ~(InWork(p) /\ InIncoming(q))
  BY <1>4 DEF LoopInv, OrderInv, Rank
<1>6. ~(InIncoming(p) /\ InDelayed(q)) /\ ~(InDelayed(p) /\ InIncoming(q))
  BY <1>4 DEF LoopInv, OrderInv, Rank
<1>7. ~(InWork(p) /\ InDelayed(q)) /\ ~(InDelayed(p) /\ InWork(q))
  BY <1>4 DEF LoopInv, OrderInv, Rank
<1>8. CASE InIncoming(p) /\ InIncoming(q)
  <2>1. PICK i \in 1..Len(incoming) : incoming[i].job = j /\ p = <<"incoming", i>>
    BY <1>8
  <2>2. PICK k \in 1..Len(incoming) : incoming[k].job = j /\ q = <<"incoming", k>>
    BY <1>8
  <2>3. ~(i < k) /\ ~(k < i)
    BY <1>4, <2>1, <2>2 DEF LoopInv, OrderInv, Rank
  <2>4. i = k
    BY <1>1, <2>3
  <2>5. QED BY <2>1, <2>2, <2>4
<1>9. CASE InWork(p) /\ InWork(q)
  <2>1. PICK i \in 1..Len(work) : work[i].job = j /\ p = <<"work", i>>
    BY <1>9
  <2>2. PICK k \in 1..Len(work) : work[k].job = j /\ q = <<"work", k>>
    BY <1>9
  <2>3. ~(i < k) /\ ~(k < i)
    BY <1>4, <2>1, <2>2 DEF LoopInv, OrderInv, Rank
  <2>4. i = k
    BY <1>1, <2>3
  <2>5. QED BY <2>1, <2>2, <2>4
<1>10. CASE InDelayed(p) /\ InDelayed(q)
  <2>1. PICK e \in delayed : e.job = j /\ p = <<"delayed", e.seq>>
    BY <1>10
  <2>2. PICK f \in delayed : f.job = j /\ q = <<"delayed", f.seq>>
    BY <1>10
  <2>3. ~(e.seq < f.seq) /\ ~(f.seq < e.seq)
    BY <1>4, <2>1, <2>2 DEF LoopInv, OrderInv, Rank
  <2>4. e.seq = f.seq
    BY <1>2, <2>3
  <2>5. QED BY <2>1, <2>2, <2>4
<1> HIDE DEF InIncoming, InWork, InDelayed
<1>11. QED BY <1>3, <1>5, <1>6, <1>7, <1>8, <1>9, <1>10

LEMMA InvConserves == LoopInv => Conservation
<1>1. SUFFICES ASSUME LoopInv, NEW j \in Jobs
               PROVE  Cardinality(Places(j)) = IF fate[j] = "queued" THEN 1 ELSE 0
  BY DEF Conservation
<1>2. /\ DOMAIN incoming = 1..Len(incoming) /\ DOMAIN work = 1..Len(work)
  <2>1. incoming \in Seq(Entry) /\ work \in Seq(Entry)
    BY <1>1 DEF LoopInv, TypeOK
  <2>2. QED BY <2>1
<1>3. CASE fate[j] = "queued"
  <2>a. \/ \E i \in 1..Len(incoming) : incoming[i].job = j
        \/ \E i \in 1..Len(work) : work[i].job = j
        \/ \E e \in delayed : e.job = j
    BY <1>1, <1>3 DEF LoopInv, EntryInv
  <2>b. ASSUME NEW i \in 1..Len(incoming), incoming[i].job = j
        PROVE  <<"incoming", i>> \in Places(j)
    BY <1>2, <2>b DEF Places
  <2>c. ASSUME NEW i \in 1..Len(work), work[i].job = j PROVE <<"work", i>> \in Places(j)
    BY <1>2, <2>c DEF Places
  <2>d. ASSUME NEW e \in delayed, e.job = j PROVE <<"delayed", e.seq>> \in Places(j)
    BY <2>d DEF Places
  <2>1. PICK p \in Places(j) : TRUE
    BY <2>a, <2>b, <2>c, <2>d
  <2>2. Places(j) = {p}
    BY <1>1, OnePlace
  <2>3. Cardinality({p}) = 1
    BY FS_Singleton
  <2>4. QED BY <1>3, <2>2, <2>3
<1>4. CASE fate[j] # "queued"
  <2>1. Places(j) = {}
    BY <1>1, <1>2, <1>4 DEF LoopInv, EntryInv, Kept, Places
  <2>2. QED BY <1>4, <2>1, FS_EmptySet
<1>5. QED BY <1>3, <1>4

(* No job is lost or duplicated: a pending job is in one place of one queue, *)
(* however the swap of the queues, the moves to the delayed queue and nested *)
(* Runs interleave.                                                          *)
THEOREM JobsConserved == ASSUME NoWrap PROVE Spec => []Conservation
  BY QueuesKept, InvConserves, PTL

LEMMA NextPastDue ==
  NoWrap /\ LoopInv /\ [Next]_vars =>
    (pc = "DoDelayedWork" /\ pc' # pc /\ (\E e \in delayed : asked[e.job] <= clock)
       => pc' = "job")
<1>1. SUFFICES ASSUME NoWrap, LoopInv, [Next]_vars, pc = "DoDelayedWork", pc' # pc,
                      NEW e \in delayed, asked[e.job] <= clock
               PROVE  pc' = "job"
  OBVIOUS
<1>2. TopIsDue
  <2>1. /\ Top(delayed) \in Parked /\ Before(Top(delayed), e) /\ e \in Parked
        /\ e.due = asked[e.job]
    BY <1>1, TopOfDelayed DEF LoopInv, EntryInv, Kept, TypeOK
  <2>2. kTime = clock /\ clock \in Nat
    BY <1>1, KTimeIsClock, ClockAssumption DEF LoopInv, TypeOK
  <2>3. Top(delayed).due \in Nat /\ e.due \in Nat /\ Top(delayed).due <= e.due
    BY <2>1 DEF Before, Parked
  <2>4. Top(delayed).due <= kTime
    BY <1>1, <2>1, <2>2, <2>3
  <2>5. QED BY <1>1, <2>4 DEF TopIsDue
<1>3. CASE \E t \in Threads : Post(t) \/ Push(t) \/ ScheduleWork(t)
  BY <1>1, <1>3 DEF Post, PostJob, PostDelayJob, PostDelayJobNow, Push, ScheduleWork
<1>4. CASE Tick \/ Run \/ Quit \/ UNCHANGED vars
  BY <1>1, <1>4 DEF Tick, Run, Quit
<1>5. CASE LoopStep
  BY <1>1, <1>2, <1>5 DEF LoopStep, JobReturn, ReloadWorkQueue, DoWork, AddToDelayedWorkQueue,
     DoDelayedWorkLater, DoDelayedWork, StartJob, DoIdleWork, Sleep, WakeUp, TimeOut, ExitRun
<1>6. QED BY <1>1, <1>3, <1>4, <1>5 DEF Next

(* When a delayed job is due DoDelayedWork runs a job: the comparison of     *)
(* ticks and the order of the priority queue do not put it off.              *)
THEOREM DueJobsRun == ASSUME NoWrap PROVE Spec => PastDueRuns
<1>1. LoopInv /\ [Next]_vars =>
        (pc = "DoDelayedWork" /\ pc' # pc /\ (\E e \in delayed : asked[e.job] <= clock)
           => pc' = "job")
  BY NextPastDue
<1>2. QED BY <1>1, QueuesKept, PTL DEF Spec, PastDueRuns

-----------------------------------------------------------------------------
(* The loop implements JobQueue.                                             *)
LEMMA InitPromise == Init => Promise!Init
  BY DEF Init, Promise!Init

LEMMA NextPromise == NoWrap /\ LoopInv /\ [Next]_vars => [Promise!Next]_(Promise!vars)
<1>0. SUFFICES ASSUME NoWrap, LoopInv, [Next]_vars
               PROVE  Promise!Next \/ UNCHANGED Promise!vars
  OBVIOUS
<1> USE <1>0 DEF LoopInv, Promise!vars, Promise!Next
<1>1. /\ fate \in [Jobs -> Fates] /\ asked \in [Jobs -> 0..MaxClock]
      /\ number \in [Jobs -> Nat] /\ clock \in 0..MaxClock
      /\ \A t \in Threads : call[t].pc = "push" => call[t].job \in Jobs
  BY DEF TypeOK
<1>2. CASE Tick
  BY <1>2 DEF Tick, Promise!Tick
<1>3. CASE Run \/ Quit
  BY <1>3 DEF Run, Quit
<1>4. ASSUME NEW t \in Threads, Post(t) PROVE \E j \in Jobs : Promise!Request(j)
  BY <1>4 DEF Post, PostJob, PostDelayJob, PostDelayJobNow, Promise!Request
<1>5. ASSUME NEW t \in Threads, Push(t) PROVE \E j \in Jobs : Promise!Accept(j)
  <2>1. call[t].job \in Jobs /\ fate[call[t].job] = "posting"
    BY <1>1, <1>5 DEF Push, CallInv
  <2>2. Promise!Accept(call[t].job)
    BY <1>5, <2>1 DEF Push, Promise!Accept
  <2>3. QED BY <2>1, <2>2
<1>6. ASSUME NEW t \in Threads, ScheduleWork(t) PROVE UNCHANGED Promise!vars
  BY <1>6 DEF ScheduleWork
<1>7. CASE JobReturn
  <2>1. running[depth] \in Jobs /\ Promise!Finish(running[depth])
    BY <1>7, Innermost DEF JobReturn, Promise!Finish
  <2>2. QED BY <2>1
<1>8. CASE DoWork
  <2> DEFINE j == Head(work).job
  <2>1. /\ work # << >> /\ Head(work).due <= 0 /\ fate' = [fate EXCEPT ![j] = "running"]
        /\ UNCHANGED <<clock, asked, number, pushed>>
    BY <1>8 DEF DoWork, StartJob
  <2>2. /\ j = work[1].job /\ j \in Jobs /\ fate[j] = "queued" /\ asked[j] = 0
    BY <1>1, <2>1, HeadOfWork DEF Entry, Kept
  <2>3. 1 \in 1..Len(work)
    BY <2>1, EmptySeq DEF TypeOK
  <2> HIDE DEF j
  <2>4. ASSUME NEW k \in Jobs, fate[k] = "queued", number[k] < number[j]
        PROVE  asked[k] > asked[j]
    <3>1. ASSUME NEW i \in 1..Len(incoming), incoming[i].job = k PROVE FALSE
      BY <1>1, <2>2, <2>3, <2>4, <3>1 DEF OrderInv, Rank
    <3>2. ASSUME NEW i \in 1..Len(work), work[i].job = k PROVE FALSE
      <4>1. Len(work) \in Nat
        BY EntriesAreJobs
      <4>2. i = 1 \/ 1 < i
        BY <4>1
      <4>3. QED BY <1>1, <2>2, <2>3, <2>4, <3>2, <4>2 DEF OrderInv, Rank
    <3>3. PICK e \in delayed : e.job = k
      BY <2>4, <3>1, <3>2 DEF EntryInv
    <3>4. QED BY <2>2, <3>3, EntriesAreJobs DEF EntryInv, Kept
  <2>5. Promise!Start(j)
    BY <1>1, <2>1, <2>2, <2>4 DEF Promise!Start, Promise!Pending
  <2>6. QED BY <2>2, <2>5
<1>9. CASE DoDelayedWork
  <2> DEFINE top == Top(delayed)
  <2>1. /\ delayed # {} /\ top.due <= clock
        /\ fate' = [fate EXCEPT ![top.job] = "running"]
        /\ UNCHANGED <<clock, asked, number, pushed>>
    BY <1>9, KTimeIsClock DEF DoDelayedWork, StartJob, TopIsDue
  <2>2. /\ top \in delayed /\ top.job \in Jobs /\ top.due \in Nat /\ top.seq \in Nat
        /\ Kept(top) /\ \A f \in delayed : Before(top, f)
    BY <2>1, TopOfDelayed, EntriesAreJobs
  <2> HIDE DEF top
  <2>3. ASSUME NEW k \in Jobs, fate[k] = "queued", number[k] < number[top.job]
        PROVE  asked[k] > asked[top.job]
    <3>1. ASSUME NEW i \in 1..Len(incoming), incoming[i].job = k PROVE FALSE
      BY <1>1, <2>2, <2>3, <3>1 DEF OrderInv, Rank
    <3>2. ASSUME NEW i \in 1..Len(work), work[i].job = k PROVE FALSE
      BY <1>1, <2>2, <2>3, <3>2 DEF OrderInv, Rank
    <3>3. PICK e \in delayed : e.job = k
      BY <2>3, <3>1, <3>2 DEF EntryInv
    <3>4. e.due \in Nat /\ e.seq \in Nat /\ e.due = asked[k]
      BY <3>3, EntriesAreJobs DEF EntryInv, Kept
    <3>5. e.seq < top.seq
      <4>1. CASE top.seq < e.seq
        BY <1>1, <2>2, <2>3, <3>3, <4>1 DEF OrderInv, Rank
      <4>2. CASE top.seq = e.seq
        BY <1>1, <2>2, <2>3, <3>3, <4>2 DEF OrderInv
      <4>3. QED BY <2>2, <3>4, <4>1, <4>2
    <3>6. QED BY <2>2, <3>3, <3>4, <3>5 DEF Before, Kept
  <2>4. Promise!Start(top.job)
    BY <1>1, <2>1, <2>2, <2>3 DEF Promise!Start, Promise!Pending, Kept
  <2>5. QED BY <2>2, <2>4
<1>10. CASE \/ ReloadWorkQueue \/ AddToDelayedWorkQueue \/ DoDelayedWorkLater
            \/ DoIdleWork \/ Sleep \/ WakeUp \/ TimeOut \/ ExitRun
  BY <1>10 DEF ReloadWorkQueue, AddToDelayedWorkQueue, DoDelayedWorkLater,
               DoIdleWork, Sleep, WakeUp, TimeOut, ExitRun
<1>11. CASE UNCHANGED vars
  BY <1>11
<1>12. QED
  BY <1>2, <1>3, <1>4, <1>5, <1>6, <1>7, <1>8, <1>9, <1>10, <1>11 DEF Next, LoopStep

(* Jobs run once, not before their time, and in the order of posting except  *)
(* for those that asked for a later time: for any number of threads, jobs    *)
(* and nested Runs, while the tick counter does not wrap.                    *)
THEOREM LoopKeepsPromise == ASSUME NoWrap PROVE Spec => KeepsPromise
<1>1. LoopInv /\ [Next]_vars => [Promise!Next]_(Promise!vars)
  BY NextPromise
<1>2. QED BY <1>1, InitPromise, QueuesKept, PTL DEF Spec, KeepsPromise, Promise!Spec
=============================================================================
