-------------------------- MODULE MessageLoopProofs ---------------------------
(***************************************************************************)
(* Proofs about MessageLoop, for any tasks and delays, any nesting of Runs   *)
(* and any bound on the clock.                                               *)
(***************************************************************************)
EXTENDS MessageLoop, SequenceFacts

USE DEF queues, env

-----------------------------------------------------------------------------
Types ==
  /\ due \in [Tasks -> Nat \cup {Null}] /\ next \in Nat \cup {Null} /\ now \in Nat
  /\ event \in BOOLEAN /\ waking \in Nat /\ nested \subseteq Tasks
  /\ posted \in Seq(Tasks) /\ incoming \in Seq(Tasks) /\ work \in Seq(Tasks)
  /\ delayed \in Seq(Tasks) /\ deferred \in Seq(Tasks) /\ ran \in Seq(Tasks)

Once ==
  /\ NoRepeats(posted) /\ NoRepeats(incoming) /\ NoRepeats(work)
  /\ NoRepeats(delayed) /\ NoRepeats(deferred) /\ NoRepeats(ran)

(* Where a task is, and what that says of it.                                *)
Placed(t) ==
  /\ Within(t, incoming) => Within(t, posted) /\ ~Within(t, work) /\ ~Within(t, delayed)
                            /\ ~Within(t, deferred) /\ ~Within(t, ran)
  /\ Within(t, work) => Within(t, posted) /\ ~Within(t, delayed)
                        /\ ~Within(t, deferred) /\ ~Within(t, ran)
  /\ Within(t, delayed) => Within(t, posted) /\ ~Within(t, deferred) /\ ~Within(t, ran)
                           /\ due[t] # Null
  /\ Within(t, deferred) => Within(t, posted) /\ ~Within(t, ran)
                            /\ t \notin Nestable /\ due[t] <= now
  /\ Within(t, ran) => Within(t, posted) /\ due[t] <= now
  /\ Within(t, posted) => \/ Within(t, incoming) \/ Within(t, work) \/ Within(t, delayed)
                          \/ Within(t, deferred) \/ Within(t, ran)

(* The queues keep the order in which tasks were posted, except for delayed  *)
(* tasks, which are in the order of their times.                             *)
InOrder(s, t) ==
  /\ Precedes(posted, s, t) =>
       /\ Within(s, incoming) => Precedes(incoming, s, t)
       /\ Within(s, work) => Within(t, incoming) \/ Precedes(work, s, t)
       /\ Within(s, delayed) /\ s \in Nestable /\ due[s] <= due[t] =>
            Within(t, incoming) \/ Within(t, work) \/ Precedes(delayed, s, t)
  /\ Precedes(delayed, s, t) => due[s] <= due[t]

Queued ==
  /\ Once /\ \A t \in Tasks : Placed(t)
  /\ \A s, t \in Tasks : InOrder(s, t)

(* Each Run but the innermost is in a task that let others run, and that is  *)
(* not one a nested Run may not start.                                       *)
Framed(n) ==
  /\ n < Depth => stack[n].at \in Tasks
  /\ stack[n].granted \/ stack[n].quit
  /\ n = 1 => stack[n].granted
  /\ n # 1 /\ stack[n].at \in Tasks => stack[n].granted /\ stack[n].at \in Nestable

Stacked ==
  /\ stack \in Seq(Frames) /\ Depth <= MaxDepth /\ allowed \in BOOLEAN
  /\ \A n \in 1..Depth : Framed(n)
  /\ Depth = 0 => allowed
  /\ Depth > 0 => allowed = (Top.at \notin Tasks /\ Top.granted)

(* What a pump has seen to when it has found nothing to do.                  *)
Searched ==
  Depth > 0 /\ allowed /\ (Top.at \in {"idle", "wait"} \/ (Top.at = "delayed" /\ ~Top.did)) =>
    work = << >> /\ (incoming # << >> => event \/ waking > 0)

Timed ==
  Depth > 0 /\ allowed /\ Top.at \in {"idle", "wait"} =>
    (delayed # << >> => next # Null /\ next <= due[Head(delayed)])

Waits == At("wait") => allowed /\ ~Top.quit /\ (Depth = 1 => deferred = << >>)

IInv == Types /\ Queued /\ Stacked /\ Searched /\ Timed /\ Waits

-----------------------------------------------------------------------------
(* What the model's operators on sequences say of Within and Precedes.         *)
LEMMA Contained ==
  ASSUME NEW s \in Seq(Tasks), NEW t
  PROVE  (Contains(s, t) <=> Within(t, s)) /\ (t \in ToSet(s) <=> Within(t, s))
  BY Domain DEF Contains, ToSet, Within

LEMMA DueIsInt ==
  ASSUME Types
  PROVE  due \in [Tasks -> Int] /\ \A t \in Tasks : due[t] # Null => due[t] \in Nat
  BY DEF Types, Null

(* Delayed tasks are sorted, so that AddToDelayedWorkQueue puts a task behind*)
(* those for the same time or a sooner one, and before the others.           *)
LEMMA AddedInOrder ==
  ASSUME Types, Queued, NEW t \in Tasks
  PROVE  LET r == AddedToDelayed(t)
         IN  /\ r \in Seq(Tasks) /\ r # << >>
             /\ \A x : Within(x, r) <=> Within(x, delayed) \/ x = t
             /\ NoRepeats(delayed) /\ ~Within(t, delayed) => NoRepeats(r)
             /\ \A x, y : Precedes(delayed, x, y) => Precedes(r, x, y)
             /\ \A x, y : Precedes(r, x, y) => due[x] <= due[y]
             /\ \A x : Within(x, delayed) /\ due[x] <= due[t] => Precedes(r, x, t)
             /\ Head(r) = t \/ (delayed # << >> /\ Head(r) = Head(delayed))
<1> DEFINE sooner == {n \in DOMAIN delayed : due[delayed[n]] <= due[t]}
<1>1. AddedToDelayed(t) = PutIn(delayed, 1 + Cardinality(sooner), t)
  BY DEF AddedToDelayed, InsertAt, PutIn
<1>2. delayed \in Seq(Tasks) /\ due \in [Tasks -> Int]
  BY DueIsInt DEF Types
<1>3. \A x, y : Precedes(delayed, x, y) => due[x] <= due[y]
  <2>1. SUFFICES ASSUME NEW x, NEW y, Precedes(delayed, x, y) PROVE due[x] <= due[y]
    OBVIOUS
  <2>2. Within(x, delayed) /\ Within(y, delayed)
    BY <2>1, PrecedesWithin
  <2>3. x \in Tasks /\ y \in Tasks
    BY <1>2, <2>2, WithinType
  <2>4. QED BY <2>1, <2>3 DEF Queued, InOrder
<1> DEFINE i == 1 + Cardinality(sooner)
<1>4. /\ i \in 1..Len(delayed) + 1
      /\ \A n \in 1..Len(delayed) : due[delayed[n]] <= due[t] <=> n < i
  BY <1>2, <1>3, SortedPlace
<1> HIDE DEF sooner, i
<1>5. LET r == PutIn(delayed, i, t)
      IN  /\ r \in Seq(Tasks) /\ r # << >>
          /\ \A x : Within(x, r) <=> Within(x, delayed) \/ x = t
          /\ NoRepeats(delayed) /\ ~Within(t, delayed) => NoRepeats(r)
          /\ \A x, y : Precedes(delayed, x, y) => Precedes(r, x, y)
          /\ \A x, y : Precedes(r, x, y) => due[x] <= due[y]
          /\ \A x : Within(x, delayed) /\ due[x] <= due[t] => Precedes(r, x, t)
          /\ Head(r) = t \/ (delayed # << >> /\ Head(r) = Head(delayed))
  BY <1>2, <1>3, <1>4, InsertingInOrder, SMTT(60)
<1> DEFINE r == PutIn(delayed, i, t)
<1>6. AddedToDelayed(t) = r
  BY <1>1 DEF i
<1>7. QED BY <1>5, <1>6

-----------------------------------------------------------------------------
(* The queues: a task that is posted.                                        *)
LEMMA QueuedWhenPosted ==
  ASSUME Types, Queued, NEW u \in Tasks, PostTask(u)
  PROVE  Types' /\ Queued'
<1>1. /\ posted' = Append(posted, u) /\ incoming' = Append(incoming, u)
      /\ posted \in Seq(Tasks) /\ incoming \in Seq(Tasks)
      /\ ~Within(u, posted)
  BY Contained DEF PostTask, Types
<1>2. /\ due' \in [Tasks -> Nat \cup {Null}]
      /\ \A t \in Tasks : t # u => due'[t] = due[t]
  <2>1. PICK ms \in Delays[u] : due' = [due EXCEPT ![u] = IF ms > 0 THEN now + ms ELSE Null]
    BY DEF PostTask
  <2>2. ms \in Nat /\ now \in Nat
    BY TaskAssumption DEF Types
  <2>3. now + ms \in Nat
    BY <2>2
  <2>4. QED BY <2>1, <2>3 DEF Types
<1>3. Types'
  <2>1. posted' \in Seq(Tasks) /\ incoming' \in Seq(Tasks)
    BY <1>1, Appending
  <2>2. waking' \in Nat
    BY DEF PostTask, Types
  <2>3. QED BY <1>2, <2>1, <2>2 DEF PostTask, Types
<1>4. /\ work' = work /\ delayed' = delayed /\ deferred' = deferred /\ ran' = ran /\ now' = now
  BY DEF PostTask
<1>5. Once /\ Placed(u)
  BY DEF Queued
<1>6. ~Within(u, incoming) /\ ~Within(u, work) /\ ~Within(u, delayed)
      /\ ~Within(u, deferred) /\ ~Within(u, ran)
  BY <1>1, <1>5 DEF Placed
<1>7. Once'
  <2>1. NoRepeats(posted') /\ NoRepeats(incoming')
    BY <1>1, <1>5, <1>6, Appending DEF Once
  <2>2. QED BY <1>4, <1>5, <2>1 DEF Once
<1>8. \A x : /\ Within(x, posted') <=> Within(x, posted) \/ x = u
             /\ Within(x, incoming') <=> Within(x, incoming) \/ x = u
  BY <1>1, Appending
<1>9. ASSUME NEW t \in Tasks PROVE Placed(t)'
  <2>1. Placed(t)
    BY DEF Queued
  <2>2. CASE t = u
    BY <1>4, <1>6, <1>8, <2>2 DEF Placed
  <2>3. CASE t # u
    <3>1. due'[t] = due[t]
      BY <1>2, <2>3
    <3>2. QED BY <1>4, <1>8, <2>1, <2>3, <3>1 DEF Placed
  <2>4. QED BY <2>2, <2>3
<1>10. ASSUME NEW s \in Tasks, NEW t \in Tasks PROVE InOrder(s, t)'
  <2>1. InOrder(s, t)
    BY DEF Queued
  <2>2. Precedes(posted', s, t) => Precedes(posted, s, t) \/ (Within(s, posted) /\ t = u)
    BY <1>1, PrecedesAppending
  <2>3. /\ Precedes(incoming, s, t) => Precedes(incoming', s, t)
        /\ Within(s, incoming) /\ t = u => Precedes(incoming', s, t)
    BY <1>1, PrecedesAppending
  <2>4. Precedes(posted, s, t) => Within(s, posted) /\ Within(t, posted)
    BY PrecedesWithin
  <2>5. Precedes(delayed, s, t) => Within(s, delayed) /\ Within(t, delayed)
    BY PrecedesWithin
  <2>6. (s # u => due'[s] = due[s]) /\ (t # u => due'[t] = due[t])
    BY <1>2
  <2>7. Precedes(posted', s, t) =>
          /\ Within(s, incoming') => Precedes(incoming', s, t)
          /\ Within(s, work') => Within(t, incoming') \/ Precedes(work', s, t)
    BY <1>1, <1>4, <1>8, <2>1, <2>2, <2>3, <2>4 DEF InOrder
  <2>8. Precedes(posted', s, t) =>
           (Within(s, delayed') /\ s \in Nestable /\ due'[s] <= due'[t] =>
              Within(t, incoming') \/ Within(t, work') \/ Precedes(delayed', s, t))
    <3>1. CASE t = u
      BY <1>8, <3>1
    <3>2. CASE t # u
      BY <1>1, <1>4, <1>8, <2>1, <2>2, <2>4, <2>6, <3>2 DEF InOrder
    <3>3. QED BY <3>1, <3>2
  <2>9. Precedes(delayed', s, t) => due'[s] <= due'[t]
    BY <1>4, <1>6, <2>1, <2>5, <2>6 DEF InOrder
  <2>10. QED BY <2>7, <2>8, <2>9 DEF InOrder
<1>11. QED BY <1>3, <1>7, <1>9, <1>10 DEF Queued

(* The loop takes over the tasks that were posted.                           *)
LEMMA QueuedWhenReloaded ==
  ASSUME Types, Queued, ReloadWorkQueue
  PROVE  Types' /\ Queued'
<1>1. /\ work = << >> /\ work' = incoming /\ incoming' = << >>
      /\ UNCHANGED <<delayed, deferred, event, next, ran, due, waking, now, posted, nested>>
  BY DEF ReloadWorkQueue
<1>2. << >> \in Seq(Tasks)
  OBVIOUS
<1>3. Types'
  BY <1>1, <1>2 DEF Types
<1>4. NoRepeats(<< >>) /\ \A x : ~Within(x, << >>)
  BY WithinEmpty
<1>5. Once'
  BY <1>1, <1>4 DEF Queued, Once
<1>6. ASSUME NEW t \in Tasks PROVE Placed(t)'
  <2>1. Placed(t)
    BY DEF Queued
  <2>2. ~Within(t, work) /\ ~Within(t, incoming')
    BY <1>1, <1>4
  <2>3. QED BY <1>1, <2>1, <2>2 DEF Placed
<1>7. ASSUME NEW s \in Tasks, NEW t \in Tasks PROVE InOrder(s, t)'
  <2>1. InOrder(s, t)
    BY DEF Queued
  <2>2. ~Within(s, incoming') /\ ~Within(t, work)
    BY <1>1, <1>4
  <2>3. QED BY <1>1, <2>1, <2>2 DEF InOrder
<1>8. QED BY <1>3, <1>5, <1>6, <1>7 DEF Queued

-----------------------------------------------------------------------------
(* A task that is for now leaves work_queue_ in front: those behind it are    *)
(* in order as before.                                                       *)
LEMMA LeavingWork ==
  ASSUME Types, Queued, work # << >>, due[Head(work)] = Null, work' = Tail(work),
         incoming' = incoming, delayed' = delayed, posted' = posted, due' = due,
         NEW s \in Tasks, NEW t \in Tasks
  PROVE  InOrder(s, t)'
<1> DEFINE h == Head(work)
<1>1. work \in Seq(Tasks) /\ Once /\ InOrder(s, t) /\ Placed(s) /\ Placed(t)
  BY DEF Types, Queued
<1>2. /\ Within(s, work) <=> Within(s, work') \/ s = h
      /\ Within(t, work) <=> Within(t, work') \/ t = h
      /\ ~Within(h, work')
  BY <1>1, TakingHead DEF Once
<1>3. Precedes(work, s, t) /\ s # h => Precedes(work', s, t)
  BY <1>1, PrecedesTaking
<1>4. due[s] \in Nat \cup {Null} /\ (t = h => due[t] = Null)
  BY DEF Types
<1>5. t = h /\ Within(s, delayed) => ~(due[s] <= due[t])
  BY <1>1, <1>4 DEF Placed, Null
<1> HIDE DEF h
<1>6. QED BY <1>1, <1>2, <1>3, <1>5 DEF InOrder

(* A task that is for now is run, or it is deferred.                         *)
LEMMA QueuedWhenWorked ==
  ASSUME Types, Queued, DoWorkRuns \/ DoWorkDefers
  PROVE  Types' /\ Queued'
<1> DEFINE h == Head(work)
<1>1. /\ work # << >> /\ work' = Tail(work) /\ due[h] = Null
      /\ UNCHANGED <<incoming, delayed, next, due, waking, now, posted, nested>>
      /\ event' \in BOOLEAN
      /\ \/ ran' = Append(ran, h) /\ deferred' = deferred
         \/ deferred' = Append(deferred, h) /\ ran' = ran /\ h \notin Nestable
  BY DEF DoWorkRuns, DoWorkDefers, RunTask, RunNow, Types
<1>2. /\ work \in Seq(Tasks) /\ ran \in Seq(Tasks) /\ deferred \in Seq(Tasks)
      /\ now \in Nat /\ Once
  BY DEF Types, Queued
<1>3. /\ h \in Tasks /\ Within(h, work) /\ Tail(work) \in Seq(Tasks)
      /\ \A x : Within(x, work) <=> Within(x, work') \/ x = h
      /\ NoRepeats(work') /\ ~Within(h, work')
  BY <1>1, <1>2, TakingHead DEF Once
<1>4. Placed(h) /\ due[h] <= now
  BY <1>1, <1>2, <1>3 DEF Queued, Null
<1>5. /\ Within(h, posted) /\ ~Within(h, incoming) /\ ~Within(h, delayed)
      /\ ~Within(h, deferred) /\ ~Within(h, ran)
  BY <1>3, <1>4 DEF Placed
<1> HIDE DEF h
<1>6. /\ Append(ran, h) \in Seq(Tasks) /\ NoRepeats(Append(ran, h))
      /\ \A x : Within(x, Append(ran, h)) <=> Within(x, ran) \/ x = h
  BY <1>2, <1>3, <1>5, Appending DEF Once
<1>7. /\ Append(deferred, h) \in Seq(Tasks) /\ NoRepeats(Append(deferred, h))
      /\ \A x : Within(x, Append(deferred, h)) <=> Within(x, deferred) \/ x = h
  BY <1>2, <1>3, <1>5, Appending DEF Once
<1>8. Types'
  BY <1>1, <1>3, <1>6, <1>7 DEF Types
<1>9. Once'
  BY <1>1, <1>2, <1>3, <1>6, <1>7 DEF Once
<1>10. ASSUME NEW t \in Tasks PROVE Placed(t)'
  <2>1. Placed(t)
    BY DEF Queued
  <2>2. CASE ran' = Append(ran, h) /\ deferred' = deferred
    BY <1>1, <1>3, <1>4, <1>5, <1>6, <2>1, <2>2 DEF Placed
  <2>3. CASE deferred' = Append(deferred, h) /\ ran' = ran /\ h \notin Nestable
    BY <1>1, <1>3, <1>4, <1>5, <1>7, <2>1, <2>3 DEF Placed
  <2>4. QED BY <1>1, <2>2, <2>3
<1>11. \A s, t \in Tasks : InOrder(s, t)'
  BY <1>1, LeavingWork DEF h
<1>12. QED BY <1>8, <1>9, <1>10, <1>11 DEF Queued

(* A delayed task goes to the queue that is sorted by time.                  *)
LEMMA QueuedWhenDelayed ==
  ASSUME Types, Queued, DoWorkDelays
  PROVE  Types' /\ Queued'
<1> DEFINE h == Head(work)
<1>1. /\ work # << >> /\ work' = Tail(work) /\ due[h] # Null
      /\ delayed' = AddedToDelayed(h)
      /\ UNCHANGED <<incoming, deferred, event, ran, due, waking, now, posted, nested>>
      /\ next' = due[h] \/ next' = next
  BY DEF DoWorkDelays
<1>2. /\ work \in Seq(Tasks) /\ delayed \in Seq(Tasks) /\ Once
  BY DEF Types, Queued
<1>3. /\ h \in Tasks /\ Within(h, work) /\ Tail(work) \in Seq(Tasks)
      /\ \A x : Within(x, work) <=> Within(x, work') \/ x = h
      /\ NoRepeats(work') /\ ~Within(h, work')
  BY <1>1, <1>2, TakingHead DEF Once
<1>4. Placed(h)
  BY <1>3 DEF Queued
<1>5. /\ Within(h, posted) /\ ~Within(h, incoming) /\ ~Within(h, delayed)
      /\ ~Within(h, deferred) /\ ~Within(h, ran)
  BY <1>3, <1>4 DEF Placed
<1>6. /\ \A y : Precedes(work, h, y) => Within(y, work')
      /\ \A x, y : Precedes(work, x, y) /\ x # h => Precedes(work', x, y)
  BY <1>1, <1>2, PrecedesTaking
<1> HIDE DEF h
<1>7. /\ delayed' \in Seq(Tasks) /\ NoRepeats(delayed')
      /\ \A x : Within(x, delayed') <=> Within(x, delayed) \/ x = h
      /\ \A x, y : Precedes(delayed, x, y) => Precedes(delayed', x, y)
      /\ \A x, y : Precedes(delayed', x, y) => due[x] <= due[y]
      /\ \A x : Within(x, delayed) /\ due[x] <= due[h] => Precedes(delayed', x, h)
  BY <1>1, <1>2, <1>3, <1>5, AddedInOrder DEF Once
<1>8. Types'
  BY <1>1, <1>3, <1>7 DEF Types
<1>9. Once'
  BY <1>1, <1>2, <1>3, <1>7 DEF Once
<1>10. ASSUME NEW t \in Tasks PROVE Placed(t)'
  <2>1. Placed(t)
    BY DEF Queued
  <2>2. QED BY <1>1, <1>3, <1>5, <1>7, <2>1 DEF Placed
<1>11. ASSUME NEW s \in Tasks, NEW t \in Tasks PROVE InOrder(s, t)'
  <2>1. InOrder(s, t)
    BY DEF Queued
  <2>2. Precedes(posted, s, t) /\ Within(s, work') => Within(t, incoming) \/ Precedes(work', s, t)
    BY <1>3, <1>6, <2>1 DEF InOrder
  <2>3. ASSUME Precedes(posted, s, t), Within(s, delayed'), s \in Nestable, due[s] <= due[t]
        PROVE  Within(t, incoming) \/ Within(t, work') \/ Precedes(delayed', s, t)
    <3>1. CASE s = h
      BY <1>3, <1>6, <2>1, <2>3, <3>1 DEF InOrder
    <3>2. CASE s # h
      <4>1. Within(s, delayed)
        BY <1>7, <2>3, <3>2
      <4>2. Within(t, incoming) \/ Within(t, work) \/ Precedes(delayed, s, t)
        BY <2>1, <2>3, <4>1 DEF InOrder
      <4>3. QED BY <1>3, <1>7, <2>3, <4>1, <4>2
    <3>3. QED BY <3>1, <3>2
  <2>4. QED BY <1>1, <1>7, <2>1, <2>2, <2>3 DEF InOrder
<1>12. QED BY <1>8, <1>9, <1>10, <1>11 DEF Queued

(* A delayed task that is due is run, or it is deferred.                     *)
LEMMA QueuedWhenDue ==
  ASSUME Types, Queued, DoDelayedWork
  PROVE  Types' /\ Queued'
<1> DEFINE h == Head(delayed)
<1>1. /\ delayed # << >> /\ delayed' = Tail(delayed) /\ due[h] <= now
      /\ UNCHANGED <<incoming, work, event, due, waking, now, posted, nested>>
      /\ \/ ran' = Append(ran, h) /\ deferred' = deferred
         \/ deferred' = Append(deferred, h) /\ ran' = ran /\ h \notin Nestable
      /\ next' = IF delayed' = << >> THEN next ELSE due[Head(delayed')]
  BY DEF DoDelayedWork, RunTask, RunNow
<1>2. /\ delayed \in Seq(Tasks) /\ ran \in Seq(Tasks) /\ deferred \in Seq(Tasks) /\ Once
  BY DEF Types, Queued
<1>3. /\ h \in Tasks /\ Within(h, delayed) /\ Tail(delayed) \in Seq(Tasks)
      /\ \A x : Within(x, delayed) <=> Within(x, delayed') \/ x = h
      /\ NoRepeats(delayed') /\ ~Within(h, delayed')
  BY <1>1, <1>2, TakingHead DEF Once
<1>4. Placed(h)
  BY <1>3 DEF Queued
<1>5. /\ Within(h, posted) /\ ~Within(h, incoming) /\ ~Within(h, work)
      /\ ~Within(h, deferred) /\ ~Within(h, ran)
  BY <1>3, <1>4 DEF Placed
<1>6. \A x, y : /\ Precedes(delayed, x, y) /\ x # h => Precedes(delayed', x, y)
                /\ Precedes(delayed', x, y) => Precedes(delayed, x, y)
  BY <1>1, <1>2, PrecedesTaking
<1> HIDE DEF h
<1>7. /\ Append(ran, h) \in Seq(Tasks) /\ NoRepeats(Append(ran, h))
      /\ \A x : Within(x, Append(ran, h)) <=> Within(x, ran) \/ x = h
  BY <1>2, <1>3, <1>5, Appending DEF Once
<1>8. /\ Append(deferred, h) \in Seq(Tasks) /\ NoRepeats(Append(deferred, h))
      /\ \A x : Within(x, Append(deferred, h)) <=> Within(x, deferred) \/ x = h
  BY <1>2, <1>3, <1>5, Appending DEF Once
<1>9. Types'
  <2>1. delayed' # << >> => Head(delayed') \in Tasks
    BY <1>1, <1>3, TakingHead
  <2>2. next' \in Nat \cup {Null}
    BY <1>1, <2>1 DEF Types
  <2>3. QED BY <1>1, <1>3, <1>7, <1>8, <2>2 DEF Types
<1>10. Once'
  BY <1>1, <1>2, <1>3, <1>7, <1>8 DEF Once
<1>11. ASSUME NEW t \in Tasks PROVE Placed(t)'
  <2>1. Placed(t)
    BY DEF Queued
  <2>2. CASE ran' = Append(ran, h) /\ deferred' = deferred
    BY <1>1, <1>3, <1>5, <1>7, <2>1, <2>2 DEF Placed
  <2>3. CASE deferred' = Append(deferred, h) /\ ran' = ran /\ h \notin Nestable
    BY <1>1, <1>3, <1>5, <1>8, <2>1, <2>3 DEF Placed
  <2>4. QED BY <1>1, <2>2, <2>3
<1>12. ASSUME NEW s \in Tasks, NEW t \in Tasks PROVE InOrder(s, t)'
  <2>1. InOrder(s, t)
    BY DEF Queued
  <2>2. QED BY <1>1, <1>3, <1>6, <2>1 DEF InOrder
<1>13. QED BY <1>9, <1>10, <1>11, <1>12 DEF Queued

(* The outermost Run takes a task that was deferred.                         *)
LEMMA QueuedWhenIdle ==
  ASSUME Types, Queued, DoIdleWorkRuns
  PROVE  Types' /\ Queued'
<1> DEFINE h == Head(deferred)
<1>1. /\ deferred # << >> /\ deferred' = Tail(deferred) /\ ran' = Append(ran, h)
      /\ UNCHANGED <<incoming, work, delayed, event, next, due, waking, now, posted, nested>>
  BY DEF DoIdleWorkRuns, RunTask
<1>2. /\ deferred \in Seq(Tasks) /\ ran \in Seq(Tasks) /\ Once
  BY DEF Types, Queued
<1>3. /\ h \in Tasks /\ Within(h, deferred) /\ Tail(deferred) \in Seq(Tasks)
      /\ \A x : Within(x, deferred) <=> Within(x, deferred') \/ x = h
      /\ NoRepeats(deferred') /\ ~Within(h, deferred')
  BY <1>1, <1>2, TakingHead DEF Once
<1>4. Placed(h)
  BY <1>3 DEF Queued
<1>5. /\ Within(h, posted) /\ ~Within(h, incoming) /\ ~Within(h, work)
      /\ ~Within(h, delayed) /\ ~Within(h, ran) /\ due[h] <= now
  BY <1>3, <1>4 DEF Placed
<1> HIDE DEF h
<1>6. /\ ran' \in Seq(Tasks) /\ NoRepeats(ran')
      /\ \A x : Within(x, ran') <=> Within(x, ran) \/ x = h
  BY <1>1, <1>2, <1>3, <1>5, Appending DEF Once
<1>7. Types'
  BY <1>1, <1>3, <1>6 DEF Types
<1>8. Once'
  BY <1>1, <1>2, <1>3, <1>6 DEF Once
<1>9. ASSUME NEW t \in Tasks PROVE Placed(t)'
  <2>1. Placed(t)
    BY DEF Queued
  <2>2. QED BY <1>1, <1>3, <1>5, <1>6, <2>1 DEF Placed
<1>10. ASSUME NEW s \in Tasks, NEW t \in Tasks PROVE InOrder(s, t)'
  <2>1. InOrder(s, t)
    BY DEF Queued
  <2>2. QED BY <1>1, <2>1 DEF InOrder
<1>11. QED BY <1>7, <1>8, <1>9, <1>10 DEF Queued

(* The clock goes on.                                                        *)
LEMMA QueuedWhenTicked ==
  ASSUME Types, Queued, Tick
  PROVE  Types' /\ Queued'
<1>1. /\ now' = now + 1
      /\ UNCHANGED <<incoming, work, delayed, deferred, event, next, due, waking, posted, ran,
                     nested>>
  BY DEF Tick
<1>2. Types' /\ now \in Nat
  BY <1>1 DEF Types
<1>3. ASSUME NEW t \in Tasks PROVE Placed(t)'
  <2>1. Placed(t) /\ due[t] \in Int
    BY DueIsInt DEF Queued
  <2>2. due[t] <= now => due[t] <= now'
    BY <1>1, <1>2, <2>1
  <2>3. QED BY <1>1, <2>1, <2>2 DEF Placed
<1>4. Once'
  BY <1>1 DEF Queued, Once
<1>5. ASSUME NEW s \in Tasks, NEW t \in Tasks PROVE InOrder(s, t)'
  <2>1. InOrder(s, t)
    BY DEF Queued
  <2>2. QED BY <1>1, <2>1 DEF InOrder
<1>6. QED BY <1>2, <1>3, <1>4, <1>5 DEF Queued

(* Any other step leaves the queues alone.                                   *)
LEMMA QueuedWhenLeft ==
  ASSUME Queued, UNCHANGED <<incoming, work, delayed, deferred, due, now, posted, ran>>
  PROVE  Queued'
<1>1. Once'
  BY DEF Queued, Once
<1>2. ASSUME NEW t \in Tasks PROVE Placed(t)'
  <2>1. Placed(t)
    BY DEF Queued
  <2>2. QED BY <2>1 DEF Placed
<1>3. ASSUME NEW s \in Tasks, NEW t \in Tasks PROVE InOrder(s, t)'
  <2>1. InOrder(s, t)
    BY DEF Queued
  <2>2. QED BY <2>1 DEF InOrder
<1>4. QED BY <1>1, <1>2, <1>3 DEF Queued

LEMMA QueuedHolds ==
  ASSUME Types, Queued, [Next]_vars
  PROVE  Types' /\ Queued'
<1>1. ASSUME NEW u \in Tasks, PostTask(u) PROVE Types' /\ Queued'
  BY <1>1, QueuedWhenPosted
<1>2. CASE ReloadWorkQueue
  BY <1>2, QueuedWhenReloaded
<1>3. CASE DoWorkRuns \/ DoWorkDefers
  BY <1>3, QueuedWhenWorked
<1>4. CASE DoWorkDelays
  BY <1>4, QueuedWhenDelayed
<1>5. CASE DoDelayedWork
  BY <1>5, QueuedWhenDue
<1>6. CASE DoIdleWorkRuns
  BY <1>6, QueuedWhenIdle
<1>7. CASE Tick
  BY <1>7, QueuedWhenTicked
<1>8. ASSUME UNCHANGED <<incoming, work, delayed, deferred, due, now, posted, ran>>,
             event' \in BOOLEAN, waking' \in Nat, next' \in Nat \cup {Null},
             nested' \subseteq Tasks
      PROVE  Types' /\ Queued'
  <2>1. Types'
    BY <1>8 DEF Types
  <2>2. QED BY <1>8, <2>1, QueuedWhenLeft
<1>9. CASE UNCHANGED vars
  BY <1>8, <1>9 DEF vars, Types
<1>10. CASE DoWorkRefused \/ DoWorkEnds
  BY <1>8, <1>10 DEF DoWorkRefused, DoWorkEnds, Types
<1>11. CASE DoDelayedWorkNone
  BY <1>8, <1>11 DEF DoDelayedWorkNone, Types
<1>12. CASE DoDelayedWorkEarly
  <2>1. Head(delayed) \in Tasks
    BY <1>12, TakingHead DEF DoDelayedWorkEarly, Types
  <2>2. QED BY <1>8, <1>12, <2>1 DEF DoDelayedWorkEarly, Types
<1>13. CASE QuitsWhenIdle
  BY <1>8, <1>13 DEF QuitsWhenIdle, Types
<1>14. CASE Sleep
  BY <1>8, <1>14 DEF Sleep, Types
<1>15. CASE WakeUp
  BY <1>8, <1>15 DEF WakeUp, Types
<1>16. CASE Run
  BY <1>8, <1>16 DEF Run, Types
<1>17. CASE Quit
  BY <1>8, <1>17 DEF Quit, Types
<1>18. CASE NestedRun
  <2>1. nested' \subseteq Tasks
    BY <1>18, UseAssumption DEF NestedRun, Types
  <2>2. event' \in BOOLEAN
    BY <1>18 DEF NestedRun, Types
  <2>3. QED BY <1>8, <1>18, <2>1, <2>2 DEF NestedRun, Types
<1>19. CASE TaskReturns
  BY <1>8, <1>19 DEF TaskReturns, Types
<1>20. CASE ScheduleWork
  <2>1. waking' \in Nat
    BY <1>20 DEF ScheduleWork, Types
  <2>2. QED BY <1>8, <1>20, <2>1 DEF ScheduleWork, Types
<1>21. QED
  BY <1>1, <1>2, <1>3, <1>4, <1>5, <1>6, <1>7, <1>9, <1>10, <1>11, <1>12, <1>13, <1>14, <1>15,
     <1>16, <1>17, <1>18, <1>19, <1>20 DEF Next, Pump, User

-----------------------------------------------------------------------------
(* The stack.  What a step does to the frame on top.                         *)
Turned ==
  /\ stack' \in Seq(Frames) /\ Len(stack') = Depth
  /\ \A n \in 1..Depth : n # Depth => stack'[n] = stack[n]
  /\ stack'[Depth].granted = Top.granted

LEMMA TopFrame ==
  ASSUME Stacked, Depth > 0
  PROVE  /\ Depth \in 1..Depth /\ Depth \in Nat /\ DOMAIN stack = 1..Depth /\ Top \in Frames
         /\ Top.at \in Places /\ Top.quit \in BOOLEAN /\ Top.did \in BOOLEAN
         /\ Top.granted \in BOOLEAN /\ Top.back \in {"work", "delayed"} /\ Top.left \in BOOLEAN
         /\ Framed(Depth)
<1>1. stack \in Seq(Frames) /\ \A n \in 1..Depth : Framed(n)
  BY DEF Stacked
<1>2. Depth \in 1..Depth /\ Depth \in Nat /\ DOMAIN stack = 1..Depth
  BY <1>1 DEF Depth
<1>3. Top \in Frames
  BY <1>1, <1>2 DEF Top, Depth
<1>4. QED BY <1>1, <1>2, <1>3 DEF Frames

LEMMA Replaced ==
  ASSUME Stacked, Depth > 0, NEW f \in Frames, stack' = [stack EXCEPT ![Depth] = f]
  PROVE  /\ stack' \in Seq(Frames) /\ Len(stack') = Depth
         /\ \A n \in 1..Depth : n # Depth => stack'[n] = stack[n]
         /\ stack'[Depth] = f
<1>1. stack \in Seq(Frames) /\ Depth = Len(stack) /\ Depth \in 1..Len(stack)
  BY TopFrame DEF Stacked, Depth
<1>2. QED BY <1>1

LEMMA GoingTo ==
  ASSUME Stacked, Depth > 0, NEW p \in Places, GoTo(p)
  PROVE  /\ Turned /\ stack'[Depth].at = p /\ stack'[Depth].did = Top.did
         /\ stack'[Depth].quit = Top.quit /\ ~stack'[Depth].left
<1> DEFINE f == [Top EXCEPT !.at = p, !.left = FALSE]
<1>1. Top \in Frames
  BY TopFrame
<1>2. /\ f \in Frames /\ f.at = p /\ f.did = Top.did /\ f.granted = Top.granted
      /\ f.quit = Top.quit /\ f.left = FALSE
  BY <1>1 DEF Frames
<1>3. stack' = [stack EXCEPT ![Depth] = f]
  BY DEF GoTo, Top
<1> HIDE DEF f
<1>4. QED BY <1>2, <1>3, Replaced DEF Turned

LEMMA AfterDelayedTurns ==
  ASSUME Stacked, Depth > 0, AfterDelayed
  PROVE  /\ Turned /\ stack'[Depth].at = (IF Top.did THEN "work" ELSE "idle")
         /\ stack'[Depth].did = FALSE /\ stack'[Depth].quit = Top.quit
         /\ stack'[Depth].left = (~Top.did /\ LeavesDue)
<1>1. Top \in Frames /\ Top.did \in BOOLEAN
  BY TopFrame
<1>2. PICK l \in BOOLEAN : l = (~Top.did /\ LeavesDue)
  OBVIOUS
<1>3. PICK p \in Places : p = (IF Top.did THEN "work" ELSE "idle")
  BY DEF Places
<1> DEFINE f == [Top EXCEPT !.at = p, !.did = FALSE, !.left = l]
<1>4. /\ f \in Frames /\ f.at = p /\ f.did = FALSE /\ f.granted = Top.granted
      /\ f.quit = Top.quit /\ f.left = l
  BY <1>1 DEF Frames
<1>5. stack' = [stack EXCEPT ![Depth] = f]
  BY <1>2, <1>3 DEF AfterDelayed, Top
<1> HIDE DEF f
<1>6. Turned /\ stack'[Depth] = f
  BY <1>4, <1>5, Replaced DEF Turned
<1>7. stack'[Depth].left = (~Top.did /\ LeavesDue)
  BY <1>2, <1>4, <1>6, Zenon
<1>8. QED BY <1>3, <1>4, <1>6, <1>7

LEMMA RunTaskTurns ==
  ASSUME Stacked, Depth > 0, NEW t \in Tasks, NEW back \in {"work", "delayed"}, RunTask(t, back)
  PROVE  Turned /\ stack'[Depth].at = t /\ stack'[Depth].quit = Top.quit /\ ~stack'[Depth].left
<1> DEFINE f == [Top EXCEPT !.at = t, !.did = FALSE, !.back = back, !.left = FALSE]
<1>1. Top \in Frames
  BY TopFrame
<1>2. /\ f \in Frames /\ f.at = t /\ f.granted = Top.granted /\ f.quit = Top.quit
      /\ f.left = FALSE
  BY <1>1 DEF Frames, Places
<1>3. stack' = [stack EXCEPT ![Depth] = f]
  BY DEF RunTask, Top
<1> HIDE DEF f
<1>4. QED BY <1>2, <1>3, Replaced DEF Turned

LEMMA QuitTurns ==
  ASSUME Stacked, Quit
  PROVE  Turned /\ stack'[Depth].at = Top.at /\ stack'[Depth].quit /\ stack'[Depth].left = Top.left
<1> DEFINE f == [Top EXCEPT !.quit = TRUE]
<1>1. Depth > 0 /\ Top \in Frames
  BY TopFrame DEF Quit, InTask
<1>2. /\ f \in Frames /\ f.at = Top.at /\ f.granted = Top.granted /\ f.quit = TRUE
      /\ f.left = Top.left
  BY <1>1 DEF Frames
<1>3. stack' = [stack EXCEPT ![Depth] = f]
  BY DEF Quit, Top
<1> HIDE DEF f
<1>4. QED BY <1>1, <1>2, <1>3, Replaced DEF Turned

LEMMA TaskReturnTurns ==
  ASSUME Stacked, TaskReturns
  PROVE  /\ Turned /\ stack'[Depth].at \in {"work", "delayed"}
         /\ stack'[Depth].did = (stack'[Depth].at = "delayed")
         /\ stack'[Depth].quit = Top.quit /\ stack'[Depth].left = Top.left
<1>1. Depth > 0 /\ Top \in Frames /\ Top.back \in {"work", "delayed"}
  BY TopFrame DEF TaskReturns, InTask
<1>2. PICK d \in BOOLEAN : d = (Top.back = "delayed")
  OBVIOUS
<1> DEFINE f == [Top EXCEPT !.at = Top.back, !.did = d, !.back = "work"]
<1>3. /\ f \in Frames /\ f.at = Top.back /\ f.granted = Top.granted /\ f.quit = Top.quit
      /\ f.left = Top.left /\ f.did = d
  BY <1>1 DEF Frames, Places
<1>4. stack' = [stack EXCEPT ![Depth] = f]
  BY <1>2 DEF TaskReturns, Top
<1> HIDE DEF f
<1>5. QED BY <1>1, <1>2, <1>3, <1>4, Replaced DEF Turned

LEMMA Leaving ==
  ASSUME Stacked, Depth > 0, stack' = Front(stack)
  PROVE  /\ stack' \in Seq(Frames) /\ Len(stack') = Depth - 1
         /\ \A n \in 1..Depth - 1 : stack'[n] = stack[n]
<1>1. stack \in Seq(Frames) /\ Depth = Len(stack) /\ Depth \in Nat
  BY TopFrame DEF Stacked, Depth
<1>2. stack' = SubSeq(stack, 1, Depth - 1)
  BY <1>1 DEF Front
<1>3. QED BY <1>1, <1>2

-----------------------------------------------------------------------------
Pumps == {"work", "delayed", "idle", "wait"}

LEMMA PumpPlaces == Pumps \subseteq Places /\ Pumps \cap Tasks = {} /\ Tasks \subseteq Places
  BY TaskAssumption DEF Pumps, Places

(* Stacked: the top frame goes on.                                           *)
LEMMA StackedWhenTurned ==
  ASSUME Stacked, Depth > 0, Turned, Top.quit => stack'[Depth].quit,
         Depth # 1 /\ stack'[Depth].at \in Tasks => Top.granted /\ stack'[Depth].at \in Nestable,
         allowed' = (stack'[Depth].at \notin Tasks /\ Top.granted)
  PROVE  Stacked'
<1>1. Depth' = Depth /\ Top' = stack'[Depth] /\ Depth \in Nat /\ Depth <= MaxDepth
  BY TopFrame DEF Turned, Depth, Top, Stacked
<1>2. ASSUME NEW n \in 1..Depth PROVE Framed(n)'
  <2>1. Framed(n)
    BY DEF Stacked
  <2>2. CASE n # Depth
    <3>1. stack'[n] = stack[n]
      BY <2>2 DEF Turned
    <3>2. QED BY <1>1, <2>1, <3>1 DEF Framed
  <2>3. CASE n = Depth
    <3>1. stack'[Depth].granted = Top.granted
      BY DEF Turned
    <3>2. QED BY <1>1, <2>1, <2>3, <3>1 DEF Framed, Top
  <2>4. QED BY <2>2, <2>3
<1>3. Top.granted \in BOOLEAN /\ stack'[Depth].granted = Top.granted
  BY TopFrame DEF Turned
<1>4. allowed' \in BOOLEAN
  OBVIOUS
<1>5. stack' \in Seq(Frames)
  BY DEF Turned
<1>6. QED BY <1>1, <1>2, <1>3, <1>4, <1>5 DEF Stacked

(* The pump goes on to another of its places.                                *)
LEMMA StackedWhenPumping ==
  ASSUME Stacked, Depth > 0, Turned, Top.at \in Pumps, stack'[Depth].at \in Pumps,
         stack'[Depth].quit = Top.quit, allowed' = allowed
  PROVE  Stacked'
<1>1. Top.at \notin Tasks /\ stack'[Depth].at \notin Tasks
  BY PumpPlaces
<1>2. allowed' = (stack'[Depth].at \notin Tasks /\ Top.granted)
  BY <1>1, TopFrame DEF Stacked
<1>3. QED BY <1>1, <1>2, StackedWhenTurned

(* The pump runs a task.                                                     *)
LEMMA StackedWhenRun ==
  ASSUME Stacked, Depth > 0, Top.at \in Pumps, allowed, NEW t \in Tasks,
         NEW back \in {"work", "delayed"}, RunNow(t), RunTask(t, back)
  PROVE  Stacked'
<1>1. Turned /\ stack'[Depth].at = t /\ stack'[Depth].quit = Top.quit
  BY RunTaskTurns
<1>2. Top.granted
  BY PumpPlaces DEF Stacked
<1>3. Depth # 1 => t \in Nestable
  BY DEF RunNow
<1>4. allowed' = FALSE
  BY DEF RunTask
<1>5. QED BY <1>1, <1>2, <1>3, <1>4, StackedWhenTurned

LEMMA StackedWhenLeft ==
  ASSUME Stacked, UNCHANGED <<stack, allowed>>
  PROVE  Stacked'
<1>1. Depth' = Depth /\ Top' = Top
  BY DEF Depth, Top
<1>2. ASSUME NEW n \in 1..Depth PROVE Framed(n)'
  <2>1. Framed(n)
    BY DEF Stacked
  <2>2. QED BY <1>1, <2>1 DEF Framed
<1>3. QED BY <1>1, <1>2 DEF Stacked

(* A Run begins: that of the owner, or a nested one.                         *)
LEMMA StackedWhenEntered ==
  ASSUME Stacked, NEW all \in BOOLEAN, NEW may \in BOOLEAN, all \/ may,
         stack' = Append(stack, Frame(all, may)), Depth < MaxDepth,
         \/ Depth = 0 /\ may
         \/ Depth > 0 /\ Top.at \in Tasks,
         allowed' = may
  PROVE  Stacked'
<1> DEFINE f == Frame(all, may)
<1>1. /\ f \in Frames /\ f.at = "work" /\ f.quit = all /\ f.granted = may
  BY DEF Frame, Frames, Places
<1>2. stack \in Seq(Frames) /\ Depth = Len(stack) /\ Depth \in Nat /\ MaxDepth \in Nat
  BY BoundAssumption DEF Stacked, Depth
<1> HIDE DEF f
<1>3. /\ stack' \in Seq(Frames) /\ Len(stack') = Depth + 1
      /\ \A n \in 1..Depth : stack'[n] = stack[n]
      /\ stack'[Depth + 1] = f
  BY <1>1, <1>2 DEF f
<1>4. Depth' = Depth + 1 /\ Top' = f /\ Depth' <= MaxDepth
  BY <1>2, <1>3 DEF Depth, Top
<1>5. "work" \notin Tasks
  BY PumpPlaces DEF Pumps
<1>6. ASSUME NEW n \in 1..Depth + 1 PROVE Framed(n)'
  <2>1. CASE n = Depth + 1
    BY <1>1, <1>2, <1>3, <1>4, <1>5, <2>1 DEF Framed
  <2>2. CASE n # Depth + 1
    <3>1. n \in 1..Depth /\ stack'[n] = stack[n] /\ Depth > 0
      BY <1>2, <1>3, <2>2
    <3>2. Framed(n) /\ (n = Depth => stack[n].at \in Tasks)
      BY <3>1 DEF Stacked, Top
    <3>3. stack[n].at \in Tasks
      BY <1>2, <3>1, <3>2 DEF Framed
    <3>4. QED BY <1>4, <3>1, <3>2, <3>3 DEF Framed
  <2>3. QED BY <2>1, <2>2
<1>7. allowed' = (Top'.at \notin Tasks /\ Top'.granted)
  BY <1>1, <1>4, <1>5
<1>8. Depth' # 0 /\ 1..Depth' = 1..Depth + 1
  BY <1>2, <1>4
<1>9. QED BY <1>3, <1>4, <1>6, <1>7, <1>8 DEF Stacked

(* and a Run ends.                                                           *)
LEMMA StackedWhenQuit ==
  ASSUME Stacked, QuitsWhenIdle
  PROVE  Stacked'
<1>1. Depth > 0 /\ stack' = Front(stack) /\ allowed' = (Depth = 1)
  BY DEF QuitsWhenIdle, IdleWorkDone, At
<1>2. /\ stack' \in Seq(Frames) /\ Len(stack') = Depth - 1
      /\ \A n \in 1..Depth - 1 : stack'[n] = stack[n]
  BY <1>1, Leaving
<1>3. Depth \in Nat /\ Depth <= MaxDepth /\ MaxDepth \in Nat
  BY <1>1, TopFrame, BoundAssumption DEF Stacked
<1>4. Depth' = Depth - 1 /\ Depth' <= MaxDepth /\ Depth' \in Nat
  BY <1>1, <1>2, <1>3 DEF Depth
<1>5. ASSUME NEW n \in 1..Depth - 1
      PROVE  Framed(n) /\ stack[n].at \in Tasks /\ stack'[n] = stack[n]
  <2>1. n \in 1..Depth /\ n < Depth
    BY <1>3
  <2>2. QED BY <1>2, <2>1 DEF Stacked, Framed
<1>6. \A n \in 1..Depth' : Framed(n)'
  BY <1>4, <1>5 DEF Framed
<1>7. Depth' = 0 => allowed'
  <2>1. Depth' = 0 => Depth = 1
    BY <1>3, <1>4
  <2>2. QED BY <1>1, <2>1
<1>8. ASSUME Depth' > 0 PROVE allowed' = (Top'.at \notin Tasks /\ Top'.granted)
  <2>1. Top' = stack'[Depth - 1] /\ Depth - 1 \in 1..Depth - 1 /\ Depth # 1
    BY <1>3, <1>4, <1>8 DEF Top
  <2>2. Top'.at \in Tasks
    BY <1>5, <2>1
  <2>3. QED BY <1>1, <2>1, <2>2
<1>9. allowed' \in BOOLEAN
  BY <1>1
<1>10. QED BY <1>2, <1>4, <1>6, <1>7, <1>8, <1>9 DEF Stacked

LEMMA StackedHolds ==
  ASSUME Types, Stacked, [Next]_vars
  PROVE  Stacked'
<1>1. CASE DoWorkRefused \/ DoWorkEnds
  BY <1>1, GoingTo, StackedWhenPumping, PumpPlaces
     DEF DoWorkRefused, DoWorkEnds, At, Pumps
<1>2. CASE DoDelayedWorkNone \/ DoDelayedWorkEarly
  BY <1>2, AfterDelayedTurns, StackedWhenPumping DEF DoDelayedWorkNone, DoDelayedWorkEarly, At, Pumps
<1>3. CASE DoDelayedWork
  <2>1. At("delayed") /\ allowed /\ Head(delayed) \in Tasks
    BY <1>3, TakingHead DEF DoDelayedWork, Types
  <2>2. CASE RunNow(Head(delayed)) /\ RunTask(Head(delayed), "work")
    BY <2>1, <2>2, StackedWhenRun DEF At, Pumps
  <2>3. CASE AfterDelayed /\ allowed' = allowed
    BY <2>1, <2>3, AfterDelayedTurns, StackedWhenPumping DEF At, Pumps
  <2>4. QED BY <1>3, <2>2, <2>3 DEF DoDelayedWork
<1>4. CASE DoWorkRuns
  <2>1. /\ At("work") /\ allowed /\ Head(work) \in Tasks
        /\ RunNow(Head(work)) /\ RunTask(Head(work), "delayed")
    BY <1>4, TakingHead DEF DoWorkRuns, Types
  <2>2. QED BY <2>1, StackedWhenRun DEF At, Pumps
<1>5. CASE DoIdleWorkRuns
  <2>1. /\ At("idle") /\ Depth = 1 /\ Head(deferred) \in Tasks /\ RunTask(Head(deferred), "work")
    BY <1>5, TakingHead DEF DoIdleWorkRuns, Types
  <2>2. RunNow(Head(deferred))
    BY <2>1 DEF RunNow
  <2>3. allowed
    BY <2>1, TopFrame, PumpPlaces DEF Stacked, At, Pumps, Framed, Top
  <2>4. QED BY <2>1, <2>2, <2>3, StackedWhenRun DEF At, Pumps
<1>6. CASE QuitsWhenIdle
  BY <1>6, StackedWhenQuit
<1>7. CASE Sleep
  <2>1. At("idle") /\ allowed' = allowed /\ (GoTo("work") \/ GoTo("wait"))
    BY <1>7 DEF Sleep, IdleWorkDone
  <2>2. QED BY <2>1, GoingTo, StackedWhenPumping, PumpPlaces DEF At, Pumps
<1>8. CASE WakeUp
  BY <1>8, GoingTo, StackedWhenPumping, PumpPlaces DEF WakeUp, At, Pumps
<1>9. CASE Run
  <2>1. PICK all \in BOOLEAN : stack' = <<Frame(all, TRUE)>>
    BY <1>9 DEF Run
  <2>2. stack = << >> /\ Depth = 0 /\ allowed' = TRUE /\ Depth < MaxDepth
    BY <1>9, BoundAssumption DEF Run, Depth, Stacked
  <2>3. stack' = Append(stack, Frame(all, TRUE))
    BY <2>1, <2>2
  <2>4. QED BY <2>2, <2>3, StackedWhenEntered
<1>10. CASE NestedRun
  <2>1. PICK all, may \in BOOLEAN :
          /\ all \/ may
          /\ stack' = Append(stack, Frame(all, may))
          /\ allowed' = (allowed \/ may)
    BY <1>10 DEF NestedRun
  <2>2. Depth > 0 /\ Top.at \in Tasks /\ Depth < MaxDepth
    BY <1>10 DEF NestedRun, InTask
  <2>3. allowed' = may
    BY <2>1, <2>2 DEF Stacked
  <2>4. QED BY <2>1, <2>2, <2>3, StackedWhenEntered
<1>11. CASE Quit
  <2>1. Depth > 0 /\ Top.at \in Tasks /\ allowed' = allowed
    BY <1>11 DEF Quit, InTask
  <2>2. Turned /\ stack'[Depth].at = Top.at /\ stack'[Depth].quit
    BY <1>11, QuitTurns
  <2>3. Framed(Depth) /\ Depth \in Nat
    BY <2>1, TopFrame
  <2>4. allowed' = (stack'[Depth].at \notin Tasks /\ Top.granted)
    BY <2>1, <2>2 DEF Stacked
  <2>5. QED BY <2>1, <2>2, <2>3, <2>4, StackedWhenTurned DEF Framed, Top
<1>12. CASE TaskReturns
  <2>1. Depth > 0 /\ Top.at \in Tasks /\ allowed' = TRUE
    BY <1>12 DEF TaskReturns, InTask
  <2>2. Turned /\ stack'[Depth].at \in Pumps /\ stack'[Depth].quit = Top.quit
    BY <1>12, TaskReturnTurns DEF Pumps
  <2>3. Top.granted /\ stack'[Depth].at \notin Tasks
    BY <2>1, <2>2, TopFrame, PumpPlaces DEF Framed, Top
  <2>4. QED BY <2>1, <2>2, <2>3, StackedWhenTurned
<1>13. CASE UNCHANGED <<stack, allowed>>
  BY <1>13, StackedWhenLeft
<1>14. QED
  BY <1>1, <1>2, <1>3, <1>4, <1>5, <1>6, <1>7, <1>8, <1>9, <1>10, <1>11, <1>12, <1>13
     DEF Next, Pump, User, PostTask, ScheduleWork, Tick, ReloadWorkQueue, DoWorkDelays,
         DoWorkDefers, vars

-----------------------------------------------------------------------------
(* The pump's searches.  A pump that is in a task, or before its next search,*)
(* owes nothing.                                                             *)
LEMMA BusyPump ==
  ASSUME Depth' > 0 => \/ Top'.at \notin {"delayed", "idle", "wait"}
                       \/ Top'.at = "delayed" /\ Top'.did
  PROVE  Searched' /\ Timed' /\ Waits'
  BY DEF Searched, Timed, Waits, At

LEMMA TurnedTop ==
  ASSUME Turned
  PROVE  Depth' = Depth /\ Top' = stack'[Depth]
  BY DEF Turned, Depth, Top

LEMMA BusyInTask ==
  ASSUME Stacked, Depth > 0, NEW t \in Tasks, NEW back \in {"work", "delayed"}, RunTask(t, back)
  PROVE  Searched' /\ Timed' /\ Waits'
<1>1. Depth' = Depth /\ Top'.at = t
  BY RunTaskTurns, TurnedTop
<1>2. t \notin {"delayed", "idle", "wait"}
  BY PumpPlaces DEF Pumps
<1>3. QED BY <1>1, <1>2, BusyPump

(* A pump that found no task that is due: what it searched before still has  *)
(* nothing, and it knows when the next delayed task is due.                  *)
LEMMA FoundNone ==
  ASSUME IInv, At("delayed"), AfterDelayed,
         UNCHANGED <<work, incoming, event, waking, allowed, due>>,
         allowed /\ delayed' # << >> => next' # Null /\ next' <= due[Head(delayed')]
  PROVE  Searched' /\ Timed' /\ Waits'
<1>1. Depth > 0 /\ Top.at = "delayed" /\ Stacked
  BY DEF At, IInv
<1>2. /\ Depth' = Depth /\ Top'.at = (IF Top.did THEN "work" ELSE "idle") /\ Top'.did = FALSE
  BY <1>1, AfterDelayedTurns, TurnedTop
<1>3. CASE Top.did
  BY <1>2, <1>3, BusyPump
<1>4. CASE ~Top.did
  <2>1. allowed => work = << >> /\ (incoming # << >> => event \/ waking > 0)
    BY <1>1, <1>4 DEF IInv, Searched
  <2>2. Searched'
    BY <2>1 DEF Searched
  <2>3. Timed'
    BY DEF Timed
  <2>4. Waits'
    BY <1>2, <1>4 DEF Waits, At
  <2>5. QED BY <2>2, <2>3, <2>4
<1>5. QED BY <1>3, <1>4

LEMMA SearchesHold ==
  ASSUME IInv, [Next]_vars
  PROVE  Searched' /\ Timed' /\ Waits'
<1>1. Types /\ Queued /\ Stacked /\ Searched /\ Timed /\ Waits
  BY DEF IInv
<1>2. CASE DoWorkRuns
  <2>1. Depth > 0 /\ Head(work) \in Tasks /\ RunTask(Head(work), "delayed")
    BY <1>1, <1>2, TakingHead DEF DoWorkRuns, Types, At
  <2>2. QED BY <1>1, <2>1, BusyInTask
<1>3. CASE DoIdleWorkRuns
  <2>1. Depth > 0 /\ Head(deferred) \in Tasks /\ RunTask(Head(deferred), "work")
    BY <1>1, <1>3, TakingHead DEF DoIdleWorkRuns, Types, At
  <2>2. QED BY <1>1, <2>1, BusyInTask
<1>4. CASE ReloadWorkQueue \/ DoWorkDelays \/ DoWorkDefers
  <2>1. At("work") /\ stack' = stack
    BY <1>4 DEF ReloadWorkQueue, DoWorkDelays, DoWorkDefers
  <2>2. Top'.at = "work"
    BY <2>1 DEF At, Top, Depth
  <2>3. QED BY <2>2, BusyPump
<1>5. CASE DoWorkRefused \/ DoWorkEnds
  <2>1. /\ At("work") /\ Depth > 0 /\ GoTo("delayed")
        /\ UNCHANGED <<work, incoming, event, waking, allowed>>
        /\ allowed => work = << >> /\ incoming = << >>
    BY <1>5 DEF DoWorkRefused, DoWorkEnds, At
  <2>2. Depth' = Depth /\ Top'.at = "delayed"
    BY <1>1, <2>1, GoingTo, TurnedTop, PumpPlaces DEF Pumps
  <2>3. Searched'
    BY <2>1 DEF Searched
  <2>4. Timed' /\ Waits'
    BY <2>2 DEF Timed, Waits, At
  <2>5. QED BY <2>3, <2>4
<1>6. CASE DoDelayedWorkNone \/ DoDelayedWorkEarly
  <2>1. /\ At("delayed") /\ AfterDelayed
        /\ UNCHANGED <<work, incoming, delayed, event, waking, allowed, due>>
    BY <1>6 DEF DoDelayedWorkNone, DoDelayedWorkEarly
  <2>2. allowed /\ delayed # << >> => next' = due[Head(delayed)]
    BY <1>6 DEF DoDelayedWorkNone, DoDelayedWorkEarly
  <2>3. delayed # << >> => due[Head(delayed)] \in Nat
    <3>1. ASSUME delayed # << >> PROVE Head(delayed) \in Tasks /\ Within(Head(delayed), delayed)
      BY <1>1, <3>1, TakingHead DEF Types
    <3>2. QED BY <1>1, <3>1, DueIsInt DEF Queued, Placed
  <2>4. allowed /\ delayed' # << >> => next' # Null /\ next' <= due[Head(delayed')]
    BY <2>1, <2>2, <2>3 DEF Null
  <2>5. QED BY <2>1, <2>4, FoundNone
<1>7. CASE DoDelayedWork
  <2>1. /\ At("delayed") /\ Depth > 0 /\ delayed # << >> /\ Head(delayed) \in Tasks
        /\ delayed' = Tail(delayed) /\ UNCHANGED <<work, incoming, event, waking, due>>
        /\ next' = IF delayed' = << >> THEN next ELSE due[Head(delayed')]
    BY <1>1, <1>7, TakingHead DEF DoDelayedWork, Types, At
  <2>2. CASE RunTask(Head(delayed), "work")
    BY <1>1, <2>1, <2>2, BusyInTask
  <2>3. CASE AfterDelayed /\ allowed' = allowed
    <3>1. delayed' # << >> => due[Head(delayed')] \in Nat
      <4>1. delayed \in Seq(Tasks) /\ Tail(delayed) \in Seq(Tasks)
        BY <1>1, <2>1, TakingHead DEF Types
      <4>2. ASSUME delayed' # << >>
            PROVE  Head(delayed') \in Tasks /\ Within(Head(delayed'), delayed)
        <5>1. Head(delayed') \in Tasks /\ Within(Head(delayed'), Tail(delayed))
          BY <2>1, <4>1, <4>2, TakingHead
        <5>2. QED BY <2>1, <4>1, <5>1, TakingHead
      <4>3. QED BY <1>1, <4>2, DueIsInt DEF Queued, Placed
    <3>2. allowed /\ delayed' # << >> => next' # Null /\ next' <= due[Head(delayed')]
      BY <2>1, <3>1 DEF Null
    <3>3. QED BY <2>1, <2>3, <3>2, FoundNone
  <2>4. QED BY <1>7, <2>2, <2>3 DEF DoDelayedWork
<1>8. CASE QuitsWhenIdle
  <2>1. Depth > 0 /\ stack' = Front(stack)
    BY <1>8 DEF QuitsWhenIdle, IdleWorkDone, At
  <2>2. Len(stack') = Depth - 1 /\ \A n \in 1..Depth - 1 : stack'[n] = stack[n]
    BY <1>1, <2>1, Leaving
  <2>3. Depth \in Nat /\ Depth' = Depth - 1
    BY <1>1, <2>1, <2>2, TopFrame DEF Depth
  <2>4. ASSUME Depth' > 0 PROVE Top'.at \in Tasks
    <3>1. Depth - 1 \in 1..Depth - 1 /\ Depth - 1 \in 1..Depth /\ Depth - 1 < Depth
      BY <2>3, <2>4
    <3>2. Top' = stack[Depth - 1] /\ Framed(Depth - 1)
      BY <1>1, <2>2, <2>3, <3>1 DEF Top, Stacked
    <3>3. QED BY <3>1, <3>2 DEF Framed
  <2>5. QED BY <2>4, BusyPump, PumpPlaces DEF Pumps
<1>9. CASE Sleep
  <2>1. /\ At("idle") /\ Depth > 0 /\ Top.at = "idle" /\ ~Top.quit
        /\ Depth > 1 \/ deferred = << >>
        /\ UNCHANGED <<work, incoming, delayed, deferred, event, waking, allowed, due>>
        /\ GoTo("work") \/ (GoTo("wait") /\ next' = next)
    BY <1>9 DEF Sleep, IdleWorkDone, At
  <2>2. CASE GoTo("work")
    <3>1. Top'.at = "work"
      BY <1>1, <2>1, <2>2, GoingTo, TurnedTop, PumpPlaces DEF Pumps
    <3>2. QED BY <3>1, BusyPump
  <2>3. CASE GoTo("wait") /\ next' = next
    <3>1. Depth' = Depth /\ Top'.at = "wait" /\ Top'.quit = Top.quit
      BY <1>1, <2>1, <2>3, GoingTo, TurnedTop, PumpPlaces DEF Pumps
    <3>2. Searched'
      BY <1>1, <2>1, <3>1 DEF Searched
    <3>3. Timed'
      BY <1>1, <2>1, <2>3, <3>1 DEF Timed
    <3>4. allowed
      BY <1>1, <2>1, TopFrame, PumpPlaces DEF Stacked, Framed, Pumps, Top
    <3>5. Depth \in Nat
      BY <1>1, <2>1, TopFrame
    <3>6. Waits'
      BY <2>1, <3>1, <3>4, <3>5 DEF Waits, At
    <3>7. QED BY <3>2, <3>3, <3>6
  <2>4. QED BY <2>1, <2>2, <2>3
<1>10. CASE WakeUp
  <2>1. Top'.at = "work"
    BY <1>1, <1>10, GoingTo, TurnedTop, PumpPlaces DEF WakeUp, At, Pumps
  <2>2. QED BY <2>1, BusyPump
<1>11. CASE Run
  <2>1. PICK all \in BOOLEAN : stack' = <<Frame(all, TRUE)>>
    BY <1>11 DEF Run
  <2>2. Top'.at = "work"
    BY <2>1 DEF Top, Depth, Frame
  <2>3. QED BY <2>2, BusyPump
<1>12. CASE NestedRun
  <2>1. PICK all, may \in BOOLEAN : stack' = Append(stack, Frame(all, may))
    BY <1>12 DEF NestedRun
  <2>2. PICK f : f = Frame(all, may)
    OBVIOUS
  <2>3. f \in Frames /\ f.at = "work"
    BY <2>2 DEF Frame, Frames, Places
  <2>4. stack \in Seq(Frames)
    BY <1>1 DEF Stacked
  <2>5. Top' = f
    BY <2>1, <2>2, <2>3, <2>4 DEF Top, Depth
  <2>6. QED BY <2>3, <2>5, BusyPump
<1>13. CASE Quit
  <2>1. Top'.at \in Tasks
    BY <1>1, <1>13, QuitTurns, TurnedTop DEF Quit, InTask
  <2>2. QED BY <2>1, BusyPump, PumpPlaces DEF Pumps
<1>14. CASE TaskReturns
  <2>1. Top'.at \in {"work", "delayed"} /\ Top'.did = (Top'.at = "delayed")
    BY <1>1, <1>14, TaskReturnTurns, TurnedTop
  <2>2. QED BY <2>1, BusyPump
<1>15. ASSUME NEW u \in Tasks, PostTask(u) PROVE Searched' /\ Timed' /\ Waits'
  <2>1. /\ UNCHANGED <<work, delayed, deferred, stack, allowed, event, next>>
        /\ waking' = IF incoming = << >> THEN waking + 1 ELSE waking
        /\ ~Within(u, posted) /\ waking \in Nat
    BY <1>1, <1>15, Contained DEF PostTask, Types
  <2>2. Depth' = Depth /\ Top' = Top
    BY <2>1 DEF Depth, Top
  <2>3. (incoming # << >> => event \/ waking > 0) => event' \/ waking' > 0
    BY <2>1
  <2>4. Searched'
    BY <1>1, <2>1, <2>2, <2>3 DEF Searched
  <2>5. delayed # << >> => due'[Head(delayed)] = due[Head(delayed)]
    <3>1. ASSUME delayed # << >> PROVE Head(delayed) \in Tasks /\ Within(Head(delayed), delayed)
      BY <1>1, <3>1, TakingHead DEF Types
    <3>2. ASSUME delayed # << >> PROVE Head(delayed) # u
      BY <1>1, <2>1, <3>1, <3>2 DEF Queued, Placed
    <3>3. due \in [Tasks -> Nat \cup {Null}] /\ \E v : due' = [due EXCEPT ![u] = v]
      BY <1>1, <1>15 DEF PostTask, Types
    <3>4. QED BY <3>1, <3>2, <3>3
  <2>6. Timed'
    BY <1>1, <2>1, <2>2, <2>5 DEF Timed
  <2>7. Waits'
    BY <1>1, <2>1, <2>2 DEF Waits, At
  <2>8. QED BY <2>4, <2>6, <2>7
<1>16. CASE ScheduleWork \/ Tick \/ UNCHANGED vars
  <2>1. /\ UNCHANGED <<work, incoming, delayed, deferred, due, stack, allowed, next>>
        /\ event' = TRUE \/ (event' = event /\ waking' = waking)
    BY <1>16 DEF ScheduleWork, Tick, vars
  <2>2. Depth' = Depth /\ Top' = Top
    BY <2>1 DEF Depth, Top
  <2>3. (event \/ waking > 0) => event' \/ waking' > 0
    BY <2>1
  <2>4. Searched'
    BY <1>1, <2>1, <2>2, <2>3 DEF Searched
  <2>5. Timed'
    BY <1>1, <2>1, <2>2 DEF Timed
  <2>6. Waits'
    BY <1>1, <2>1, <2>2 DEF Waits, At
  <2>7. QED BY <2>4, <2>5, <2>6
<1>17. QED
  BY <1>2, <1>3, <1>4, <1>5, <1>6, <1>7, <1>8, <1>9, <1>10, <1>11, <1>12, <1>13, <1>14,
     <1>15, <1>16 DEF Next, Pump, User

-----------------------------------------------------------------------------
LEMMA InvariantInitially ==
  ASSUME Init
  PROVE  IInv
<1>1. /\ incoming = << >> /\ work = << >> /\ delayed = << >> /\ deferred = << >>
      /\ due = [t \in Tasks |-> Null] /\ stack = << >> /\ allowed = TRUE
      /\ event = FALSE /\ waking = 0 /\ next = Null /\ now = 0
      /\ posted = << >> /\ ran = << >> /\ nested = {}
  BY DEF Init
<1>2. Types
  <2>1. << >> \in Seq(Tasks) /\ [t \in Tasks |-> Null] \in [Tasks -> Nat \cup {Null}]
    OBVIOUS
  <2>2. QED BY <1>1, <2>1 DEF Types
<1>3. Once /\ \A x : /\ ~Within(x, posted) /\ ~Within(x, incoming) /\ ~Within(x, work)
                     /\ ~Within(x, delayed) /\ ~Within(x, deferred) /\ ~Within(x, ran)
  BY <1>1, WithinEmpty DEF Once
<1>4. \A t \in Tasks : Placed(t)
  BY <1>3 DEF Placed
<1>5. ASSUME NEW s \in Tasks, NEW t \in Tasks PROVE InOrder(s, t)
  BY <1>3, PrecedesWithin DEF InOrder
<1>6. Stacked
  <2>1. Depth = 0 /\ stack \in Seq(Frames) /\ 0 <= MaxDepth
    BY <1>1, BoundAssumption DEF Depth
  <2>2. QED BY <1>1, <2>1 DEF Stacked
<1>7. Searched /\ Timed /\ Waits
  BY <1>1 DEF Searched, Timed, Waits, At, Depth
<1>8. QED BY <1>2, <1>3, <1>4, <1>5, <1>6, <1>7 DEF IInv, Queued

LEMMA InvariantKept ==
  ASSUME IInv, [Next]_vars
  PROVE  IInv'
<1>1. Types' /\ Queued'
  BY QueuedHolds DEF IInv
<1>2. Stacked'
  BY StackedHolds DEF IInv
<1>3. Searched' /\ Timed' /\ Waits'
  BY SearchesHold
<1>4. QED BY <1>1, <1>2, <1>3 DEF IInv

LEMMA Joined ==
  ASSUME NEW s \in Seq(Tasks), NEW r \in Seq(Tasks), NoRepeats(s), NoRepeats(r),
         \A t \in Tasks : ~(Within(t, s) /\ Within(t, r))
  PROVE  \E q \in Seq(Tasks) :
           /\ q = s \o r /\ NoRepeats(q)
           /\ \A t \in Tasks : Within(t, q) <=> Within(t, s) \/ Within(t, r)
<1>1. /\ s \o r \in Seq(Tasks) /\ NoRepeats(s \o r)
      /\ \A t \in Tasks : Within(t, s \o r) <=> Within(t, s) \/ Within(t, r)
  BY Joining
<1>2. QED BY <1>1

(* The queues hold each task that was posted, and in one place.              *)
LEMMA TasksInOnePlace ==
  ASSUME Types, Queued
  PROVE  /\ ToSet(posted) \subseteq Tasks /\ IsInjective(posted)
         /\ IsInjective(incoming \o work \o delayed \o deferred \o ran)
         /\ ToSet(incoming \o work \o delayed \o deferred \o ran) = ToSet(posted)
<1>1. /\ posted \in Seq(Tasks) /\ incoming \in Seq(Tasks) /\ work \in Seq(Tasks)
      /\ delayed \in Seq(Tasks) /\ deferred \in Seq(Tasks) /\ ran \in Seq(Tasks) /\ Once
  BY DEF Types, Queued
<1>2. PICK a \in Seq(Tasks) :
        /\ a = incoming \o work /\ NoRepeats(a)
        /\ \A t \in Tasks : Within(t, a) <=> Within(t, incoming) \/ Within(t, work)
  <2>1. \A t \in Tasks : ~(Within(t, incoming) /\ Within(t, work))
    BY DEF Queued, Placed
  <2>2. QED BY <1>1, <2>1, Joined DEF Once
<1>3. PICK b \in Seq(Tasks) :
        /\ b = a \o delayed /\ NoRepeats(b)
        /\ \A t \in Tasks : Within(t, b) <=> Within(t, a) \/ Within(t, delayed)
  <2>1. \A t \in Tasks : ~(Within(t, a) /\ Within(t, delayed))
    BY <1>2 DEF Queued, Placed
  <2>2. QED BY <1>1, <1>2, <2>1, Joined DEF Once
<1>4. PICK c \in Seq(Tasks) :
        /\ c = b \o deferred /\ NoRepeats(c)
        /\ \A t \in Tasks : Within(t, c) <=> Within(t, b) \/ Within(t, deferred)
  <2>1. \A t \in Tasks : ~(Within(t, b) /\ Within(t, deferred))
    BY <1>2, <1>3 DEF Queued, Placed
  <2>2. QED BY <1>1, <1>3, <2>1, Joined DEF Once
<1>5. PICK d \in Seq(Tasks) :
        /\ d = c \o ran /\ NoRepeats(d)
        /\ \A t \in Tasks : Within(t, d) <=> Within(t, c) \/ Within(t, ran)
  <2>1. \A t \in Tasks : ~(Within(t, c) /\ Within(t, ran))
    BY <1>2, <1>3, <1>4 DEF Queued, Placed
  <2>2. QED BY <1>1, <1>4, <2>1, Joined DEF Once
<1>6. d = incoming \o work \o delayed \o deferred \o ran
  BY <1>2, <1>3, <1>4, <1>5
<1>7. \A t \in Tasks : Within(t, d) <=> Within(t, posted)
  BY <1>2, <1>3, <1>4, <1>5 DEF Queued, Placed
<1>8. ToSet(posted) \subseteq Tasks /\ ToSet(d) \subseteq Tasks
  BY <1>1, <1>5, Contained, WithinType
<1>9. ToSet(d) = ToSet(posted)
  BY <1>1, <1>5, <1>7, <1>8, Contained
<1>10. IsInjective(posted) /\ IsInjective(d)
  BY <1>1, <1>5 DEF IsInjective, Once, NoRepeats
<1>11. QED BY <1>6, <1>8, <1>9, <1>10

(* No task overtakes one it should follow.                                   *)
LEMMA NoneOvertakes ==
  ASSUME Types, Queued, NEW s \in Tasks, NEW t \in Tasks, s \in Nestable, Overtakes(t, s),
         due[s] = Null => due[t] = Null
  PROVE  FALSE
<1>1. /\ posted \in Seq(Tasks) /\ ran \in Seq(Tasks)
      /\ Placed(s) /\ Placed(t) /\ InOrder(s, t)
  BY DEF Types, Queued
<1>2. Precedes(posted, s, t) /\ due[s] <= due[t] /\ Within(t, ran) /\ ~Within(s, ran)
  BY <1>1, Contained DEF Overtakes, Precedes
<1>3. Within(s, posted)
  BY <1>2, PrecedesWithin
<1>4. ~Within(t, incoming) /\ ~Within(t, work) /\ ~Within(t, delayed)
  BY <1>1, <1>2 DEF Placed
<1>5. ~Precedes(incoming, s, t) /\ ~Precedes(work, s, t) /\ ~Precedes(delayed, s, t)
  BY <1>4, PrecedesWithin
<1>6. ~Within(s, incoming) /\ ~Within(s, work) /\ ~Within(s, delayed)
  BY <1>1, <1>2, <1>4, <1>5 DEF InOrder
<1>7. Within(s, deferred)
  BY <1>1, <1>2, <1>3, <1>6 DEF Placed
<1>8. QED BY <1>1, <1>7 DEF Placed

LEMMA InvariantSound ==
  ASSUME IInv
  PROVE  LoopSound
<1>1. Types /\ Queued /\ Stacked /\ Searched /\ Timed /\ Waits
  BY DEF IInv
<1>2. TypeOK
  BY <1>1, TasksInOnePlace DEF TypeOK, Types, Stacked
<1>3. Reentrancy
  <2>1. ASSUME NEW n \in 2..Depth, stack[n].at \in Tasks
        PROVE  stack[n].granted /\ stack[n].at \in Nestable
    <3>1. n \in 1..Depth /\ n # 1
      BY <1>1 DEF Stacked, Depth
    <3>2. QED BY <1>1, <2>1, <3>1 DEF Stacked, Framed
  <2>2. QED BY <2>1 DEF Reentrancy
<1>4. InTimeAndOrder
  <2>1. Nestable \subseteq Tasks
    BY TaskAssumption
  <2>2. \A s, t \in Nestable \cap AtOnce : ~Overtakes(t, s)
    BY <1>1, <2>1, NoneOvertakes DEF AtOnce
  <2>3. \A s, t \in Nestable \ AtOnce : ~Overtakes(t, s)
    BY <1>1, <2>1, NoneOvertakes DEF AtOnce
  <2>4. ASSUME NEW t \in ToSet(ran) PROVE due[t] <= now
    <3>1. ran \in Seq(Tasks)
      BY <1>1 DEF Types
    <3>2. Within(t, ran)
      BY <2>4, <3>1, Contained
    <3>3. t \in Tasks
      BY <3>1, <3>2, WithinType
    <3>4. QED BY <1>1, <3>2, <3>3 DEF Queued, Placed
  <2>5. QED BY <2>2, <2>3, <2>4 DEF InTimeAndOrder
<1>5. NeverOversleeps
  BY <1>1 DEF NeverOversleeps, Searched, Timed, Waits, At
<1>6. QED BY <1>2, <1>3, <1>4, <1>5 DEF LoopSound

(* In every state each task is in one place, tasks start in the order and at *)
(* the time they were posted for, none is entered without leave, and a pump  *)
(* that sleeps will be woken for all there is to do.                         *)
THEOREM LoopStaysSound == Spec => []LoopSound
<1>1. Init => IInv
  BY InvariantInitially
<1>2. IInv /\ [Next]_vars => IInv'
  BY InvariantKept
<1>3. IInv => LoopSound
  BY InvariantSound
<1>4. QED BY <1>1, <1>2, <1>3, PTL DEF Spec

-----------------------------------------------------------------------------
(* A step that shortens the stack is the end of a Run.                       *)
LEMMA OnlyQuitsLeave ==
  ASSUME IInv, [Next]_vars, Depth > 0, stack' = Front(stack)
  PROVE  QuitsWhenIdle
<1>1. Stacked /\ Len(stack') = Depth - 1 /\ Depth \in Nat /\ Len(stack') # Depth
  BY Leaving, TopFrame DEF IInv
<1>2. ~Turned /\ stack' # stack
  BY <1>1 DEF Turned, Depth
<1>3. \A p \in Places : ~GoTo(p)
  BY <1>1, <1>2, GoingTo
<1>4. ~AfterDelayed
  BY <1>1, <1>2, AfterDelayedTurns
<1>5. \A t \in Tasks : \A back \in {"work", "delayed"} : ~RunTask(t, back)
  BY <1>1, <1>2, RunTaskTurns
<1>6. ~Quit /\ ~TaskReturns
  BY <1>1, <1>2, QuitTurns, TaskReturnTurns
<1>7. ~NestedRun
  <2>1. SUFFICES ASSUME NestedRun PROVE FALSE
    OBVIOUS
  <2>2. PICK all, may \in BOOLEAN : stack' = Append(stack, Frame(all, may))
    BY <2>1 DEF NestedRun
  <2>3. Len(stack') = Depth + 1
    BY <1>1, <2>2 DEF Depth, Stacked
  <2>4. QED BY <1>1, <2>3
<1>8. ~DoWorkRuns
  BY <1>5, TakingHead DEF DoWorkRuns, IInv, Types
<1>9. ~DoDelayedWork
  BY <1>4, <1>5, TakingHead DEF DoDelayedWork, IInv, Types
<1>10. ~DoIdleWorkRuns
  BY <1>5, TakingHead DEF DoIdleWorkRuns, IInv, Types
<1>11. ~DoWorkRefused /\ ~DoWorkEnds /\ ~Sleep /\ ~WakeUp
  BY <1>3 DEF DoWorkRefused, DoWorkEnds, Sleep, WakeUp, Places
<1>12. ~DoDelayedWorkNone /\ ~DoDelayedWorkEarly
  BY <1>4 DEF DoDelayedWorkNone, DoDelayedWorkEarly
<1>13. ~ReloadWorkQueue /\ ~DoWorkDelays /\ ~DoWorkDefers /\ ~ScheduleWork /\ ~Tick
       /\ ~UNCHANGED vars /\ \A t \in Tasks : ~PostTask(t)
  BY <1>2 DEF ReloadWorkQueue, DoWorkDelays, DoWorkDefers, ScheduleWork, Tick, PostTask, vars
<1>14. ~Run
  <2>1. Depth # 0
    BY <1>1
  <2>2. QED BY <2>1, Zenon DEF Run
<1>15. QED
  BY <1>6, <1>7, <1>8, <1>9, <1>10, <1>11, <1>12, <1>13, <1>14 DEF Next, Pump, User

LEMMA QuitLeavesNothing ==
  ASSUME IInv, [Next]_vars, Depth > 0, stack' = Front(stack)
  PROVE  (allowed => work = << >>) /\ (Depth = 1 => deferred = << >>)
<1>1. QuitsWhenIdle
  BY OnlyQuitsLeave
<1>2. Searched /\ Depth \in Nat
  BY TopFrame DEF IInv
<1>3. QED BY <1>1, <1>2 DEF QuitsWhenIdle, IdleWorkDone, At, Searched

(* A Run returns only when it has run all that it was given to run at once   *)
(* (and the outermost one all that was deferred).                            *)
THEOREM QuitsDrained == Spec => QuitDrains
<1>1. Init => IInv
  BY InvariantInitially
<1>2. IInv /\ [Next]_vars => IInv'
  BY InvariantKept
<1>3. IInv /\ [Next]_vars =>
        [Depth > 0 /\ stack' = Front(stack) =>
           /\ allowed => work = << >>
           /\ Depth = 1 => deferred = << >>]_vars
  BY QuitLeavesNothing
<1>4. QED BY <1>1, <1>2, <1>3, PTL DEF Spec, QuitDrains

-----------------------------------------------------------------------------
(* The callers of PostNonNestableDelayedTask aside, no task that is not      *)
(* nestable has a delay.                                                     *)
NoneDeferredLate == \A t \in Tasks \ Nestable : Delays[t] \subseteq {0}

(* Then a pump never passes over a task that is due: DoDelayedWork stops at  *)
(* one that is not, and the queue is sorted.                                 *)
NoneLeft == \A n \in 1..Depth : ~stack[n].left
Punctual == NoneLeft /\ \A t \in Tasks \ Nestable : due[t] = Null

LEMMA NothingDueLeft ==
  ASSUME IInv, Punctual, AfterDelayed, due' = due,
         DoDelayedWorkNone \/ DoDelayedWorkEarly \/ DoDelayedWork
  PROVE  ~LeavesDue
<1>1. SUFFICES ASSUME LeavesDue PROVE FALSE
  OBVIOUS
<1>2. /\ Types /\ Queued /\ Stacked /\ At("delayed") /\ Depth > 0 /\ Depth \in Nat /\ now \in Int
  BY TopFrame DEF IInv, Types, DoDelayedWorkNone, DoDelayedWorkEarly, DoDelayedWork, At
<1>3. PICK t : t \in ToSet(delayed') /\ RunNow(t) /\ due[t] <= now
  BY <1>1 DEF LeavesDue
<1>4. allowed /\ delayed \in Seq(Tasks)
  BY <1>1, <1>2 DEF LeavesDue, Types
<1>5. CASE DoDelayedWork
  <2>1. /\ delayed # << >> /\ due[Head(delayed)] <= now
        /\ Head(delayed) \in Tasks /\ Within(Head(delayed), delayed)
    BY <1>4, <1>5, TakingHead DEF DoDelayedWork
  <2>2. due[Head(delayed)] # Null
    BY <1>2, <2>1 DEF Queued, Placed
  <2>3. RunNow(Head(delayed))
    BY <2>1, <2>2 DEF Punctual, RunNow
  <2>4. RunTask(Head(delayed), "work")
    BY <1>5, <2>3 DEF DoDelayedWork
  <2>5. Top'.at = Head(delayed)
    BY <1>2, <2>1, <2>4, RunTaskTurns, TurnedTop
  <2>6. Top'.at \in {"work", "idle"}
    BY <1>2, AfterDelayedTurns, TurnedTop
  <2>7. QED BY <2>1, <2>5, <2>6, PumpPlaces DEF Pumps
<1>6. CASE DoDelayedWorkNone
  <2>1. delayed' = << >>
    BY <1>4, <1>6 DEF DoDelayedWorkNone
  <2>2. QED BY <1>3, <2>1 DEF ToSet
<1>7. CASE DoDelayedWorkEarly
  <2>1. delayed' = delayed /\ delayed # << >> /\ due[Head(delayed)] > now
    BY <1>7 DEF DoDelayedWorkEarly
  <2>2. Within(t, delayed) /\ Head(delayed) \in Tasks /\ t \in Tasks
    BY <1>3, <1>4, <2>1, Contained, TakingHead, WithinType
  <2>3. t # Head(delayed)
    BY <1>2, <1>3, <2>1, <2>2, DueIsInt
  <2>4. Precedes(delayed, Head(delayed), t)
    BY <1>4, <2>1, <2>2, <2>3, TakingHead, PrecedesTaking
  <2>5. due[Head(delayed)] <= due[t]
    BY <1>2, <2>2, <2>4 DEF Queued, InOrder
  <2>6. due[Head(delayed)] \in Int /\ due[t] \in Int
    BY <1>2, <2>2, DueIsInt
  <2>7. QED BY <1>2, <1>3, <2>1, <2>5, <2>6
<1>8. QED BY <1>5, <1>6, <1>7

LEMMA NotDelayed ==
  ASSUME NoneDeferredLate, IInv, Punctual, [Next]_vars
  PROVE  \A t \in Tasks \ Nestable : due'[t] = Null
<1>1. CASE due' = due
  BY <1>1 DEF Punctual
<1>2. ASSUME NEW u \in Tasks, PostTask(u) PROVE \A t \in Tasks \ Nestable : due'[t] = Null
  <2>1. PICK ms \in Delays[u] : due' = [due EXCEPT ![u] = IF ms > 0 THEN now + ms ELSE Null]
    BY <1>2 DEF PostTask
  <2>2. u \notin Nestable => ~(ms > 0)
    BY <2>1 DEF NoneDeferredLate
  <2>3. due \in [Tasks -> Nat \cup {Null}]
    BY DEF IInv, Types
  <2>4. QED BY <2>1, <2>2, <2>3 DEF Punctual
<1>3. QED
  BY <1>1, <1>2 DEF Next, Pump, User, DoWorkRefused, ReloadWorkQueue, DoWorkDelays, DoWorkRuns,
     DoWorkDefers, DoWorkEnds, DoDelayedWorkNone, DoDelayedWorkEarly, DoDelayedWork,
     DoIdleWorkRuns, QuitsWhenIdle, Sleep, WakeUp, Run, Quit, NestedRun, TaskReturns,
     ScheduleWork, Tick, vars

LEMMA NoneLeftKept ==
  ASSUME IInv, Punctual, [Next]_vars
  PROVE  NoneLeft'
<1>1. Types /\ Queued /\ Stacked /\ stack \in Seq(Frames)
  BY DEF IInv, Stacked
<1>2. ASSUME Turned, Depth > 0, ~stack'[Depth].left
      PROVE  NoneLeft'
  <2>1. Depth' = Depth
    BY <1>2, TurnedTop
  <2>2. QED BY <1>2, <2>1 DEF Turned, Punctual, NoneLeft
<1>3. ASSUME Depth > 0 PROVE ~Top.left
  <2>1. Depth \in 1..Depth
    BY <1>1, <1>3, TopFrame
  <2>2. QED BY <2>1 DEF Punctual, NoneLeft, Top
<1>4. ASSUME NEW p \in Places, Depth > 0, GoTo(p) PROVE NoneLeft'
  BY <1>1, <1>2, <1>4, GoingTo
<1>5. ASSUME NEW t \in Tasks, NEW back \in {"work", "delayed"}, Depth > 0, RunTask(t, back)
      PROVE  NoneLeft'
  BY <1>1, <1>2, <1>5, RunTaskTurns
<1>6. ASSUME Depth > 0, AfterDelayed, ~LeavesDue PROVE NoneLeft'
  BY <1>1, <1>2, <1>6, AfterDelayedTurns
<1>7. CASE DoWorkRefused \/ DoWorkEnds \/ Sleep \/ WakeUp
  BY <1>4, <1>7 DEF DoWorkRefused, DoWorkEnds, Sleep, WakeUp, IdleWorkDone, At, Places
<1>8. CASE DoWorkRuns
  BY <1>1, <1>5, <1>8, TakingHead DEF DoWorkRuns, At, Types
<1>9. CASE DoIdleWorkRuns
  BY <1>1, <1>5, <1>9, TakingHead DEF DoIdleWorkRuns, At, Types
<1>10. CASE DoDelayedWorkNone \/ DoDelayedWorkEarly
  <2>1. AfterDelayed /\ Depth > 0 /\ due' = due
    BY <1>10 DEF DoDelayedWorkNone, DoDelayedWorkEarly, At
  <2>2. QED BY <1>6, <1>10, <2>1, NothingDueLeft
<1>11. CASE DoDelayedWork
  <2>1. Depth > 0 /\ due' = due /\ Head(delayed) \in Tasks
    BY <1>1, <1>11, TakingHead DEF DoDelayedWork, At, Types
  <2>2. CASE RunTask(Head(delayed), "work")
    BY <1>5, <2>1, <2>2
  <2>3. CASE AfterDelayed
    BY <1>6, <1>11, <2>1, <2>3, NothingDueLeft
  <2>4. QED BY <1>11, <2>2, <2>3 DEF DoDelayedWork
<1>12. CASE Quit
  BY <1>1, <1>2, <1>3, <1>12, QuitTurns DEF Quit, InTask
<1>13. CASE TaskReturns
  BY <1>1, <1>2, <1>3, <1>13, TaskReturnTurns DEF TaskReturns, InTask
<1>14. CASE QuitsWhenIdle
  <2>1. Depth > 0 /\ stack' = Front(stack)
    BY <1>14 DEF QuitsWhenIdle, IdleWorkDone, At
  <2>2. Depth' = Depth - 1 /\ Depth \in Nat /\ \A n \in 1..Depth - 1 : stack'[n] = stack[n]
    BY <1>1, <2>1, Leaving, TopFrame DEF Depth
  <2>3. QED BY <2>2 DEF Punctual, NoneLeft
<1>15. CASE Run
  <2>1. PICK all \in BOOLEAN : stack' = <<Frame(all, TRUE)>>
    BY <1>15 DEF Run
  <2>2. Depth' = 1 /\ stack'[1].left = FALSE
    BY <2>1 DEF Depth, Frame
  <2>3. QED BY <2>2 DEF NoneLeft
<1>16. CASE NestedRun
  <2>1. PICK all, may \in BOOLEAN : stack' = Append(stack, Frame(all, may))
    BY <1>16 DEF NestedRun
  <2>2. PICK f : f = Frame(all, may)
    OBVIOUS
  <2>3. f \in Frames /\ f.left = FALSE
    BY <2>2 DEF Frame, Frames, Places
  <2>4. Depth = Len(stack) /\ Depth \in Nat
    BY <1>1 DEF Depth
  <2>5. Depth' = Depth + 1 /\ stack'[Depth + 1] = f /\ \A n \in 1..Depth : stack'[n] = stack[n]
    BY <1>1, <2>1, <2>2, <2>3, <2>4 DEF Depth
  <2>6. QED BY <2>3, <2>4, <2>5 DEF Punctual, NoneLeft
<1>17. CASE stack' = stack
  <2>1. Depth' = Depth
    BY <1>17 DEF Depth
  <2>2. QED BY <1>17, <2>1 DEF Punctual, NoneLeft
<1>18. QED
  BY <1>7, <1>8, <1>9, <1>10, <1>11, <1>12, <1>13, <1>14, <1>15, <1>16, <1>17
     DEF Next, Pump, User, PostTask, ScheduleWork, Tick, ReloadWorkQueue, DoWorkDelays,
         DoWorkDefers, vars

(* If no task that is not nestable is posted with a delay, a Run that returns *)
(* leaves nothing behind: neither in the work queue nor deferred, nor a      *)
(* delayed task that was due when it looked.  With such a task DoDelayedWork *)
(* returns after having deferred it, and what is due behind it waits.        *)
THEOREM RunsLeaveNothing ==
  ASSUME NoneDeferredLate
  PROVE  Spec => RunsDrain
<1>1. Init => IInv /\ Punctual
  <2>1. ASSUME Init PROVE Punctual
    BY <2>1 DEF Init, Punctual, NoneLeft, Depth
  <2>2. QED BY <2>1, InvariantInitially
<1>2. IInv /\ Punctual /\ [Next]_vars => IInv' /\ Punctual'
  BY InvariantKept, NotDelayed, NoneLeftKept DEF Punctual
<1>3. IInv /\ [Next]_vars =>
        [Depth > 0 /\ stack' = Front(stack) =>
           /\ allowed => work = << >>
           /\ Depth = 1 => deferred = << >>]_vars
  BY QuitLeavesNothing
<1>4. IInv /\ Punctual => (Depth > 0 => ~Top.left)
  BY TopFrame DEF IInv, Punctual, NoneLeft, Top
<1>5. IInv /\ Punctual => [Depth > 0 /\ stack' = Front(stack) => ~Top.left]_vars
  BY <1>4
<1>6. QED BY <1>1, <1>2, <1>3, <1>5, PTL DEF Spec, RunsDrain, QuitDrains, PendingTaken
=============================================================================
