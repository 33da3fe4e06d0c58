-------------------------- MODULE ObserverListThreadSafe --------------------------
(***************************************************************************)
(* chromium/base/observer_list_threadsafe.h: one ObserverList for each       *)
(* thread that has added observers, made and deleted as observers come and   *)
(* go, and notifications posted to those threads as tasks.  list_lock_       *)
(* protects the map of the lists, not the lists: each step below is a        *)
(* critical section of it or what a thread does between two.                 *)
(***************************************************************************)
EXTENDS ObserverSlots

CONSTANTS
  Loops,        \* message loops, one to a thread
  Lists,        \* addresses at which a list can be allocated
  Home,         \* the thread on which an observer is added and removed
  Reentrant,    \* observers that are removed while their thread notifies
  MaxTasks,     \* bound on the tasks waiting at a loop
  MaxSlots      \* bound on the length of a list

ASSUME HomeAssumption  == Home \in [Observers -> Loops] /\ Reentrant \subseteq Observers
ASSUME BoundAssumption == MaxTasks \in Nat /\ MaxSlots \in Nat
ASSUME NullAddress     == Null \notin Lists

VARIABLES
  lists,       \* the list at each address, also when it was deleted
  live,        \* the addresses of lists that were made and not deleted
  map,         \* observer_lists_; Null where a loop has no entry
  tasks,       \* per loop: the NotifyWrapper tasks posted to it
  run,         \* per loop: the NotifyWrapper it runs
  pc,          \* per thread: between the two halves of AddObserver or RemoveObserver
  registered,  \* history: observers added and not removed
  owed         \* history: observers that were registered at a Notify and are
               \* neither called nor removed since

vars == <<lists, live, map, tasks, run, pc, registered, owed>>

Free  == [op |-> "free"]
NoRun == [list |-> Null, index |-> 0, calling |-> FALSE]

Init ==
  /\ lists = [l \in Lists |-> NewList]
  /\ live = {}
  /\ map = [t \in Loops |-> Null]
  /\ tasks = [t \in Loops |-> << >>]
  /\ run = [t \in Loops |-> NoRun]
  /\ pc = [t \in Loops |-> Free]
  /\ registered = {} /\ owed = {}

Running(t) == run[t] # NoRun

(* A task of the user, or an observer being called, runs on the thread.      *)
UserRuns(t) == pc[t] = Free /\ (Running(t) => run[t].calling)

(* AddObserver: the list of this loop, which may have to be made, at any     *)
(* address that is free; then, unlocked, its AddObserver.                    *)
AddLocked(t, o) ==
  /\ UserRuns(t) /\ Home[o] = t /\ o \notin registered
  /\ \/ /\ map[t] # Null
        /\ Len(lists[map[t]].observers) < MaxSlots
        /\ UNCHANGED <<lists, live, map>>
     \/ /\ map[t] = Null
        /\ \E l \in Lists \ live : /\ lists' = [lists EXCEPT ![l] = NewList]
                                   /\ live' = live \cup {l}
                                   /\ map' = [map EXCEPT ![t] = l]
  /\ pc' = [pc EXCEPT ![t] = [op |-> "adding", obs |-> o, list |-> map'[t]]]
  /\ UNCHANGED <<tasks, run, registered, owed>>

AddUnlocked(t) ==
  /\ pc[t].op = "adding"
  /\ lists' = [lists EXCEPT ![pc[t].list] = Added(@, pc[t].obs)]
  /\ registered' = registered \cup {pc[t].obs}
  /\ pc' = [pc EXCEPT ![t] = Free]
  /\ UNCHANGED <<live, map, tasks, run, owed>>

(* Mutant of RemoveLocked: the list stays in the map.                        *)
RemoveKeepingEntry(t, o) ==
  /\ UserRuns(t) /\ Home[o] = t /\ o \in registered
  /\ Running(t) => o \in Reentrant
  /\ map[t] # Null
  /\ pc' = [pc EXCEPT ![t] = [op |-> "removing", obs |-> o, list |-> map[t]]]
  /\ UNCHANGED <<lists, live, map, tasks, run, registered, owed>>

(* RemoveObserver: the list leaves the map if this is the last observer on   *)
(* it; then, unlocked, its RemoveObserver, and the list is deleted if it is  *)
(* empty, which it is not under a notification.                              *)
RemoveLocked(t, o) ==
  /\ UserRuns(t) /\ Home[o] = t /\ o \in registered
  /\ Running(t) => o \in Reentrant
  /\ map[t] # Null
  /\ map' = IF Len(lists[map[t]].observers) = 1 THEN [map EXCEPT ![t] = Null] ELSE map
  /\ pc' = [pc EXCEPT ![t] = [op |-> "removing", obs |-> o, list |-> map[t]]]
  /\ UNCHANGED <<lists, live, tasks, run, registered, owed>>

RemoveUnlocked(t) ==
  LET l     == pc[t].list
      after == Removed(lists[l], pc[t].obs)
  IN
  /\ pc[t].op = "removing"
  /\ lists' = [lists EXCEPT ![l] = after]
  /\ live' = IF after.observers = << >> THEN live \ {l} ELSE live
  /\ registered' = registered \ {pc[t].obs}
  /\ owed' = owed \ {pc[t].obs}
  /\ pc' = [pc EXCEPT ![t] = Free]
  /\ UNCHANGED <<map, tasks, run>>

(* Mutant of Notify: nothing for the loop of the caller.                     *)
NotifyOthers(t) ==
  /\ UserRuns(t)
  /\ \A u \in Loops : map[u] # Null => Len(tasks[u]) < MaxTasks
  /\ tasks' = [u \in Loops |-> IF map[u] = Null \/ u = t THEN tasks[u]
                               ELSE Append(tasks[u], map[u])]
  /\ owed' = owed \cup registered
  /\ UNCHANGED <<lists, live, map, run, pc, registered>>

(* Notify, on any thread: a NotifyWrapper to every loop in the map.          *)
Notify(t) ==
  /\ UserRuns(t)
  /\ \A u \in Loops : map[u] # Null => Len(tasks[u]) < MaxTasks
  /\ tasks' = [u \in Loops |-> IF map[u] = Null THEN tasks[u]
                               ELSE Append(tasks[u], map[u])]
  /\ owed' = owed \cup registered
  /\ UNCHANGED <<lists, live, map, run, pc, registered>>

(* NotifyWrapper: the list has to be the one in the map still.               *)
NotifyWrapper(t) ==
  LET l == Head(tasks[t])
  IN
  /\ pc[t] = Free /\ ~Running(t) /\ tasks[t] # << >>
  /\ tasks' = [tasks EXCEPT ![t] = Tail(@)]
  /\ IF map[t] = l
     THEN /\ run' = [run EXCEPT ![t] = [NoRun EXCEPT !.list = l]]
          /\ lists' = [lists EXCEPT ![l] = Entered(@)]
     ELSE UNCHANGED <<run, lists>>
  /\ UNCHANGED <<live, map, pc, registered, owed>>

NextSlots(t) == Ahead(lists[run[t].list], run[t].index, MaxSlots)

CallNext(t) ==
  LET n == First(NextSlots(t))
  IN
  /\ pc[t] = Free /\ Running(t) /\ NextSlots(t) # {}
  /\ run' = [run EXCEPT ![t].index = n, ![t].calling = TRUE]
  /\ owed' = owed \ {lists[run[t].list].observers[n]}
  /\ UNCHANGED <<lists, live, map, tasks, pc, registered>>

(* The iterator is destroyed, and so is the list if no observer is left.     *)
NotifyWrapperEnds(t) ==
  LET l     == run[t].list
      after == Left(lists[l])
  IN
  /\ pc[t] = Free /\ Running(t) /\ NextSlots(t) = {}
  /\ lists' = [lists EXCEPT ![l] = after]
  /\ live' = IF after.observers = << >> THEN live \ {l} ELSE live
  /\ run' = [run EXCEPT ![t] = NoRun]
  /\ UNCHANGED <<map, tasks, pc, registered, owed>>

Next ==
  \E t \in Loops :
    \/ \E o \in Observers : AddLocked(t, o) \/ RemoveLocked(t, o)
    \/ AddUnlocked(t) \/ RemoveUnlocked(t)
    \/ Notify(t)
    \/ NotifyWrapper(t) \/ CallNext(t) \/ NotifyWrapperEnds(t)

Spec == Init /\ [][Next]_vars

(* Threads run: calls return, and a loop, which is a queue, comes to every   *)
(* task in the end whatever else its thread does.                            *)
Fairness ==
  \A t \in Loops : /\ WF_vars(AddUnlocked(t)) /\ WF_vars(RemoveUnlocked(t))
                   /\ SF_vars(NotifyWrapper(t))
                   /\ SF_vars(CallNext(t)) /\ SF_vars(NotifyWrapperEnds(t))

FairSpec == Spec /\ Fairness

-----------------------------------------------------------------------------
Calls == {Free} \cup [op : {"adding", "removing"}, obs : Observers, list : Lists]

Reachable(o) ==
  LET t == Home[o]
  IN IF map[t] = Null THEN pc[t].op = "removing" ELSE o \in Registered(lists[map[t]])

(* Types; a list is under notification where its thread runs NotifyWrapper.  *)
(* An observer that is registered is on the list the map has for its loop.   *)
TypeOK ==
  /\ \A l \in Lists : /\ lists[l].observers \in Seq(Observers \cup {Null})
                      /\ l \in live => lists[l].depth = IF \E t \in Loops : run[t].list = l
                                                        THEN 1 ELSE 0
  /\ live \subseteq Lists
  /\ map \in [Loops -> Lists \cup {Null}]
  /\ tasks \in [Loops -> Seq(Lists)]
  /\ run \in [Loops -> [list : Lists \cup {Null}, index : Nat, calling : BOOLEAN]]
  /\ pc \in [Loops -> Calls]
  /\ registered \subseteq Observers /\ owed \subseteq registered
  /\ \A o \in registered : Reachable(o)

InUse(t) == ({map[t], run[t].list} \ {Null}) \cup IF pc[t] = Free THEN {} ELSE {pc[t].list}

(* The lists there are, are those in the map, those a thread notifies, and   *)
(* those a call has at hand: no list is used after it was deleted, by        *)
(* whichever of RemoveObserver and NotifyWrapper came first, and none leaks. *)
(* "Verify this list is no longer registered", says NotifyWrapper where it   *)
(* deletes one.                                                              *)
LiveInUse == live = UNION {InUse(t) : t \in Loops}

(* "If there are pending notifications in-transit to the observer, they will *)
(* be aborted" (RemoveObserver): who is called is registered.                *)
OnlyRegistered ==
  [][\A t \in Loops : Running(t) /\ run'[t].index # run[t].index /\ run'[t] # NoRun
       => lists[run[t].list].observers[run'[t].index] \in registered]_vars

(* "When Notifying the observers, we simply call PostTask to each registered *)
(* thread": an observer registered at a Notify is called in the end, unless  *)
(* it is removed.                                                            *)
Delivery == \A o \in Observers : o \in owed ~> o \notin owed

(* In every state: an observer that is registered is on its loop's list, and *)
(* the lists there are, are those in use.                                    *)
ListsSound == TypeOK /\ LiveInUse
=============================================================================
