------------------------------ MODULE LazyObjects ------------------------------
(***************************************************************************)
(* Objects made on first use, by Singleton::get (chromium/base/singleton.h)  *)
(* or LazyInstance::Pointer (lazy_instance.h, .cc), and destroyed by the      *)
(* AtExitManager (at_exit.cc).  Any thread may be the first to use an object; *)
(* the constructor and the destructor of an object may use another one.      *)
(* Objects may be ThreadLocalPointers (thread_local.h, thread_local_win.cc),  *)
(* which hold an index of the native thread local storage while they live.   *)
(*                                                                         *)
(* Callbacks are processed by main() while no other thread runs, as at_exit.h *)
(* and singleton.h ask; a LazyInstance is not used after they were, since     *)
(* its state_ then still says that there is an object.  The manager's lock_   *)
(* is held all that time, so that nothing can be registered: with Overtaking, *)
(* callbacks are also processed when that is about to happen.                *)
(***************************************************************************)
EXTENDS ThreadCalls

CONSTANTS
  Objects,     \* the objects, each with its Singleton or LazyInstance,
  Lazy,        \* the ones with a LazyInstance,
  Leaky,       \* the Singletons with LeakySingletonTraits,
  Pointers,    \* the ThreadLocalPointers
  Uses,        \* the object its constructor and destructor get, or NULL
  Overtaking,  \* whether callbacks are processed when some object was
               \* registered before the one that it uses
  MaxManagers  \* bound on the AtExitManagers at a time

(* Objects that use each other in a circle would wait for each other.        *)
ASSUME ObjectsAssumption ==
  /\ IsFiniteSet(Objects) /\ NULL \notin Objects
  /\ Lazy \subseteq Objects /\ Leaky \subseteq Objects \ Lazy /\ Pointers \subseteq Objects
  /\ Uses \in [Objects -> Objects \cup {NULL}]
  /\ \E rank \in [Objects -> 1..Cardinality(Objects)] :
       \A o \in Objects : Uses[o] # NULL => rank[Uses[o]] < rank[o]
  /\ Overtaking \in BOOLEAN /\ MaxManagers \in Nat \ {0}

VARIABLES
  cell,        \* instance_ or state_: "empty", "creating" or "created"
  life,        \* of the object: "none", "constructing", "alive" or "destroying"
  slot,        \* slot_ of each ThreadLocalPointer, or NULL
  managers,    \* the AtExitManagers, g_top_manager last: stack_, the top last
  under        \* history: what was registered when the constructor began

objectVars == <<cell, life, slot, managers, under>>

ObjectsInit ==
  /\ cell = [o \in Objects |-> "empty"] /\ life = [o \in Objects |-> "none"]
  /\ slot = [o \in Pointers |-> NULL]
  /\ managers = << << >> >>
  /\ under = [o \in Objects |-> {}]

-----------------------------------------------------------------------------
GetCall(o) == Frame("get", o, "load", << >>)
GetUsed(o) == IF Uses[o] = NULL THEN << >> ELSE <<GetCall(Uses[o])>>

OthersIdle == \A t \in OSThreads \ {MainThread} : Idle(t)

(* t holds lock_ of the top manager: ProcessCallbacksNow has it from its      *)
(* first line to its last, also while it calls a destructor.                 *)
Holds(t) == \E k \in DOMAIN calls[t] : calls[t][k].fn = "callbacks"
Processing == Holds(MainThread)
MayCall == managers # << >> /\ ~Processing

(* A LazyInstance whose object was destroyed.                                *)
Spent(o) == o \in Lazy /\ cell[o] = "created" /\ life[o] = "none"
(* Neither o nor what it needs, for itself or through another one, is spent.  *)
Usable(o) == \E S \in SUBSET {q \in Objects : ~Spent(q)} :
               o \in S /\ \A q \in S : Uses[q] \in S \cup {NULL}

(* User code gets an object and uses it, and with it the object that uses.    *)
Use(t, o) ==
  /\ MayCall /\ Usable(o)
  /\ UserCalls(t, "objects", <<Frame("use", o, "got", << >>), GetCall(o)>>)
  /\ UNCHANGED <<native, objectVars>>

(* Using a ThreadLocalPointer is setting it.                                 *)
Used(t) ==
  /\ In(t, "use", "got") /\ Return(t)
  /\ IF On(t) \in Pointers THEN TlsSetValue(t, slot[On(t)], t) ELSE UNCHANGED native
  /\ UNCHANGED <<left, objectVars>>

(* The fast path of get and of Pointer.                                      *)
Load(t) ==
  /\ In(t, "get", "load")
  /\ IF cell[On(t)] = "created" THEN Return(t) ELSE GoTo(t, "swap", << >>, << >>)
  /\ UNCHANGED <<left, native, objectVars>>

(* Whether the compare-and-swap makes its caller the one to construct.       *)
WinsAny(o) == cell[o] # "created"  \* mutant: also when another thread has won
Wins(o) == cell[o] = "empty"

Registered == UNION {Range(managers[m]) : m \in DOMAIN managers}

Swap(t) ==
  /\ In(t, "get", "swap")
  /\ LET o == On(t)
     IN  IF Wins(o)
         THEN /\ cell' = [cell EXCEPT ![o] = "creating"]
              /\ life' = [life EXCEPT ![o] = "constructing"]
              /\ under' = [under EXCEPT ![o] = Registered]
              /\ GoTo(t, "new", << >>, GetUsed(o))
         ELSE GoTo(t, "spin", << >>, << >>) /\ UNCHANGED <<cell, life, under>>
  /\ UNCHANGED <<left, native, slot, managers>>

(* The end of the constructor, that of a ThreadLocalPointer with AllocateSlot.*)
New(t) ==
  /\ In(t, "get", "new")
  /\ life' = [life EXCEPT ![On(t)] = "alive"]
  /\ IF On(t) \in Pointers
     THEN \E i \in Indexes : TlsAlloc(i) /\ slot' = [slot EXCEPT ![On(t)] = i]
     ELSE UNCHANGED <<native, slot>>
  /\ GoTo(t, "store", << >>, << >>)
  /\ UNCHANGED <<left, cell, managers, under>>

(* Mutant of Stored: what is not registered is not stored either.            *)
StoredUnlessLeaky(o) == IF o \in Leaky THEN cell ELSE [cell EXCEPT ![o] = "created"]
Stored(o) == [cell EXCEPT ![o] = "created"]

(* The release store, after which other threads get the object.              *)
Store(t) ==
  /\ In(t, "get", "store")
  /\ cell' = Stored(On(t))
  /\ IF On(t) \in Leaky THEN Return(t) ELSE GoTo(t, "register", << >>, << >>)
  /\ UNCHANGED <<left, native, life, slot, managers, under>>

(* RegisterCallback, which waits for lock_.  It is for one thread once: the   *)
(* lock asserts that a thread that has it does not come for it again.        *)
Register(t) ==
  /\ In(t, "get", "register") /\ managers # << >>
  /\ \A u \in OSThreads : ~Holds(u)
  /\ managers' = Front(managers) \o <<Append(Last(managers), On(t))>>
  /\ Return(t)
  /\ UNCHANGED <<left, native, cell, life, slot, under>>

(* A Singleton waits for any value but the marker, a LazyInstance for CREATED.*)
Spin(t) ==
  /\ In(t, "get", "spin")
  /\ IF On(t) \in Lazy THEN cell[On(t)] = "created" ELSE cell[On(t)] # "creating"
  /\ Return(t)
  /\ UNCHANGED <<left, native, objectVars>>

-----------------------------------------------------------------------------
(* An AtExitManager that shadows the others, in tests.                       *)
Shadow ==
  /\ MayCall /\ OthersIdle /\ Len(managers) < MaxManagers
  /\ Spend(MainThread, "objects")
  /\ managers' = Append(managers, << >>)
  /\ UNCHANGED <<calls, native, cell, life, slot, under>>

(* In the top manager some object is below the one that it uses: it will be   *)
(* destroyed after that, and its destructor will make and register it again. *)
Overtaken ==
  LET stack == Last(managers)
  IN  \E k \in DOMAIN stack, j \in DOMAIN stack : k < j /\ stack[j] = Uses[stack[k]]

(* ProcessCallbacksNow, and the destructor of the top manager.               *)
ProcessCallbacksNow ==
  /\ MayCall /\ OthersIdle /\ (Overtaken => Overtaking)
  /\ UserCalls(MainThread, "objects", <<Frame("callbacks", "now", "pop", << >>)>>)
  /\ UNCHANGED <<native, objectVars>>
DestroyManager ==
  /\ MayCall /\ OthersIdle /\ (Overtaken => Overtaking) /\ Idle(MainThread)
  /\ calls' = [calls EXCEPT ![MainThread] = <<Frame("callbacks", "destructor", "pop", << >>)>>]
  /\ UNCHANGED <<left, native, objectVars>>

NextCallbackFirst(stack) == 1   \* mutant: first in, first out
NextCallback(stack) == Len(stack)

(* One round of the loop in ProcessCallbacksNow, which keeps lock_.           *)
Pop(t) ==
  /\ In(t, "callbacks", "pop") /\ Last(managers) # << >>
  /\ LET stack == Last(managers)
         k == NextCallback(stack)
     IN  /\ managers' = Front(managers) \o <<RemoveAt(stack, k)>>
         /\ GoTo(t, "pop", << >>, <<Frame("exit", stack[k], "take", << >>)>>)
  /\ UNCHANGED <<left, native, cell, life, slot, under>>

Processed(t) ==
  /\ In(t, "callbacks", "pop") /\ Last(managers) = << >>
  /\ managers' = IF On(t) = "destructor" THEN Front(managers) ELSE managers
  /\ Return(t)
  /\ UNCHANGED <<left, native, cell, life, slot, under>>

(* OnExit of a Singleton empties instance_ before it deletes the object; a    *)
(* LazyInstance has its object destroyed and keeps state_.                    *)
Take(t) ==
  /\ In(t, "exit", "take")
  /\ LET o == On(t)
     IN  /\ cell' = IF o \in Lazy THEN cell ELSE [cell EXCEPT ![o] = "empty"]
         /\ life' = [life EXCEPT ![o] = "destroying"]
         /\ GoTo(t, "delete", << >>, GetUsed(o))
  /\ UNCHANGED <<left, native, slot, managers, under>>

(* The end of the destructor, that of a ThreadLocalPointer with FreeSlot.     *)
Delete(t) ==
  /\ In(t, "exit", "delete")
  /\ LET o == On(t)
     IN  /\ life' = [life EXCEPT ![o] = "none"]
         /\ under' = [p \in Objects |-> IF p = o THEN {} ELSE under[p] \ {o}]
         /\ IF o \in Pointers
            THEN TlsFree(slot[o]) /\ slot' = [slot EXCEPT ![o] = NULL]
            ELSE UNCHANGED <<native, slot>>
  /\ Return(t)
  /\ UNCHANGED <<left, cell, managers>>

ObjectStep(t) ==
  \/ Used(t) \/ Load(t) \/ Swap(t) \/ New(t) \/ Store(t) \/ Register(t) \/ Spin(t)
  \/ Pop(t) \/ Processed(t) \/ Take(t) \/ Delete(t)

ObjectCalls ==
  \/ \E t \in OSThreads, o \in Objects : Use(t, o)
  \/ Shadow \/ ProcessCallbacksNow \/ DestroyManager

-----------------------------------------------------------------------------
(* What t works with, besides the object its innermost call is about.        *)
Relies(t) ==
  IF In(t, "use", "got") THEN {On(t)}
  ELSE IF In(t, "get", "new") \/ In(t, "exit", "delete") THEN {Uses[On(t)]} \ {NULL} ELSE {}

Count(o) ==
  Cardinality(UNION {{<<m, k>> : k \in {j \in DOMAIN managers[m] : managers[m][j] = o}} : m \in DOMAIN managers})
Registering(o) == \E t \in OSThreads : calls[t] # << >> /\ On(t) = o
                    /\ (In(t, "get", "store") \/ In(t, "get", "register"))
Constructors(o) == {t \in OSThreads : \E k \in DOMAIN calls[t] :
                      calls[t][k].fn = "get" /\ calls[t][k].on = o /\ calls[t][k].pc \in {"new", "store"}}

(* Whoever got an object works with one that is constructed and not yet       *)
(* destroyed; one thread at most constructs it; and an object that lives, is  *)
(* not leaky and not on its way to the manager is registered exactly once,    *)
(* any other never: no destructor runs twice, and none is left out.  Nobody   *)
(* comes to register while he processes callbacks and so has lock_ already:   *)
(* "we do not allow this" (lock_impl_win.cc:8).                              *)
ObjectsSound ==
  /\ \A t \in OSThreads : \A o \in Relies(t) : life[o] = "alive"
  /\ \A t \in OSThreads : In(t, "get", "register") => ~Holds(t)
  /\ \A o \in Objects :
       /\ Cardinality(Constructors(o)) <= 1
       /\ Count(o) = IF life[o] = "alive" /\ o \notin Leaky /\ ~Registering(o)
                          /\ ~(\E t \in OSThreads : In(t, "exit", "take") /\ On(t) = o)
                     THEN 1 ELSE 0

(* An object is not destroyed before those whose constructors began when it  *)
(* was already registered: they may use it in their destructors.             *)
DestroyedInOrder ==
  \A o \in Objects, p \in Objects \ Leaky :
    life[o] = "destroying" /\ o \in under[p] => life[p] \notin {"constructing", "alive"}
=============================================================================
