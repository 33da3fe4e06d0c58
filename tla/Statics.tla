-------------------------------- MODULE Statics --------------------------------
(***************************************************************************)
(* What a program keeps in static variables, from its first use up to the end *)
(* of main(): LazyObjects and ThreadLocalSlots, used by the same threads and  *)
(* sharing the indexes of the native thread local storage.                   *)
(***************************************************************************)
EXTENDS LazyObjects, ThreadLocalSlots

staticsVars == <<calls, left, native, objectVars, slotVars>>

StaticsInit == CallsInit /\ ObjectsInit /\ SlotsInit

(* User code calls, or a thread ends: main()'s when the managers are gone,    *)
(* another one at any time, and another one starts in its place.             *)
UserCode ==
  \/ ObjectCalls /\ UNCHANGED slotVars
  \/ \E t \in OSThreads : MayCall /\ SlotCalls(t) /\ UNCHANGED objectVars
  \/ \E t \in OSThreads : ThreadExit(t) /\ (t = MainThread => managers = << >>) /\ UNCHANGED objectVars

Step(t) ==
  /\ ~Idle(t)
  /\ \/ ObjectStep(t) /\ UNCHANGED slotVars
     \/ SlotStep(t) /\ UNCHANGED objectVars

StaticsNext == UserCode \/ \E t \in OSThreads : Step(t)

StaticsSpec == StaticsInit /\ [][StaticsNext]_staticsVars
(* The system runs every thread that can run; one that yields, again.        *)
StaticsFairSpec == StaticsSpec /\ \A t \in OSThreads : WF_staticsVars(Step(t))

-----------------------------------------------------------------------------
(* Who holds index i of the native storage.                                  *)
Holders(i) ==
  {<<"pointer", o>> : o \in {p \in Pointers : slot[p] = i}}
    \cup {<<"thread", t>> : t \in {u \in OSThreads : In(u, "table", "swap") /\ Local(u)[1] = i}}
    \cup {<<"storage", k>> : k \in {tls_key_} \cap {i}}

(* ObjectsSound and SlotsSound, and of the native indexes each is held by one *)
(* ThreadLocalPointer, by ThreadLocalStorage or by a thread about to give it  *)
(* to that: none is leaked, shared or used after it was freed.               *)
StaticsSound ==
  /\ ObjectsSound /\ SlotsSound
  /\ \A i \in Indexes : Cardinality(Holders(i)) = IF i \in DOMAIN native THEN 1 ELSE 0

(* Every call returns: nobody spins for an object nobody creates.            *)
CallsEnd == \A t \in OSThreads : calls[t] # << >> ~> calls[t] = << >>
=============================================================================
