----------------------------- MODULE ObserverSlots ------------------------------
(***************************************************************************)
(* The value of an ObserverList (common/observer_list..h and the same class *)
(* in chromium/base/observer_list.h): a vector of slots and the number of   *)
(* notifications under way.  A slot is nulled, not erased, while one is.    *)
(***************************************************************************)
EXTENDS Integers, Sequences

CONSTANTS Observers, Null

ASSUME NullAssumption == Null \notin Observers

NewList == [observers |-> << >>, depth |-> 0]

Registered(l) == {l.observers[n] : n \in DOMAIN l.observers} \ {Null}

(* AddObserver; "Observers can only be added once!"                          *)
Added(l, o) == [l EXCEPT !.observers = Append(@, o)]

(* The slots other than those holding x.                                     *)
Kept(slots, x) ==
  LET kept[n \in 0..Len(slots)] ==
        IF n = 0 THEN << >>
        ELSE IF slots[n] = x THEN kept[n - 1] ELSE Append(kept[n - 1], slots[n])
  IN  kept

Without(slots, x) == Kept(slots, x)[Len(slots)]

(* Mutants of Removed: the slot is always erased; during a notification the   *)
(* observer stays.                                                           *)
RemovedErasing(l, o) == [l EXCEPT !.observers = Without(@, o)]

RemovedLater(l, o) == IF l.depth # 0 THEN l ELSE RemovedErasing(l, o)

(* RemoveObserver: nothing when the observer is not there.                   *)
Removed(l, o) ==
  LET Nulled(s) == IF s = o THEN Null ELSE s
  IN  IF l.depth # 0
      THEN [l EXCEPT !.observers = [n \in DOMAIN @ |-> Nulled(@[n])]]
      ELSE [l EXCEPT !.observers = Without(@, o)]

Compact(l) == [l EXCEPT !.observers = Without(@, Null)]

(* The constructor and the destructor of the iterator.                       *)
Entered(l) == [l EXCEPT !.depth = @ + 1]

(* Mutants of Left: the slots are compacted at the end of any notification,  *)
(* or of none.                                                               *)
LeftCompacting(l) == Compact([l EXCEPT !.depth = @ - 1])

Left(l) ==
  LET out == [l EXCEPT !.depth = @ - 1]
  IN  IF out.depth = 0 THEN Compact(out) ELSE out

(* The slots that GetNext, which has seen those up to index, may return.     *)
Ahead(l, index, max) ==
  {n \in index + 1..Len(l.observers) : n <= max /\ l.observers[n] # Null}

First(ns) == CHOOSE n \in ns : \A m \in ns : n <= m
=============================================================================
