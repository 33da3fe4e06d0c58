------------------------------- MODULE DictMap --------------------------------
(***************************************************************************)
(* What a dictionary promises to its caller: a map, and iterators that     *)
(* return once every key that is in the map all along.                     *)
(***************************************************************************)
CONSTANTS Keys, Vals, Iters, NoKey, NoVal

VARIABLES
  map,     \* the value of each key, NoVal when it is absent
  cursor,  \* per iterator: open, the keys present since it started, those returned
  reply    \* the last call and its result

vars == <<map, cursor, reply>>

IsIn(k) == map[k] # NoVal

Present == {k \in Keys : IsIn(k)}

NoCursor == [open |-> FALSE, stable |-> {}, returned |-> {}]

Without(c, ks) == [c EXCEPT !.stable = @ \ ks, !.returned = @ \ ks]

Init ==
  /\ map = [k \in Keys |-> NoVal]
  /\ cursor = [i \in Iters |-> NoCursor]
  /\ reply = [op |-> "none"]

Add(k, v) ==
  /\ reply' = [op |-> "dictAdd", ok |-> ~IsIn(k)]
  /\ map' = IF IsIn(k) THEN map ELSE [map EXCEPT ![k] = v]
  /\ UNCHANGED cursor

Replace(k, v) ==
  /\ reply' = [op |-> "dictReplace", ok |-> ~IsIn(k)]
  /\ map' = [map EXCEPT ![k] = v]
  /\ UNCHANGED cursor

Delete(k) ==
  /\ reply' = [op |-> "dictDelete", ok |-> IsIn(k)]
  /\ map' = [map EXCEPT ![k] = NoVal]
  /\ cursor' = [i \in Iters |-> Without(cursor[i], {k})]

Fetch(k) ==
  /\ reply' = [op |-> "dictFetchValue", val |-> map[k]]
  /\ UNCHANGED <<map, cursor>>

Random ==
  /\ \/ Present = {} /\ reply' = [op |-> "dictGetRandomKey", key |-> NoKey]
     \/ \E k \in Present : reply' = [op |-> "dictGetRandomKey", key |-> k]
  /\ UNCHANGED <<map, cursor>>

Empty ==
  /\ reply' = [op |-> "dictEmpty"]
  /\ map' = [k \in Keys |-> NoVal]
  /\ UNCHANGED cursor

(* The first call of dictNext opens the iterator.                            *)
Opened(c) == IF c.open THEN c ELSE [open |-> TRUE, stable |-> Present, returned |-> {}]

(* A key that is present and was not returned before, or the end, once every *)
(* key present all along was returned.                                       *)
NextKey(i) ==
  /\ LET c == Opened(cursor[i])
     IN  \/ \E k \in Present \ c.returned :
              /\ reply' = [op |-> "dictNext", iter |-> i, key |-> k]
              /\ cursor' = [cursor EXCEPT ![i] = [c EXCEPT !.returned = @ \cup {k}]]
         \/ /\ c.stable \subseteq c.returned
            /\ reply' = [op |-> "dictNext", iter |-> i, key |-> NoKey]
            /\ cursor' = [cursor EXCEPT ![i] = c]
  /\ UNCHANGED map

Release(i) ==
  /\ reply' = [op |-> "dictReleaseIterator"]
  /\ cursor' = [cursor EXCEPT ![i] = NoCursor]
  /\ UNCHANGED map

(* Calls that only move entries around.                                      *)
Reorganise ==
  /\ reply' = [op |-> "none"]
  /\ UNCHANGED <<map, cursor>>

(* The call that is replied to; saying which first spares the others.        *)
Calls(op) == reply'.op = op

Next ==
  \/ Calls("dictAdd") /\ \E k \in Keys, v \in Vals : Add(k, v)
  \/ Calls("dictReplace") /\ \E k \in Keys, v \in Vals : Replace(k, v)
  \/ Calls("dictDelete") /\ \E k \in Keys : Delete(k)
  \/ Calls("dictFetchValue") /\ \E k \in Keys : Fetch(k)
  \/ Calls("dictNext") /\ \E i \in Iters : NextKey(i)
  \/ Calls("dictReleaseIterator") /\ \E i \in Iters : Release(i)
  \/ Calls("dictGetRandomKey") /\ Random
  \/ Calls("dictEmpty") /\ Empty
  \/ Calls("none") /\ Reorganise

Spec == Init /\ [][Next]_vars
=============================================================================
