--------------------------- MODULE ObserversProofs ----------------------------
(***************************************************************************)
(* Proofs about the observer lists, for any set of observers, any lengths    *)
(* and any nesting of notifications.                                         *)
(***************************************************************************)
EXTENDS Observers, SequenceFacts

Slots == Seq(Observers \cup {Null})

(* "Observers can only be added once!"                                       *)
AddedOnce(s) == \A m, n \in DOMAIN s : s[m] = s[n] /\ s[m] # Null => m = n

-----------------------------------------------------------------------------
(* Kept is the function its recursion describes.                             *)
KeptUpTo(s, x, k, f) ==
  /\ f \in [0..k -> Slots]
  /\ f[0] = << >>
  /\ \A n \in 1..k : f[n] = IF s[n] = x THEN f[n - 1] ELSE Append(f[n - 1], s[n])

LEMMA KeptExists ==
  ASSUME NEW s \in Slots, NEW x
  PROVE  \A k \in 0..Len(s) : \E f : KeptUpTo(s, x, k, f)
<1> DEFINE C == {k \in 0..Len(s) : ~ \E f : KeptUpTo(s, x, k, f)}
<1>0. Len(s) \in Nat /\ \A n \in 1..Len(s) : s[n] \in Observers \cup {Null}
  BY Domain DEF Slots
<1>1. SUFFICES ASSUME C # {} PROVE FALSE
  OBVIOUS
<1>2. PICK k \in C : \A n \in C : k <= n
  <2>1. C \subseteq Nat
    BY <1>0
  <2> HIDE DEF C
  <2>2. QED BY <1>1, <2>1, NatMin
<1>3. CASE k = 0
  <2>1. KeptUpTo(s, x, 0, [n \in 0..0 |-> << >>])
    <3>1. << >> \in Slots
      BY DEF Slots
    <3>2. QED BY <3>1 DEF KeptUpTo
  <2>2. QED BY <1>3, <2>1
<1>4. CASE k # 0
  <2>1. k \in 1..Len(s) /\ k - 1 \in 0..Len(s) /\ k - 1 \notin C
    BY <1>0, <1>2, <1>4
  <2>2. PICK f : KeptUpTo(s, x, k - 1, f)
    BY <2>1
  <2> DEFINE next == IF s[k] = x THEN f[k - 1] ELSE Append(f[k - 1], s[k])
             g == [n \in 0..k |-> IF n = k THEN next ELSE f[n]]
  <2>3. f[k - 1] \in Slots
    BY <2>1, <2>2 DEF KeptUpTo
  <2>4. next \in Slots
    BY <2>1, <2>3, <1>0 DEF Slots
  <2> HIDE DEF next
  <2>5. g \in [0..k -> Slots]
    <3>1. ASSUME NEW n \in 0..k PROVE g[n] \in Slots
      <4>1. CASE n = k
        BY <4>1, <2>4
      <4>2. CASE n # k
        BY <4>2, <2>1, <2>2 DEF KeptUpTo
      <4>3. QED BY <4>1, <4>2
    <3>2. QED BY <3>1
  <2>6. g[0] = << >>
    BY <2>1, <2>2 DEF KeptUpTo
  <2>7. ASSUME NEW n \in 1..k
        PROVE  g[n] = IF s[n] = x THEN g[n - 1] ELSE Append(g[n - 1], s[n])
    <3>1. CASE n = k
      BY <3>1, <2>1 DEF next
    <3>2. CASE n # k
      <4>1. n \in 1..k - 1 /\ n - 1 \in 0..k - 1
        BY <3>2, <2>1
      <4>2. g[n] = f[n] /\ g[n - 1] = f[n - 1]
        BY <4>1, <2>1
      <4>3. QED BY <4>1, <4>2, <2>2 DEF KeptUpTo
    <3>3. QED BY <3>1, <3>2
  <2>8. KeptUpTo(s, x, k, g)
    <3> HIDE DEF g
    <3>1. QED BY <2>5, <2>6, <2>7 DEF KeptUpTo
  <2>9. QED BY <2>8, <1>2
<1>5. QED BY <1>3, <1>4

LEMMA KeptDef ==
  ASSUME NEW s \in Slots, NEW x
  PROVE  KeptUpTo(s, x, Len(s), Kept(s, x))
<1> DEFINE Def(f) == [n \in 0..Len(s) |->
                        IF n = 0 THEN << >>
                        ELSE IF s[n] = x THEN f[n - 1] ELSE Append(f[n - 1], s[n])]
<1>0. Len(s) \in Nat /\ \A n \in 1..Len(s) : s[n] \in Observers \cup {Null}
  BY Domain DEF Slots
<1>1. PICK g : KeptUpTo(s, x, Len(s), g)
  <2>1. Len(s) \in 0..Len(s)
    BY <1>0
  <2>2. QED BY <2>1, KeptExists
<1>2. g = Def(g)
  <2>1. ASSUME NEW n \in 0..Len(s) PROVE g[n] = Def(g)[n]
    <3>1. CASE n = 0
      BY <3>1, <1>0, <1>1 DEF KeptUpTo
    <3>2. CASE n # 0
      <4>1. n \in 1..Len(s)
        BY <3>2, <1>0
      <4>2. QED BY <4>1, <3>2, <1>1 DEF KeptUpTo
    <3>3. QED BY <3>1, <3>2
  <2>2. g = [n \in 0..Len(s) |-> g[n]]
    BY <1>1 DEF KeptUpTo
  <2>3. Def(g) = [n \in 0..Len(s) |-> Def(g)[n]]
    OBVIOUS
  <2>4. QED BY <2>1, <2>2, <2>3
<1>3. Kept(s, x) = CHOOSE f : f = Def(f)
  BY DEF Kept
<1>4. Kept(s, x) = Def(Kept(s, x))
  BY <1>2, <1>3
<1> DEFINE h == Kept(s, x)
<1> HIDE DEF h
<1>5. h = Def(h)
  BY <1>4 DEF h
<1>6. h[0] = << >> /\ \A n \in 1..Len(s) : h[n] = IF s[n] = x THEN h[n - 1] ELSE Append(h[n - 1], s[n])
  <2>1. \A n \in 0..Len(s) : h[n] = Def(h)[n]
    BY <1>5
  <2>2. 0 \in 0..Len(s) /\ h[0] = << >>
    BY <1>0, <2>1
  <2>3. ASSUME NEW n \in 1..Len(s)
        PROVE  h[n] = IF s[n] = x THEN h[n - 1] ELSE Append(h[n - 1], s[n])
    <3>1. n \in 0..Len(s) /\ n # 0
      BY <1>0
    <3>2. QED BY <2>1, <3>1
  <2>4. QED BY <2>2, <2>3
<1>7. \A n \in 0..Len(s) : h[n] \in Slots
  <2> DEFINE C == {n \in 0..Len(s) : h[n] \notin Slots}
  <2>1. SUFFICES ASSUME C # {} PROVE FALSE
    OBVIOUS
  <2>2. PICK k \in C : \A n \in C : k <= n
    <3>1. C \subseteq Nat
      BY <1>0
    <3> HIDE DEF C
    <3>2. QED BY <2>1, <3>1, NatMin
  <2>3. k # 0
    <3>1. << >> \in Slots
      BY DEF Slots
    <3>2. QED BY <3>1, <2>2, <1>6
  <2>4. k \in 1..Len(s) /\ k - 1 \in 0..Len(s) /\ k - 1 \notin C
    BY <1>0, <2>2, <2>3
  <2>5. h[k - 1] \in Slots
    BY <2>4
  <2>6. h[k] \in Slots
    <3>1. Append(h[k - 1], s[k]) \in Slots
      BY <2>4, <2>5, <1>0 DEF Slots
    <3>2. h[k] = h[k - 1] \/ h[k] = Append(h[k - 1], s[k])
      BY <2>4, <1>6
    <3>3. QED BY <3>1, <3>2, <2>5
  <2>7. QED BY <2>2, <2>6
<1>8. h \in [0..Len(s) -> Slots]
  <2>1. h = [n \in 0..Len(s) |-> h[n]]
    BY <1>5
  <2>2. QED BY <2>1, <1>7
<1>9. QED BY <1>6, <1>8 DEF KeptUpTo, h

LEMMA AppendingOnce ==
  ASSUME NEW s \in Slots, NEW o \in Observers \cup {Null}
  PROVE  AddedOnce(s) /\ (o = Null \/ ~Within(o, s)) => AddedOnce(Append(s, o))
<1> DEFINE r == Append(s, o)
<1>1. /\ DOMAIN s = 1..Len(s) /\ Len(s) \in Nat /\ DOMAIN r = 1..Len(s) + 1
      /\ \A n \in 1..Len(s) : r[n] = s[n]
      /\ r[Len(s) + 1] = o
  BY DEF Slots
<1> HIDE DEF r
<1>2. AddedOnce(s) /\ (o = Null \/ ~Within(o, s)) => AddedOnce(r)
  BY <1>1 DEF AddedOnce, Within
<1>3. QED BY <1>2 DEF r

(* Without drops the slots that hold x, and no others.                       *)
LEMMA WithoutFacts ==
  ASSUME NEW s \in Slots, NEW x
  PROVE  /\ Without(s, x) \in Slots
         /\ Len(Without(s, x)) <= Len(s)
         /\ \A y : Within(y, Without(s, x)) <=> Within(y, s) /\ y # x
         /\ AddedOnce(s) => AddedOnce(Without(s, x))
<1> DEFINE f == Kept(s, x)
           Ok(k) == /\ Len(f[k]) <= k
                    /\ \A y : Within(y, f[k]) <=> y # x /\ \E n \in 1..k : s[n] = y
                    /\ AddedOnce(s) => AddedOnce(f[k])
<1>0. Len(s) \in Nat /\ DOMAIN s = 1..Len(s) /\ \A n \in 1..Len(s) : s[n] \in Observers \cup {Null}
  BY Domain DEF Slots
<1>1. KeptUpTo(s, x, Len(s), f)
  BY KeptDef
<1> HIDE DEF f
<1>2. \A k \in 0..Len(s) : Ok(k)
  <2> DEFINE C == {k \in 0..Len(s) : ~Ok(k)}
  <2>1. SUFFICES ASSUME C # {} PROVE FALSE
    OBVIOUS
  <2>2. PICK k \in C : \A n \in C : k <= n
    <3>1. C \subseteq Nat
      BY <1>0
    <3> HIDE DEF C
    <3>2. QED BY <2>1, <3>1, NatMin
  <2>3. Ok(0)
    BY <1>1, WithinEmpty DEF KeptUpTo, AddedOnce, NoRepeats
  <2>4. k \in 1..Len(s) /\ k - 1 \in 0..Len(s) /\ Ok(k - 1)
    <3> HIDE DEF Ok
    <3>1. k # 0
      BY <2>2, <2>3
    <3>2. k \in 1..Len(s) /\ k - 1 \in 0..Len(s) /\ ~(k <= k - 1)
      BY <3>1, <1>0
    <3>3. QED BY <3>2, <2>2
  <2>5. Ok(k - 1) /\ f[k - 1] \in Slots
    BY <2>4, <1>1 DEF KeptUpTo
  <2>6. CASE s[k] = x
    <3>1. f[k] = f[k - 1]
      BY <2>4, <2>6, <1>1 DEF KeptUpTo
    <3>2. \A y : y # x => ((\E n \in 1..k - 1 : s[n] = y) <=> \E n \in 1..k : s[n] = y)
      BY <2>4, <2>6, <1>0
    <3>3. Len(f[k]) <= k
      BY <2>4, <2>5, <3>1, <1>0 DEF Slots
    <3>4. Ok(k)
      BY <2>5, <3>1, <3>2, <3>3
    <3>5. QED BY <2>2, <3>4
  <2>7. CASE s[k] # x
    <3>1. f[k] = Append(f[k - 1], s[k])
      BY <2>4, <2>7, <1>1 DEF KeptUpTo
    <3>2. \A y : (\E n \in 1..k : s[n] = y) <=> (\E n \in 1..k - 1 : s[n] = y) \/ y = s[k]
      BY <2>4, <1>0
    <3>3. /\ \A y : Within(y, f[k]) <=> Within(y, f[k - 1]) \/ y = s[k]
      BY <3>1, <2>4, <2>5, <1>0, Appending DEF Slots
    <3>5. Len(f[k]) <= k
      BY <3>1, <2>4, <2>5, <1>0 DEF Slots
    <3>6. \A y : Within(y, f[k]) <=> y # x /\ \E n \in 1..k : s[n] = y
      BY <2>5, <2>7, <3>2, <3>3
    <3>7. AddedOnce(s) => AddedOnce(f[k])
      <4>1. AddedOnce(s) => s[k] = Null \/ ~ \E n \in 1..k - 1 : s[n] = s[k]
        BY <2>4, <1>0 DEF AddedOnce
      <4>2. AddedOnce(s) => s[k] = Null \/ ~Within(s[k], f[k - 1])
        BY <4>1, <2>5
      <4>3. QED BY <4>2, <2>4, <2>5, <3>1, <1>0, AppendingOnce
    <3>8. QED BY <2>2, <3>5, <3>6, <3>7
  <2>8. QED BY <2>6, <2>7
<1>3. Ok(Len(s)) /\ f[Len(s)] \in Slots
  BY <1>0, <1>1, <1>2 DEF KeptUpTo
<1>4. Without(s, x) = f[Len(s)]
  BY DEF Without, f
<1>5. QED BY <1>0, <1>3, <1>4 DEF Within

-----------------------------------------------------------------------------
(* The operations of a list.                                                 *)
ListValue == [observers : Slots, depth : Nat]

LEMMA NulledFacts ==
  ASSUME NEW s \in Slots, NEW o \in Observers
  PROVE  LET r == [n \in DOMAIN s |-> IF s[n] = o THEN Null ELSE s[n]]
         IN  /\ r \in Slots /\ Len(r) = Len(s) /\ DOMAIN r = DOMAIN s
             /\ AddedOnce(s) => AddedOnce(r)
             /\ \A y : y # Null => (Within(y, r) <=> Within(y, s) /\ y # o)
<1> DEFINE r == [n \in DOMAIN s |-> IF s[n] = o THEN Null ELSE s[n]]
<1>1. DOMAIN s = 1..Len(s) /\ Len(s) \in Nat /\ \A n \in 1..Len(s) : s[n] \in Observers \cup {Null}
  BY Domain DEF Slots
<1>2. r \in [1..Len(s) -> Observers \cup {Null}]
  BY <1>1
<1>3. r \in Slots /\ Len(r) = Len(s)
  BY <1>1, <1>2 DEF Slots
<1>4. AddedOnce(s) => AddedOnce(r)
  BY DEF AddedOnce
<1>5. \A y : y # Null => (Within(y, r) <=> Within(y, s) /\ y # o)
  BY DEF Within
<1>6. QED BY <1>3, <1>4, <1>5

LEMMA AddedFacts ==
  ASSUME NEW l \in ListValue, NEW o \in Observers
  PROVE  /\ Added(l, o) \in ListValue
         /\ Added(l, o).depth = l.depth
         /\ Added(l, o).observers = Append(l.observers, o)
  BY DEF Added, ListValue, Slots

LEMMA RemovedFacts ==
  ASSUME NEW l \in ListValue, NEW o \in Observers
  PROVE  /\ Removed(l, o) \in ListValue
         /\ Removed(l, o).depth = l.depth
         /\ Len(Removed(l, o).observers) <= Len(l.observers)
         /\ AddedOnce(l.observers) => AddedOnce(Removed(l, o).observers)
         /\ \A y : y # Null => (Within(y, Removed(l, o).observers) <=> Within(y, l.observers) /\ y # o)
         /\ l.depth = 0 /\ ~Within(Null, l.observers) => ~Within(Null, Removed(l, o).observers)
         /\ l.depth # 0 => /\ DOMAIN Removed(l, o).observers = DOMAIN l.observers
                           /\ Len(Removed(l, o).observers) = Len(l.observers)
                           /\ \A n \in DOMAIN l.observers :
                                Removed(l, o).observers[n] = IF l.observers[n] = o THEN Null ELSE l.observers[n]
<1>1. l.observers \in Slots /\ l.depth \in Nat /\ Len(l.observers) \in Nat
  BY DEF ListValue, Slots
<1>2. CASE l.depth # 0
  <2> DEFINE r == [n \in DOMAIN l.observers |-> IF l.observers[n] = o THEN Null ELSE l.observers[n]]
  <2>1. Removed(l, o) = [l EXCEPT !.observers = r]
    BY <1>2 DEF Removed
  <2>2. /\ r \in Slots /\ Len(r) = Len(l.observers) /\ DOMAIN r = DOMAIN l.observers
        /\ AddedOnce(l.observers) => AddedOnce(r)
        /\ \A y : y # Null => (Within(y, r) <=> Within(y, l.observers) /\ y # o)
    BY <1>1, NulledFacts
  <2>3. \A n \in DOMAIN l.observers : r[n] = IF l.observers[n] = o THEN Null ELSE l.observers[n]
    OBVIOUS
  <2> HIDE DEF r
  <2>4. Removed(l, o) \in ListValue /\ Removed(l, o).observers = r /\ Removed(l, o).depth = l.depth
    BY <2>1, <2>2, <1>1 DEF ListValue
  <2>5. QED BY <1>1, <1>2, <2>2, <2>3, <2>4
<1>3. CASE l.depth = 0
  <2> DEFINE r == Without(l.observers, o)
  <2>1. Removed(l, o) = [l EXCEPT !.observers = r]
    BY <1>3 DEF Removed
  <2>2. /\ r \in Slots /\ Len(r) <= Len(l.observers)
        /\ \A y : Within(y, r) <=> Within(y, l.observers) /\ y # o
        /\ AddedOnce(l.observers) => AddedOnce(r)
    BY <1>1, WithoutFacts
  <2> HIDE DEF r
  <2>3. Removed(l, o) \in ListValue /\ Removed(l, o).observers = r /\ Removed(l, o).depth = l.depth
    BY <2>1, <2>2, <1>1 DEF ListValue
  <2>4. QED BY <1>1, <1>3, <2>2, <2>3
<1>4. QED BY <1>2, <1>3

LEMMA EnteredFacts ==
  ASSUME NEW l \in ListValue
  PROVE  Entered(l) \in ListValue /\ Entered(l).depth = l.depth + 1 /\ Entered(l).observers = l.observers
  BY DEF Entered, ListValue

LEMMA LeftFacts ==
  ASSUME NEW l \in ListValue, l.depth # 0
  PROVE  /\ Left(l) \in ListValue
         /\ Left(l).depth = l.depth - 1
         /\ Len(Left(l).observers) <= Len(l.observers)
         /\ AddedOnce(l.observers) => AddedOnce(Left(l).observers)
         /\ \A y : y # Null => (Within(y, Left(l).observers) <=> Within(y, l.observers))
         /\ l.depth = 1 => ~Within(Null, Left(l).observers)
         /\ l.depth # 1 => Left(l).observers = l.observers
<1>1. l.observers \in Slots /\ l.depth \in Nat \ {0} /\ Len(l.observers) \in Nat
  BY DEF ListValue, Slots
<1> DEFINE out == [l EXCEPT !.depth = @ - 1]
<1>2. out \in ListValue /\ out.depth = l.depth - 1 /\ out.observers = l.observers
  BY <1>1 DEF ListValue
<1>3. Left(l) = IF out.depth = 0 THEN Compact(out) ELSE out
  BY DEF Left
<1> HIDE DEF out
<1>4. CASE l.depth # 1
  <2>1. Left(l) = out
    BY <1>1, <1>2, <1>3, <1>4
  <2>2. QED BY <1>1, <1>2, <1>4, <2>1
<1>5. CASE l.depth = 1
  <2> DEFINE r == Without(l.observers, Null)
  <2>1. Left(l) = [out EXCEPT !.observers = r]
    BY <1>1, <1>2, <1>3, <1>5 DEF Compact
  <2>2. /\ r \in Slots /\ Len(r) <= Len(l.observers)
        /\ \A y : Within(y, r) <=> Within(y, l.observers) /\ y # Null
        /\ AddedOnce(l.observers) => AddedOnce(r)
    BY <1>1, WithoutFacts
  <2> HIDE DEF r
  <2>3. Left(l) \in ListValue /\ Left(l).observers = r /\ Left(l).depth = l.depth - 1
    BY <1>1, <1>2, <2>1, <2>2 DEF ListValue
  <2>4. QED BY <1>5, <2>2, <2>3
<1>6. QED BY <1>4, <1>5

(* An ObserverList and an ObserverListThreadSafe use the same operations.    *)
LEMMA SameOperations ==
  /\ \A l, o : Single!Added(l, o) = Added(l, o) /\ Single!Removed(l, o) = Removed(l, o)
  /\ \A l : Single!Entered(l) = Entered(l) /\ Single!Left(l) = Left(l)
  /\ \A l : Single!Registered(l) = Registered(l)
  /\ \A l, index, max : Single!Ahead(l, index, max) = Ahead(l, index, max)
<1>1. \A s, x : Single!Without(s, x) = Without(s, x)
  BY DEF Single!Without, Without, Single!Kept, Kept
<1>2. \A l, o : Single!Added(l, o) = Added(l, o) /\ Single!Removed(l, o) = Removed(l, o)
  BY <1>1 DEF Single!Added, Added, Single!Removed, Removed
<1>3. \A l : Single!Compact(l) = Compact(l)
  BY <1>1 DEF Single!Compact, Compact
<1>4. \A l : Single!Entered(l) = Entered(l) /\ Single!Left(l) = Left(l)
  BY <1>3 DEF Single!Entered, Entered, Single!Left, Left
<1>5. \A l : Single!Registered(l) = Registered(l)
  BY DEF Single!Registered, Registered
<1>6. \A l, index, max : Single!Ahead(l, index, max) = Ahead(l, index, max)
  BY DEF Single!Ahead, Ahead
<1>7. QED BY <1>2, <1>4, <1>5, <1>6

(* GetNext: the first slot ahead that holds an observer.                     *)
LEMMA FirstFacts ==
  ASSUME NEW l \in ListValue, NEW index \in Nat, NEW max \in Nat, Ahead(l, index, max) # {}
  PROVE  LET n == First(Ahead(l, index, max))
         IN  /\ n \in DOMAIN l.observers /\ n > index /\ n <= max
             /\ l.observers[n] \in Observers
             /\ \A m \in DOMAIN l.observers :
                  m > index /\ m <= max /\ l.observers[m] # Null => n <= m
<1> DEFINE S == Ahead(l, index, max)
<1>1. /\ DOMAIN l.observers = 1..Len(l.observers) /\ Len(l.observers) \in Nat
      /\ \A n \in DOMAIN l.observers : l.observers[n] \in Observers \cup {Null}
  BY Domain DEF ListValue, Slots
<1>2. S \subseteq Nat /\ S # {}
  BY <1>1 DEF Ahead
<1>3. \E n \in S : \A m \in S : n <= m
  <2> HIDE DEF S
  <2>1. QED BY <1>2, NatMin
<1>4. First(S) \in S /\ \A m \in S : First(S) <= m
  BY <1>3 DEF First
<1> DEFINE n == First(S)
<1>5. n \in S /\ \A m \in S : n <= m
  BY <1>4
<1> HIDE DEF n
<1>6. /\ n \in DOMAIN l.observers /\ n > index /\ n <= max
      /\ l.observers[n] \in Observers
  BY <1>1, <1>5 DEF Ahead
<1>7. ASSUME NEW m \in DOMAIN l.observers, m > index, m <= max, l.observers[m] # Null
      PROVE  n <= m
  <2>1. m \in S
    BY <1>1, <1>7 DEF Ahead
  <2>2. QED BY <2>1, <1>5
<1>8. QED BY <1>6, <1>7 DEF n

-----------------------------------------------------------------------------
(* The inductive invariant of a single list.  Slots do not move while there  *)
(* are notifications, so that a notification relates to the slots by their   *)
(* numbers: those up to index have been called, those up to max were there   *)
(* when it began.                                                            *)
NoteFits(note, slots, t) ==
  /\ \A o \in note.stable : \E p \in DOMAIN slots : slots[p] = o /\ p <= note.max
  /\ \A o \in note.told : \E p \in DOMAIN slots : slots[p] = o /\ p <= note.index
  /\ \A p \in DOMAIN slots :
       p <= note.index /\ slots[p] \in note.stable => slots[p] \in note.told
  /\ note.index <= Len(slots)
  /\ t = "NOTIFY_EXISTING_ONLY" =>
       /\ note.index <= note.max /\ note.max <= Len(slots)
       /\ \A p \in DOMAIN slots :
            p <= note.max /\ slots[p] # Null => slots[p] \in note.stable

SingleInv ==
  /\ list \in ListValue /\ Len(list.observers) <= MaxSlots
  /\ AddedOnce(list.observers)
  /\ type \in NotifyTypes
  /\ notes \in Seq(Single!Note) /\ Len(notes) <= MaxDepth
  /\ list.depth = Len(notes)
  /\ notes = << >> => ~Within(Null, list.observers)
  /\ \A n \in DOMAIN notes : NoteFits(notes[n], list.observers, type)

(* How a notification fits the slots after each change of either.            *)
LEMMA FitsAdded ==
  ASSUME NEW note \in Single!Note, NEW slots \in Slots, NEW t, NoteFits(note, slots, t),
         NEW o \in Observers
  PROVE  NoteFits(note, Append(slots, o), t)
<1> DEFINE r == Append(slots, o)
<1>1. /\ DOMAIN slots = 1..Len(slots) /\ Len(slots) \in Nat /\ DOMAIN r = 1..Len(slots) + 1
      /\ Len(r) = Len(slots) + 1
      /\ \A n \in 1..Len(slots) : r[n] = slots[n]
  BY DEF Slots
<1> HIDE DEF r
<1>2. note.index \in Nat /\ note.max \in Nat
  BY BoundAssumption DEF Single!Note
<1>3. NoteFits(note, r, t)
  BY <1>1, <1>2 DEF NoteFits
<1>4. QED BY <1>3 DEF r

LEMMA FitsNulled ==
  ASSUME NEW note \in Single!Note, NEW slots \in Slots, NEW t, NoteFits(note, slots, t),
         NEW o \in Observers, NEW r, DOMAIN r = DOMAIN slots, Len(r) = Len(slots),
         \A n \in DOMAIN slots : r[n] = IF slots[n] = o THEN Null ELSE slots[n]
  PROVE  LET after == [note EXCEPT !.stable = @ \ {o}, !.told = @ \ {o}]
         IN  after \in Single!Note /\ NoteFits(after, r, t)
<1> DEFINE after == [note EXCEPT !.stable = @ \ {o}, !.told = @ \ {o}]
<1>1. /\ after \in Single!Note
      /\ after.index = note.index /\ after.max = note.max
      /\ after.stable = note.stable \ {o} /\ after.told = note.told \ {o}
      /\ note.stable \subseteq Observers /\ note.told \subseteq Observers
  BY DEF Single!Note
<1> HIDE DEF after
<1>2. NoteFits(after, r, t)
  BY <1>1, NullAssumption DEF NoteFits
<1>3. QED BY <1>1, <1>2 DEF after

LEMMA FitsBegun ==
  ASSUME NEW slots \in Slots, Len(slots) <= MaxSlots, NEW note \in Single!Note,
         note.index = 0, note.told = {},
         \A o : o \in note.stable <=> Within(o, slots) /\ o # Null,
         note.max = IF type = "NOTIFY_ALL" THEN MaxSlots ELSE Len(slots)
  PROVE  NoteFits(note, slots, type)
<1>1. DOMAIN slots = 1..Len(slots) /\ Len(slots) \in Nat
  BY DEF Slots
<1>2. \A o \in note.stable : \E p \in DOMAIN slots : slots[p] = o /\ p <= note.max
  BY <1>1, BoundAssumption DEF Within
<1>3. QED BY <1>1, <1>2 DEF NoteFits, Within

LEMMA FitsCalled ==
  ASSUME NEW note \in Single!Note, NEW slots \in Slots, NEW t, NoteFits(note, slots, t),
         NEW n \in DOMAIN slots, n > note.index, n <= note.max, slots[n] \in Observers,
         \A m \in DOMAIN slots : m > note.index /\ m <= note.max /\ slots[m] # Null => n <= m
  PROVE  LET after == [note EXCEPT !.index = n, !.calling = TRUE, !.told = @ \cup {slots[n]}]
         IN  after \in Single!Note /\ NoteFits(after, slots, t)
<1> DEFINE after == [note EXCEPT !.index = n, !.calling = TRUE, !.told = @ \cup {slots[n]}]
<1>0. /\ DOMAIN slots = 1..Len(slots) /\ Len(slots) \in Nat
      /\ note.index \in Nat /\ note.max \in 0..MaxSlots /\ MaxSlots \in Nat
  BY BoundAssumption DEF Slots, Single!Note
<1>1. /\ after \in Single!Note
      /\ after.index = n /\ after.max = note.max
      /\ after.stable = note.stable /\ after.told = note.told \cup {slots[n]}
      /\ note.stable \subseteq Observers
  <2>1. n \in 0..MaxSlots
    BY <1>0
  <2>2. note.told \cup {slots[n]} \in SUBSET Observers
    BY DEF Single!Note
  <2>3. QED BY <2>1, <2>2 DEF Single!Note
<1> HIDE DEF after
<1>2. \A o \in after.told : \E p \in DOMAIN slots : slots[p] = o /\ p <= n
  BY <1>0, <1>1 DEF NoteFits
<1>3. ASSUME NEW p \in DOMAIN slots, p <= n, slots[p] \in note.stable
      PROVE  slots[p] \in after.told
  <2>1. CASE p <= note.index
    BY <2>1, <1>1, <1>3 DEF NoteFits
  <2>2. CASE p > note.index
    <3>1. slots[p] # Null /\ p <= note.max
      BY <1>0, <1>1, <1>3, NullAssumption
    <3>2. p = n
      BY <3>1, <2>2, <1>0, <1>3
    <3>3. QED BY <3>2, <1>1
  <2>3. QED BY <2>1, <2>2, <1>0
<1>4. NoteFits(after, slots, t)
  BY <1>0, <1>1, <1>2, <1>3 DEF NoteFits
<1>5. QED BY <1>1, <1>4 DEF after

LEMMA SingleStarts == Single!Init => SingleInv
<1> SUFFICES ASSUME Single!Init PROVE SingleInv
  OBVIOUS
<1>1. list = [observers |-> << >>, depth |-> 0] /\ notes = << >> /\ type \in NotifyTypes
  BY DEF Single!Init, Single!NewList
<1>2. << >> \in Slots /\ Len(<< >>) = 0 /\ AddedOnce(<< >>) /\ ~Within(Null, << >>)
  BY WithinEmpty DEF Slots, AddedOnce
<1>3. list \in ListValue
  BY <1>1, <1>2 DEF ListValue
<1>4. << >> \in Seq(Single!Note)
  OBVIOUS
<1>5. QED BY <1>1, <1>2, <1>3, <1>4, BoundAssumption, DepthAssumption DEF SingleInv

LEMMA SingleAdds == ASSUME SingleInv, NEW o \in Observers, Single!AddObserver(o) PROVE SingleInv'
<1> DEFINE slots == list.observers
<1>1. /\ list' = Added(list, o) /\ UNCHANGED <<type, notes>>
      /\ o \notin Registered(list) /\ Len(slots) < MaxSlots
      /\ notes = << >> \/ notes # << >>
  BY SameOperations DEF Single!AddObserver
<1>2. /\ list \in ListValue /\ slots \in Slots /\ Len(slots) \in Nat
  BY DEF SingleInv, ListValue, Slots
<1>3. list' \in ListValue /\ list'.depth = list.depth /\ list'.observers = Append(slots, o)
  BY <1>1, <1>2, AddedFacts
<1>4. Len(list'.observers) <= MaxSlots
  BY <1>1, <1>2, <1>3, BoundAssumption DEF Slots
<1>5. ~Within(o, slots)
  BY <1>1, NullAssumption DEF Registered, Within
<1>6. AddedOnce(list'.observers)
  BY <1>2, <1>3, <1>5, AppendingOnce DEF SingleInv
<1>7. notes' = << >> => ~Within(Null, list'.observers)
  BY <1>1, <1>2, <1>3, NullAssumption, Appending DEF SingleInv, Slots
<1>8. \A n \in DOMAIN notes' : NoteFits(notes'[n], list'.observers, type')
  <2>1. \A n \in DOMAIN notes : notes[n] \in Single!Note /\ NoteFits(notes[n], slots, type)
    BY Domain DEF SingleInv
  <2>2. QED BY <1>1, <1>2, <1>3, <2>1, FitsAdded
<1>9. QED BY <1>1, <1>3, <1>4, <1>6, <1>7, <1>8 DEF SingleInv

LEMMA SingleRemoves == ASSUME SingleInv, NEW o \in Observers, Single!RemoveObserver(o) PROVE SingleInv'
<1> DEFINE slots == list.observers
           after(n) == [notes[n] EXCEPT !.stable = @ \ {o}, !.told = @ \ {o}]
<1>1. /\ list' = Removed(list, o) /\ type' = type
      /\ notes' = [n \in DOMAIN notes |-> after(n)]
  BY SameOperations DEF Single!RemoveObserver
<1>2. /\ list \in ListValue /\ slots \in Slots /\ Len(slots) \in Nat /\ MaxSlots \in Nat
      /\ DOMAIN notes = 1..Len(notes) /\ Len(notes) \in Nat
      /\ \A n \in DOMAIN notes : notes[n] \in Single!Note /\ NoteFits(notes[n], slots, type)
  BY Domain, BoundAssumption DEF SingleInv, ListValue, Slots
<1>3. /\ list' \in ListValue /\ list'.depth = list.depth
      /\ Len(list'.observers) <= Len(slots)
      /\ AddedOnce(list'.observers)
      /\ list.depth = 0 /\ ~Within(Null, slots) => ~Within(Null, list'.observers)
      /\ list.depth # 0 => /\ DOMAIN list'.observers = DOMAIN slots
                           /\ Len(list'.observers) = Len(slots)
                           /\ \A n \in DOMAIN slots :
                                list'.observers[n] = IF slots[n] = o THEN Null ELSE slots[n]
  <2>1. AddedOnce(slots)
    BY DEF SingleInv
  <2> DEFINE r == Removed(list, o)
  <2>2. /\ r \in ListValue /\ r.depth = list.depth
        /\ Len(r.observers) <= Len(slots)
        /\ AddedOnce(r.observers)
        /\ list.depth = 0 /\ ~Within(Null, slots) => ~Within(Null, r.observers)
        /\ list.depth # 0 => /\ DOMAIN r.observers = DOMAIN slots
                             /\ Len(r.observers) = Len(slots)
                             /\ \A n \in DOMAIN slots :
                                  r.observers[n] = IF slots[n] = o THEN Null ELSE slots[n]
    BY <1>2, <2>1, RemovedFacts
  <2> HIDE DEF r
  <2>3. list' = r
    BY <1>1 DEF r
  <2>4. QED BY <2>2, <2>3
<1>4. Len(list'.observers) <= MaxSlots
  <2>1. Len(list'.observers) \in Nat
    BY <1>3 DEF ListValue, Slots
  <2>2. QED BY <1>2, <1>3, <2>1 DEF SingleInv
<1>5. ASSUME NEW n \in DOMAIN notes
      PROVE  after(n) \in Single!Note /\ NoteFits(after(n), list'.observers, type)
  <2>1. list.depth # 0
    BY <1>2, <1>5 DEF SingleInv
  <2>2. QED BY <1>2, <1>3, <2>1, FitsNulled
<1>6. notes' \in Seq(Single!Note) /\ Len(notes') = Len(notes) /\ DOMAIN notes' = DOMAIN notes
  <2>1. notes' \in [1..Len(notes) -> Single!Note]
    BY <1>1, <1>2, <1>5
  <2>2. QED BY <1>2, <2>1
<1>7. \A n \in DOMAIN notes' : NoteFits(notes'[n], list'.observers, type')
  BY <1>1, <1>5, <1>6
<1>8. notes' = << >> => ~Within(Null, list'.observers)
  <2>1. notes' = << >> => Len(notes) = 0 /\ notes = << >>
    BY <1>2, <1>6
  <2>2. QED BY <1>3, <2>1 DEF SingleInv
<1>9. QED BY <1>1, <1>3, <1>4, <1>6, <1>7, <1>8 DEF SingleInv

LEMMA FirstNote ==
  ASSUME NEW i \in 0..MaxSlots, NEW m \in 0..MaxSlots, NEW c \in BOOLEAN,
         NEW S \in SUBSET Observers, NEW T \in SUBSET Observers
  PROVE  [index |-> i, max |-> m, calling |-> c, stable |-> S, told |-> T] \in Single!Note
  BY DEF Single!Note

LEMMA SingleNotifies == ASSUME SingleInv, Single!Notify PROVE SingleInv'
<1> DEFINE slots == list.observers
           note  == Single!NotifyFrom(Registered(list))
<1>1. /\ list' = Entered(list) /\ type' = type
      /\ notes' = <<note>> \o notes /\ Len(notes) < MaxDepth
  BY SameOperations DEF Single!Notify
<1>2. /\ list \in ListValue /\ slots \in Slots /\ Len(slots) \in Nat /\ Len(slots) <= MaxSlots
      /\ DOMAIN notes = 1..Len(notes) /\ Len(notes) \in Nat
      /\ MaxSlots \in Nat /\ MaxDepth \in Nat
      /\ \A n \in DOMAIN notes : notes[n] \in Single!Note /\ NoteFits(notes[n], slots, type)
  BY Domain, BoundAssumption, DepthAssumption DEF SingleInv, ListValue, Slots
<1>3. list' \in ListValue /\ list'.depth = list.depth + 1 /\ list'.observers = slots
  BY <1>1, <1>2, EnteredFacts
<1>4. /\ note.index = 0 /\ note.told = {} /\ note.stable = Registered(list)
      /\ note.max = IF type = "NOTIFY_ALL" THEN MaxSlots ELSE Len(slots)
      /\ note.calling = FALSE
  BY DEF Single!NotifyFrom
<1>5. Registered(list) \subseteq Observers /\ \A o : o \in Registered(list) <=> Within(o, slots) /\ o # Null
  <2>1. \A o : o \in Registered(list) <=> Within(o, slots) /\ o # Null
    BY DEF Registered, Within
  <2>2. \A o : Within(o, slots) => o \in Observers \cup {Null}
    BY <1>2, WithinType DEF Slots
  <2>3. QED BY <2>1, <2>2
<1>6. note \in Single!Note
  <2>1. note.max \in 0..MaxSlots /\ 0 \in 0..MaxSlots
    BY <1>2, <1>4
  <2>2. note = [index |-> 0, max |-> note.max, calling |-> FALSE,
                stable |-> Registered(list), told |-> {}]
    BY DEF Single!NotifyFrom
  <2> HIDE DEF note
  <2>3. Registered(list) \in SUBSET Observers /\ {} \in SUBSET Observers
    BY <1>5
  <2>4. QED BY <2>1, <2>2, <2>3, FirstNote
<1>7. NoteFits(note, slots, type)
  <2> HIDE DEF note
  <2>1. QED BY <1>2, <1>4, <1>5, <1>6, FitsBegun
<1> HIDE DEF note
<1>8. /\ notes' \in Seq(Single!Note) /\ notes' # << >> /\ Len(notes') = Len(notes) + 1
      /\ DOMAIN notes' = 1..Len(notes) + 1
      /\ \A n \in DOMAIN notes' : notes'[n] = IF n = 1 THEN note ELSE notes[n - 1]
  BY <1>1, <1>6 DEF SingleInv
<1>9. \A n \in DOMAIN notes' : NoteFits(notes'[n], list'.observers, type')
  <2>1. SUFFICES ASSUME NEW n \in DOMAIN notes' PROVE NoteFits(notes'[n], slots, type)
    BY <1>1, <1>3
  <2>2. CASE n = 1
    BY <2>2, <1>7, <1>8
  <2>3. CASE n # 1
    <3>1. n - 1 \in DOMAIN notes /\ notes'[n] = notes[n - 1]
      BY <2>3, <1>2, <1>8
    <3>2. QED BY <3>1, <1>2
  <2>4. QED BY <2>2, <2>3
<1>10. Len(notes') <= MaxDepth /\ list'.depth = Len(notes')
  BY <1>1, <1>2, <1>3, <1>8 DEF SingleInv
<1>11. QED BY <1>1, <1>2, <1>3, <1>8, <1>9, <1>10 DEF SingleInv

(* The slots a notification has ahead, and the one it takes.                 *)
LEMMA SingleNext ==
  ASSUME SingleInv, notes # << >>
  PROVE  /\ Head(notes) = notes[1] /\ 1 \in DOMAIN notes /\ notes[1] \in Single!Note
         /\ notes[1].index \in Nat /\ notes[1].max \in Nat
         /\ NoteFits(notes[1], list.observers, type)
         /\ Single!NextSlots = Ahead(list, notes[1].index, notes[1].max)
<1>1. Head(notes) = notes[1] /\ 1 \in DOMAIN notes /\ notes[1] \in Single!Note
  BY DEF SingleInv
<1>2. notes[1].index \in Nat /\ notes[1].max \in Nat
  BY <1>1, BoundAssumption DEF Single!Note
<1>3. Single!NextSlots = Ahead(list, notes[1].index, notes[1].max)
  BY <1>1, SameOperations DEF Single!NextSlots
<1>4. QED BY <1>1, <1>2, <1>3 DEF SingleInv

LEMMA SingleCalls ==
  ASSUME SingleInv, Single!CallNext
  PROVE  /\ SingleInv'
         /\ notes # << >> /\ Head(notes') = notes'[1] /\ Len(notes') = Len(notes)
         /\ \E n \in DOMAIN list.observers :
              /\ notes'[1].index = n /\ n > notes[1].index
              /\ list.observers[n] \in Observers
<1> DEFINE slots == list.observers
           note  == notes[1]
           n     == First(Ahead(list, note.index, note.max))
           after == [note EXCEPT !.index = n, !.calling = TRUE, !.told = @ \cup {slots[n]}]
<1>1. /\ notes # << >> /\ Ahead(list, note.index, note.max) # {}
      /\ notes' = [notes EXCEPT ![1] = after] /\ UNCHANGED <<list, type>>
  <2>1. notes # << >> /\ Single!NextSlots # {}
    BY DEF Single!CallNext
  <2>2. Single!NextSlots = Ahead(list, note.index, note.max)
    BY <2>1, SingleNext
  <2>3. Single!First(Single!NextSlots) = n /\ Head(notes) = note
    BY <2>1, <2>2, SingleNext DEF Single!First, First
  <2> HIDE DEF n
  <2>4. notes' = [notes EXCEPT ![1] = after] /\ UNCHANGED <<list, type>>
    BY <2>3 DEF Single!CallNext
  <2>5. QED BY <2>1, <2>2, <2>4
<1>2. /\ list \in ListValue /\ slots \in Slots
      /\ note \in Single!Note /\ NoteFits(note, slots, type)
      /\ note.index \in Nat /\ note.max \in Nat /\ 1 \in DOMAIN notes
  BY <1>1, SingleNext DEF SingleInv, ListValue
<1>3. /\ n \in DOMAIN slots /\ n > note.index /\ n <= note.max
      /\ slots[n] \in Observers
      /\ \A m \in DOMAIN slots : m > note.index /\ m <= note.max /\ slots[m] # Null => n <= m
  BY <1>1, <1>2, FirstFacts
<1> HIDE DEF n
<1>4. after \in Single!Note /\ NoteFits(after, slots, type)
  BY <1>2, <1>3, FitsCalled
<1>5. after.index = n
  BY <1>2 DEF Single!Note
<1> HIDE DEF after
<1>6. /\ notes' \in Seq(Single!Note) /\ Len(notes') = Len(notes) /\ notes' # << >>
      /\ DOMAIN notes' = DOMAIN notes /\ Head(notes') = notes'[1]
      /\ \A k \in DOMAIN notes : notes'[k] = IF k = 1 THEN after ELSE notes[k]
  BY <1>1, <1>2, <1>4 DEF SingleInv
<1>7. \A k \in DOMAIN notes' : NoteFits(notes'[k], list'.observers, type')
  BY <1>1, <1>4, <1>6 DEF SingleInv
<1>8. SingleInv'
  BY <1>1, <1>6, <1>7 DEF SingleInv
<1>9. QED BY <1>1, <1>2, <1>3, <1>5, <1>6, <1>8

LEMMA SingleEnds == ASSUME SingleInv, Single!NotifyEnds PROVE SingleInv'
<1> DEFINE slots == list.observers
<1>1. /\ notes # << >> /\ notes' = Tail(notes) /\ list' = Left(list) /\ type' = type
  BY SameOperations DEF Single!NotifyEnds
<1>2. /\ list \in ListValue /\ slots \in Slots /\ Len(slots) \in Nat /\ Len(slots) <= MaxSlots
      /\ DOMAIN notes = 1..Len(notes) /\ Len(notes) \in Nat \ {0}
      /\ MaxSlots \in Nat /\ MaxDepth \in Nat /\ list.depth = Len(notes) /\ Len(notes) <= MaxDepth
      /\ \A n \in DOMAIN notes : NoteFits(notes[n], slots, type)
  BY <1>1, Domain, BoundAssumption, DepthAssumption DEF SingleInv, ListValue, Slots
<1>3. /\ notes' \in Seq(Single!Note) /\ Len(notes') = Len(notes) - 1
      /\ DOMAIN notes' = 1..Len(notes) - 1
      /\ \A n \in DOMAIN notes' : notes'[n] = notes[n + 1]
  BY <1>1 DEF SingleInv
<1>4. /\ list' \in ListValue /\ list'.depth = list.depth - 1
      /\ Len(list'.observers) <= Len(slots)
      /\ AddedOnce(list'.observers)
      /\ list.depth = 1 => ~Within(Null, list'.observers)
      /\ list.depth # 1 => list'.observers = slots
  <2> DEFINE r == Left(list)
  <2>1. AddedOnce(slots) /\ list.depth # 0
    BY <1>2 DEF SingleInv
  <2>2. /\ r \in ListValue /\ r.depth = list.depth - 1
        /\ Len(r.observers) <= Len(slots)
        /\ AddedOnce(r.observers)
        /\ list.depth = 1 => ~Within(Null, r.observers)
        /\ list.depth # 1 => r.observers = slots
    BY <1>2, <2>1, LeftFacts
  <2> HIDE DEF r
  <2>3. list' = r
    BY <1>1 DEF r
  <2>4. QED BY <2>2, <2>3
<1>5. Len(list'.observers) <= MaxSlots
  <2>1. Len(list'.observers) \in Nat
    BY <1>4 DEF ListValue, Slots
  <2>2. QED BY <1>2, <1>4, <2>1
<1>6. \A n \in DOMAIN notes' : NoteFits(notes'[n], list'.observers, type')
  <2>1. SUFFICES ASSUME NEW n \in DOMAIN notes' PROVE NoteFits(notes[n + 1], slots, type) /\ list'.observers = slots
    BY <1>1, <1>3
  <2>2. n + 1 \in DOMAIN notes /\ list.depth # 1
    BY <1>2, <1>3
  <2>3. QED BY <2>2, <1>2, <1>4
<1>7. notes' = << >> => ~Within(Null, list'.observers)
  <2>1. notes' = << >> => list.depth = 1
    BY <1>2, <1>3
  <2>2. QED BY <2>1, <1>4
<1>8. Len(notes') <= MaxDepth /\ list'.depth = Len(notes')
  BY <1>2, <1>3, <1>4
<1>9. QED BY <1>1, <1>3, <1>4, <1>5, <1>6, <1>7, <1>8 DEF SingleInv

LEMMA SingleSteps == SingleInv /\ [EitherNext]_allVars => SingleInv'
<1> SUFFICES ASSUME SingleInv, [EitherNext]_allVars PROVE SingleInv'
  OBVIOUS
<1>1. CASE kind = "single" /\ Single!Next
  BY <1>1, SingleAdds, SingleRemoves, SingleNotifies, SingleCalls, SingleEnds DEF Single!Next
<1>2. CASE UNCHANGED singleVars
  BY <1>2 DEF singleVars, SingleInv
<1>3. QED BY <1>1, <1>2 DEF EitherNext, allVars

LEMMA SingleInvariance == EitherSpec => []SingleInv
<1>1. EitherInit => SingleInv
  BY SingleStarts DEF EitherInit
<1>2. QED BY <1>1, SingleSteps, PTL DEF EitherSpec

LEMMA SingleInvSound == SingleInv => SingleSound
<1> SUFFICES ASSUME SingleInv PROVE SingleSound
  OBVIOUS
<1>1. Single!TypeOK
  BY DEF SingleInv, ListValue, Slots, Single!TypeOK, Within
<1>2. Single!OnlyExisting
  <2>1. SUFFICES ASSUME type = "NOTIFY_EXISTING_ONLY", NEW n \in DOMAIN notes, NEW o \in notes[n].told
                 PROVE  o \in notes[n].stable
    BY DEF Single!OnlyExisting
  <2>2. /\ NoteFits(notes[n], list.observers, type) /\ notes[n] \in Single!Note
        /\ DOMAIN list.observers = 1..Len(list.observers) /\ Len(list.observers) \in Nat
    BY Domain DEF SingleInv, ListValue, Slots
  <2>3. notes[n].index \in Nat /\ notes[n].max \in Nat /\ o # Null
    BY <2>1, <2>2, BoundAssumption, NullAssumption DEF Single!Note
  <2>4. PICK p \in DOMAIN list.observers : list.observers[p] = o /\ p <= notes[n].index
    BY <2>1, <2>2 DEF NoteFits
  <2>5. notes[n].index <= notes[n].max
    BY <2>1, <2>2 DEF NoteFits
  <2>6. p <= notes[n].max
    BY <2>2, <2>3, <2>4, <2>5
  <2>7. QED BY <2>1, <2>2, <2>3, <2>4, <2>6 DEF NoteFits
<1>3. QED BY <1>1, <1>2 DEF SingleSound, Single!ListSound

(* The depth counts the notifications, nulled slots end with the last of     *)
(* them, and a NOTIFY_EXISTING_ONLY list tells none that was added since the *)
(* notification began (AddObserver, RemoveObserver and nested iterators in   *)
(* every order).                                                             *)
THEOREM SingleStaysSound == EitherSpec => []SingleSound
  BY SingleInvariance, SingleInvSound, PTL

(* A notification that ends has called everybody registered all along.       *)
LEMMA NobodyIsMissed ==
  ASSUME SingleInv, Single!NotifyEnds
  PROVE  Head(notes).stable \subseteq Head(notes).told
<1> DEFINE slots == list.observers
           note  == notes[1]
<1>1. /\ Head(notes) = note /\ note \in Single!Note /\ NoteFits(note, slots, type)
      /\ note.index \in Nat /\ note.max \in Nat
      /\ Ahead(list, note.index, note.max) = {}
  BY SingleNext DEF Single!NotifyEnds
<1>2. DOMAIN slots = 1..Len(slots) /\ Len(slots) \in Nat
  BY Domain DEF SingleInv, ListValue, Slots
<1>3. SUFFICES ASSUME NEW o \in note.stable PROVE o \in note.told
  BY <1>1
<1>4. o # Null
  BY <1>1, NullAssumption DEF Single!Note
<1>5. PICK p \in DOMAIN slots : slots[p] = o /\ p <= note.max
  BY <1>1 DEF NoteFits
<1>6. p <= note.index
  BY <1>1, <1>2, <1>4, <1>5 DEF Ahead
<1>7. QED BY <1>1, <1>5, <1>6 DEF NoteFits

(* Whom GetNext returns has not been called.                                 *)
LEMMA NobodyIsTwice ==
  ASSUME SingleInv, Single!CallNext
  PROVE  list.observers[Head(notes').index] \notin Head(notes).told
<1> DEFINE slots == list.observers
           note  == notes[1]
<1>1. notes # << >> /\ Head(notes') = notes'[1]
  BY SingleCalls
<1>2. /\ Head(notes) = note /\ NoteFits(note, slots, type) /\ note.index \in Nat
  BY <1>1, SingleNext
<1>3. PICK n \in DOMAIN slots :
        notes'[1].index = n /\ n > note.index /\ slots[n] \in Observers
  BY SingleCalls
<1>4. DOMAIN slots = 1..Len(slots) /\ Len(slots) \in Nat
  BY Domain DEF SingleInv, ListValue, Slots
<1>5. SUFFICES ASSUME slots[n] \in note.told PROVE FALSE
  BY <1>1, <1>2, <1>3
<1>6. PICK p \in DOMAIN slots : slots[p] = slots[n] /\ p <= note.index
  BY <1>2, <1>5 DEF NoteFits
<1>7. p = n
  BY <1>3, <1>6, NullAssumption DEF SingleInv, AddedOnce
<1>8. QED BY <1>2, <1>3, <1>4, <1>6, <1>7

(* How the other steps change the notifications.                             *)
LEMMA OtherSteps ==
  ASSUME SingleInv
  PROVE  /\ \A o \in Observers :
              Single!AddObserver(o) \/ Single!RemoveObserver(o) =>
                /\ Len(notes') = Len(notes)
                /\ notes # << >> => Head(notes').index = Head(notes).index
         /\ Single!Notify => Len(notes') > Len(notes)
         /\ Single!NotifyEnds => Len(notes') < Len(notes)
<1>1. /\ notes \in Seq(Single!Note) /\ DOMAIN notes = 1..Len(notes) /\ Len(notes) \in Nat
      /\ \A n \in DOMAIN notes : notes[n] \in Single!Note
  BY Domain DEF SingleInv
<1>2. ASSUME NEW o \in Observers, Single!RemoveObserver(o)
      PROVE  Len(notes') = Len(notes) /\ (notes # << >> => Head(notes').index = Head(notes).index)
  <2> DEFINE after(n) == [notes[n] EXCEPT !.stable = @ \ {o}, !.told = @ \ {o}]
  <2>1. notes' = [n \in DOMAIN notes |-> after(n)]
    BY <1>2 DEF Single!RemoveObserver
  <2>2. \A n \in DOMAIN notes : after(n) \in Single!Note /\ after(n).index = notes[n].index
    BY <1>1 DEF Single!Note
  <2> HIDE DEF after
  <2>3. notes' \in [1..Len(notes) -> Single!Note]
    BY <1>1, <2>1, <2>2
  <2>4. notes' \in Seq(Single!Note) /\ Len(notes') = Len(notes)
    BY <1>1, <2>3
  <2>5. notes # << >> => 1 \in DOMAIN notes /\ Head(notes) = notes[1] /\ Head(notes') = notes'[1]
    BY <1>1, <2>1, <2>4
  <2>6. QED BY <2>1, <2>2, <2>4, <2>5
<1>3. \A o \in Observers : Single!AddObserver(o) => notes' = notes
  BY DEF Single!AddObserver
<1>4. ASSUME Single!Notify PROVE Len(notes') > Len(notes)
  <2> DEFINE note == Single!NotifyFrom(Single!Registered(list))
  <2>1. notes' = <<note>> \o notes
    BY <1>4 DEF Single!Notify
  <2> HIDE DEF note
  <2>2. QED BY <1>1, <2>1
<1>5. ASSUME Single!NotifyEnds PROVE Len(notes') < Len(notes)
  BY <1>1, <1>5 DEF Single!NotifyEnds
<1>6. QED BY <1>2, <1>3, <1>4, <1>5

(* Observers that stay registered are called by every notification, and by   *)
(* none twice, whatever those called do to the list from within the nested   *)
(* notifications (GetNext, Compact).                                         *)
THEOREM EachIsToldOnce == EitherSpec => EachToldOnce
<1>1. SingleInv /\ [EitherNext]_allVars =>
        [Len(notes') < Len(notes) => Head(notes).stable \subseteq Head(notes).told]_(Single!vars)
  <2> SUFFICES ASSUME SingleInv, [EitherNext]_allVars, Len(notes') < Len(notes),
                      ~UNCHANGED singleVars
               PROVE  Head(notes).stable \subseteq Head(notes).told
    BY DEF Single!vars, singleVars
  <2>1. Single!Next
    BY DEF EitherNext, allVars
  <2>2. Len(notes) \in Nat
    BY Domain DEF SingleInv
  <2>3. CASE Single!CallNext
    BY <2>2, <2>3, SingleCalls
  <2>4. CASE Single!NotifyEnds
    BY <2>4, NobodyIsMissed
  <2>5. CASE Single!Notify
    <3>1. Len(notes') \in Nat
      BY <2>5, SingleNotifies, Domain DEF SingleInv
    <3>2. QED BY <2>2, <2>5, <3>1, OtherSteps
  <2>6. CASE \E o \in Observers : Single!AddObserver(o) \/ Single!RemoveObserver(o)
    BY <2>2, <2>6, OtherSteps
  <2>7. QED BY <2>1, <2>3, <2>4, <2>5, <2>6 DEF Single!Next
<1>2. SingleInv /\ [EitherNext]_allVars =>
        [Len(notes') = Len(notes) /\ notes # << >> /\ Head(notes').index # Head(notes).index
           => list.observers[Head(notes').index] \notin Head(notes).told]_(Single!vars)
  <2> SUFFICES ASSUME SingleInv, [EitherNext]_allVars, Len(notes') = Len(notes), notes # << >>,
                      Head(notes').index # Head(notes).index, ~UNCHANGED singleVars
               PROVE  list.observers[Head(notes').index] \notin Head(notes).told
    BY DEF Single!vars, singleVars
  <2>1. Single!Next
    BY DEF EitherNext, allVars
  <2>2. Len(notes) \in Nat
    BY Domain DEF SingleInv
  <2>3. CASE Single!CallNext
    BY <2>3, NobodyIsTwice
  <2>4. CASE Single!Notify \/ Single!NotifyEnds
    BY <2>2, <2>4, OtherSteps
  <2>5. CASE \E o \in Observers : Single!AddObserver(o) \/ Single!RemoveObserver(o)
    BY <2>5, OtherSteps
  <2>6. QED BY <2>1, <2>3, <2>4, <2>5 DEF Single!Next
<1>3. QED BY <1>1, <1>2, SingleInvariance, PTL
          DEF EitherSpec, EachToldOnce, Single!EachToldOnce, Single!NobodyMissed, Single!NobodyTwice

-----------------------------------------------------------------------------
(* The inductive invariant of the thread-safe list.  The lists of different  *)
(* threads are different; what a list holds depends on where its thread is.  *)
ListTypes ==
  /\ lists \in [Lists -> ListValue]
  /\ live \subseteq Lists
  /\ map \in [Loops -> Lists \cup {Null}]
  /\ tasks \in [Loops -> Seq(Lists)]
  /\ run \in [Loops -> [list : Lists \cup {Null}, index : Nat, calling : BOOLEAN]]
  /\ \A t \in Loops : run[t].list = Null => run[t] = NoRun
  /\ pc \in [Loops -> Calls]
  /\ registered \subseteq Observers /\ owed \subseteq registered

ListsApart == \A t, u \in Loops : t # u => InUse(t) \cap InUse(u) = {}

(* The observers of t that are registered.                                   *)
Present(t) == {o \in registered : Home[o] = t}

ListFits(t, l) ==
  /\ lists[l].depth = IF run[t].list = l THEN 1 ELSE 0
  /\ AddedOnce(lists[l].observers)
  /\ Within(Null, lists[l].observers) =>
       run[t].list = l /\ (map[t] = l => \E o \in Observers \ Reentrant : Within(o, lists[l].observers))

(* A list in the map has the thread's observers; one that is not, none, or   *)
(* the one RemoveObserver has at hand.                                       *)
CallFits(t) ==
  /\ map[t] # Null => Registered(lists[map[t]]) = Present(t)
  /\ map[t] = Null => Present(t) = IF pc[t].op = "removing" THEN {pc[t].obs} ELSE {}
  /\ run[t].list \notin {map[t], Null} /\ ~(pc[t].op = "removing" /\ pc[t].list = run[t].list)
       => Registered(lists[run[t].list]) = {}
  /\ pc[t] = Free /\ map[t] # Null => Present(t) # {}
  /\ pc[t].op = "adding" => pc[t].list = map[t] /\ pc[t].obs \notin registered /\ Home[pc[t].obs] = t
  /\ pc[t].op = "removing" =>
       /\ pc[t].obs \in Present(t)
       /\ Running(t) => pc[t].obs \in Reentrant
       /\ \/ map[t] = pc[t].list /\ Len(lists[pc[t].list].observers) # 1
          \/ map[t] = Null /\ lists[pc[t].list].observers = <<pc[t].obs>>

ListsInv ==
  /\ ListTypes /\ LiveInUse /\ ListsApart
  /\ \A t \in Loops : CallFits(t) /\ \A l \in InUse(t) : ListFits(t, l)

LEMMA PcTypes ==
  ASSUME ListTypes, NEW t \in Loops
  PROVE  \/ pc[t] = Free /\ pc[t].op = "free"
         \/ /\ pc[t] # Free /\ pc[t].op \in {"adding", "removing"}
            /\ pc[t].obs \in Observers /\ pc[t].list \in Lists
  BY DEF ListTypes, Calls, Free

LEMMA InUseTypes ==
  ASSUME ListTypes, NEW t \in Loops
  PROVE  InUse(t) \subseteq Lists
  BY PcTypes DEF ListTypes, InUse

LEMMA RegisteredIs ==
  ASSUME NEW l
  PROVE  \A y : y \in Registered(l) <=> Within(y, l.observers) /\ y # Null
  BY DEF Registered, Within

(* A step of one thread leaves the others as they were.                      *)
LEMMA OthersFit ==
  ASSUME ListsInv, NEW u \in Loops,
         map'[u] = map[u], run'[u] = run[u], pc'[u] = pc[u],
         \A l \in InUse(u) : lists'[l] = lists[l],
         \A o \in Observers : Home[o] = u => (o \in registered' <=> o \in registered),
         registered' \subseteq Observers
  PROVE  /\ InUse(u)' = InUse(u)
         /\ CallFits(u)'
         /\ \A l \in InUse(u)' : ListFits(u, l)'
<1>1. InUse(u)' = InUse(u)
  BY DEF InUse
<1>2. Present(u)' = Present(u)
  BY DEF Present, ListsInv, ListTypes
<1>3. \A l \in InUse(u) : ListFits(u, l)'
  BY DEF ListFits, ListsInv
<1>4. /\ map[u] # Null => map[u] \in InUse(u)
      /\ run[u].list # Null => run[u].list \in InUse(u)
      /\ pc[u].op = "removing" => pc[u].list \in InUse(u)
  BY PcTypes DEF InUse, ListsInv
<1>5. CallFits(u)
  BY DEF ListsInv
<1>6. Running(u)' <=> Running(u)
  BY DEF Running
<1>7. pc[u].op = "adding" => pc[u].obs \in Observers
  BY PcTypes DEF ListsInv
<1>8. CallFits(u)'
  <2>1. map'[u] # Null => Registered(lists[map[u]])' = Present(u)'
    BY <1>2, <1>4, <1>5 DEF CallFits, Registered
  <2>2. map'[u] = Null => Present(u)' = IF pc[u].op = "removing" THEN {pc[u].obs} ELSE {}
    BY <1>2, <1>5 DEF CallFits
  <2>3. run'[u].list \notin {map'[u], Null} /\ ~(pc'[u].op = "removing" /\ pc'[u].list = run'[u].list)
          => Registered(lists[run[u].list])' = {}
    BY <1>4, <1>5 DEF CallFits, Registered
  <2>4. pc'[u] = Free /\ map'[u] # Null => Present(u)' # {}
    BY <1>2, <1>5 DEF CallFits
  <2>5. pc'[u].op = "adding" => pc'[u].list = map'[u] /\ pc'[u].obs \notin registered' /\ Home[pc'[u].obs] = u
    BY <1>5, <1>7 DEF CallFits
  <2>6. pc'[u].op = "removing" =>
       /\ pc'[u].obs \in Present(u)'
       /\ Running(u)' => pc'[u].obs \in Reentrant
       /\ \/ map'[u] = pc'[u].list /\ Len(lists'[pc'[u].list].observers) # 1
          \/ map'[u] = Null /\ lists'[pc'[u].list].observers = <<pc'[u].obs>>
    BY <1>2, <1>4, <1>5, <1>6 DEF CallFits
  <2>7. QED BY <2>1, <2>2, <2>3, <2>4, <2>5, <2>6 DEF CallFits
<1>9. QED BY <1>1, <1>3, <1>8

LEMMA StepOfOne ==
  ASSUME ListsInv, ListTypes', NEW t \in Loops,
         \A u \in Loops : u # t => /\ map'[u] = map[u] /\ run'[u] = run[u] /\ pc'[u] = pc[u],
         \A l \in live : l \notin InUse(t) => lists'[l] = lists[l],
         \A o \in Observers : Home[o] # t => (o \in registered' <=> o \in registered),
         live' = (live \ InUse(t)) \cup InUse(t)',
         InUse(t)' \subseteq InUse(t) \cup (Lists \ live),
         CallFits(t)', \A l \in InUse(t)' : ListFits(t, l)'
  PROVE  ListsInv'
<1>1. ASSUME NEW u \in Loops, u # t
      PROVE  /\ InUse(u)' = InUse(u)
             /\ CallFits(u)'
             /\ \A l \in InUse(u)' : ListFits(u, l)'
  <2>1. \A l \in InUse(u) : l \in live /\ l \notin InUse(t)
    BY <1>1 DEF ListsInv, LiveInUse, ListsApart
  <2>2. registered' \subseteq Observers
    BY DEF ListTypes
  <2>3. QED BY <1>1, <2>1, <2>2, OthersFit
<1>2. LiveInUse'
  <2>1. live = UNION {InUse(u) : u \in Loops}
    BY DEF ListsInv, LiveInUse
  <2>2. \A l : l \in live' <=> \E u \in Loops : l \in InUse(u)'
    <3>1. ASSUME NEW l, l \in live' PROVE \E u \in Loops : l \in InUse(u)'
      <4>1. CASE l \in InUse(t)'
        BY <4>1
      <4>2. CASE l \in live /\ l \notin InUse(t)
        <5>1. PICK u \in Loops : l \in InUse(u)
          BY <2>1, <4>2
        <5>2. QED BY <5>1, <4>2, <1>1
      <4>3. QED BY <3>1, <4>1, <4>2
    <3>2. ASSUME NEW l, NEW u \in Loops, l \in InUse(u)' PROVE l \in live'
      <4>1. CASE u = t
        BY <3>2, <4>1
      <4>2. CASE u # t
        <5>1. l \in InUse(u) /\ l \in live /\ l \notin InUse(t)
          BY <3>2, <4>2, <1>1, <2>1 DEF ListsInv, ListsApart
        <5>2. QED BY <5>1
      <4>3. QED BY <4>1, <4>2
    <3>3. QED BY <3>1, <3>2
  <2>3. QED BY <2>2 DEF LiveInUse
<1>3. ListsApart'
  <2>1. ASSUME NEW u \in Loops, u # t PROVE InUse(t)' \cap InUse(u)' = {}
    <3>1. InUse(u) \subseteq live /\ InUse(u) \cap InUse(t) = {}
      BY <2>1 DEF ListsInv, LiveInUse, ListsApart
    <3>2. QED BY <3>1, <2>1, <1>1
  <2>2. ASSUME NEW u \in Loops, NEW v \in Loops, u # v, u # t, v # t PROVE InUse(u)' \cap InUse(v)' = {}
    BY <2>2, <1>1 DEF ListsInv, ListsApart
  <2>3. QED BY <2>1, <2>2 DEF ListsApart
<1>4. QED BY <1>1, <1>2, <1>3 DEF ListsInv

LEMMA ListsStart == Init => ListsInv
<1> SUFFICES ASSUME Init PROVE ListsInv
  OBVIOUS
<1>1. NewList \in ListValue
  <2>1. << >> \in Slots
    BY DEF Slots
  <2>2. QED BY <2>1 DEF NewList, ListValue
<1>2. ListTypes
  <2>1. tasks \in [Loops -> Seq(Lists)]
    <3>1. << >> \in Seq(Lists)
      OBVIOUS
    <3>2. QED BY <3>1 DEF Init
  <2>2. run \in [Loops -> [list : Lists \cup {Null}, index : Nat, calling : BOOLEAN]]
    <3>1. NoRun \in [list : Lists \cup {Null}, index : Nat, calling : BOOLEAN]
      BY DEF NoRun
    <3>2. QED BY <3>1 DEF Init
  <2>3. lists \in [Lists -> ListValue]
    BY <1>1 DEF Init
  <2>4. pc \in [Loops -> Calls]
    BY DEF Init, Calls
  <2>5. map \in [Loops -> Lists \cup {Null}] /\ \A t \in Loops : run[t] = NoRun
    BY DEF Init
  <2>6. live \subseteq Lists /\ registered \subseteq Observers /\ owed \subseteq registered
    BY DEF Init
  <2>7. QED BY <2>1, <2>2, <2>3, <2>4, <2>5, <2>6 DEF ListTypes
<1>3. ASSUME NEW t \in Loops PROVE InUse(t) = {} /\ CallFits(t)
  <2>1. map[t] = Null /\ run[t] = NoRun /\ pc[t] = Free /\ registered = {}
    BY DEF Init
  <2>2. run[t].list = Null /\ pc[t].op = "free"
    BY <2>1 DEF NoRun, Free
  <2>3. QED BY <2>1, <2>2 DEF InUse, CallFits, Present
<1>4. LiveInUse /\ ListsApart
  BY <1>3 DEF LiveInUse, ListsApart, Init
<1>5. QED BY <1>2, <1>3, <1>4 DEF ListsInv

(* AddObserver, up to where the lock is released.                            *)
LEMMA AddLockedKeeps ==
  ASSUME ListsInv, NEW t \in Loops, NEW o \in Observers, AddLocked(t, o)
  PROVE  ListsInv'
<1>1. PICK l :
      /\ l = map'[t]
      /\ UserRuns(t) /\ Home[o] = t /\ o \notin registered
      /\ pc' = [pc EXCEPT ![t] = [op |-> "adding", obs |-> o, list |-> l]]
      /\ UNCHANGED <<tasks, run, registered, owed>>
      /\ \/ map[t] # Null /\ UNCHANGED <<lists, live, map>>
         \/ /\ map[t] = Null /\ l \in Lists \ live
            /\ lists' = [lists EXCEPT ![l] = NewList]
            /\ live' = live \cup {l}
            /\ map' = [map EXCEPT ![t] = l]
  BY DEF AddLocked, ListsInv, ListTypes
<1>2. ListTypes /\ CallFits(t) /\ pc[t] = Free /\ l \in Lists /\ l # Null
  BY <1>1, NullAddress DEF ListsInv, ListTypes, UserRuns
<1>3. NewList \in ListValue /\ NewList.depth = 0 /\ NewList.observers = << >>
  <2>1. << >> \in Slots
    BY DEF Slots
  <2>2. QED BY <2>1 DEF NewList, ListValue
<1>4. pc'[t] = [op |-> "adding", obs |-> o, list |-> l] /\ map'[t] = l /\ run'[t] = run[t]
  BY <1>1, <1>2 DEF ListTypes
<1>5. pc'[t] \in Calls /\ pc'[t] # Free /\ pc'[t].op = "adding" /\ pc'[t].obs = o /\ pc'[t].list = l
  BY <1>2, <1>4 DEF Calls, Free
<1>6. ListTypes'
  <2>1. pc' \in [Loops -> Calls]
    BY <1>1, <1>2, <1>4, <1>5 DEF ListTypes
  <2>2. lists' \in [Lists -> ListValue]
    BY <1>1, <1>2, <1>3 DEF ListTypes
  <2>4. map' \in [Loops -> Lists \cup {Null}] /\ live' \subseteq Lists
    BY <1>1, <1>2, <1>3 DEF ListTypes
  <2>5. QED BY <2>1, <2>2, <2>4, <1>1, <1>2 DEF ListTypes
<1>7. InUse(t)' = InUse(t) \cup {l}
  BY <1>1, <1>2, <1>4, <1>5 DEF InUse
<1>8. InUse(t) \subseteq live
  BY DEF ListsInv, LiveInUse
<1>9. CASE map[t] # Null
  <2>1. UNCHANGED <<lists, live, map, run, registered>> /\ l = map[t] /\ l \in InUse(t)
    BY <1>1, <1>2, <1>9 DEF InUse
  <2>2. CallFits(t)'
    BY <1>1, <1>2, <1>5, <2>1, <1>9 DEF CallFits, Present, Registered
  <2>3. \A k \in InUse(t)' : ListFits(t, k)'
    BY <1>7, <2>1 DEF ListsInv, ListFits
  <2>4. InUse(t)' = InUse(t) /\ live' = (live \ InUse(t)) \cup InUse(t)'
    BY <1>7, <1>8, <2>1
  <2>5. \A u \in Loops : u # t => map'[u] = map[u] /\ run'[u] = run[u] /\ pc'[u] = pc[u]
    BY <1>1, <1>2, <2>1 DEF ListTypes
  <2>6. QED BY <1>6, <2>1, <2>2, <2>3, <2>4, <2>5, StepOfOne
<1>10. CASE map[t] = Null
  <2>1. /\ l \in Lists \ live /\ lists' = [lists EXCEPT ![l] = NewList]
        /\ live' = live \cup {l} /\ map' = [map EXCEPT ![t] = l]
    BY <1>1, <1>10
  <2>2. lists'[l] = NewList /\ \A k \in Lists : k # l => lists'[k] = lists[k]
    BY <1>2, <2>1 DEF ListTypes
  <2>3. run[t].list # l /\ (run[t].list # Null => run[t].list \in InUse(t))
    BY <1>2, <1>8, <2>1 DEF InUse
  <2>4. Present(t) = {}
    BY <1>2, <1>10 DEF CallFits, Free
  <2>5. Registered(NewList) = {}
    BY <1>3 DEF Registered
  <2>6. Present(t)' = {} /\ Registered(lists[l])' = {}
    BY <1>1, <2>2, <2>4, <2>5 DEF Present, Registered
  <2>7. run'[t].list # Null => Registered(lists[run[t].list])' = {}
    <3>1. run[t].list # Null => run[t].list \in Lists /\ Registered(lists[run[t].list]) = {}
      BY <1>2, <1>10 DEF ListTypes, CallFits, Free
    <3>2. QED BY <3>1, <1>4, <2>2, <2>3 DEF Registered
  <2>8. CallFits(t)'
    BY <1>1, <1>2, <1>4, <1>5, <2>6, <2>7 DEF CallFits
  <2>9. ListFits(t, l)'
    BY <1>4, <2>2, <2>3, <1>3, WithinEmpty DEF ListFits, AddedOnce
  <2>10. ASSUME NEW k \in InUse(t) PROVE ListFits(t, k)'
    <3>1. k # l /\ lists'[k] = lists[k] /\ k \in Lists
      BY <1>2, <1>8, <2>1, <2>2, InUseTypes
    <3>2. ListFits(t, k)
      BY DEF ListsInv
    <3>3. QED BY <3>1, <3>2, <1>4, <1>10 DEF ListFits
  <2>11. \A k \in live : k \notin InUse(t) => lists'[k] = lists[k]
    BY <2>1, <2>2, <1>2 DEF ListTypes
  <2>12. \A u \in Loops : u # t => map'[u] = map[u] /\ run'[u] = run[u] /\ pc'[u] = pc[u]
    BY <1>1, <1>2, <2>1 DEF ListTypes
  <2>13. QED BY <1>1, <1>6, <1>7, <1>8, <2>1, <2>8, <2>9, <2>10, <2>11, <2>12, StepOfOne
<1>11. QED BY <1>9, <1>10

(* The rest of AddObserver.                                                  *)
LEMMA AddUnlockedKeeps ==
  ASSUME ListsInv, NEW t \in Loops, AddUnlocked(t)
  PROVE  ListsInv'
<1>1. PICK o, l : o = pc[t].obs /\ l = pc[t].list
  OBVIOUS
<1>2. /\ pc[t].op = "adding"
      /\ lists' = [lists EXCEPT ![l] = Added(lists[l], o)]
      /\ registered' = registered \cup {o}
      /\ pc' = [pc EXCEPT ![t] = Free]
      /\ UNCHANGED <<live, map, tasks, run, owed>>
  BY <1>1 DEF AddUnlocked
<1>3. /\ ListTypes /\ CallFits(t) /\ o \in Observers /\ l \in Lists /\ l # Null
      /\ l = map[t] /\ o \notin registered /\ Home[o] = t /\ pc[t] # Free
  BY <1>1, <1>2, PcTypes, NullAddress DEF ListsInv, CallFits, Free
<1>4. l \in InUse(t) /\ ListFits(t, l) /\ lists[l] \in ListValue /\ lists[l].observers \in Slots
  BY <1>3 DEF InUse, ListsInv, ListTypes, ListValue
<1>5. /\ lists'[l] = Added(lists[l], o) /\ lists'[l] \in ListValue
      /\ lists'[l].depth = lists[l].depth
      /\ lists'[l].observers = Append(lists[l].observers, o)
      /\ \A k \in Lists : k # l => lists'[k] = lists[k]
  BY <1>2, <1>3, <1>4, AddedFacts DEF ListTypes
<1>6. \A y : Within(y, lists'[l].observers) <=> Within(y, lists[l].observers) \/ y = o
  BY <1>3, <1>4, <1>5, Appending DEF Slots
<1>7. /\ pc'[t] = Free /\ pc'[t].op = "free"
      /\ \A u \in Loops : u # t => pc'[u] = pc[u]
  BY <1>2, <1>3 DEF ListTypes, Free
<1>8. Registered(lists[l]) = Present(t) /\ Present(t)' = Present(t) \cup {o}
  BY <1>2, <1>3 DEF CallFits, Present
<1>9. Registered(lists'[l]) = Present(t)'
  <2>1. \A y : y \in Registered(lists'[l]) <=> y \in Registered(lists[l]) \/ y = o
    BY <1>3, <1>6, RegisteredIs, NullAssumption
  <2>2. QED BY <2>1, <1>8
<1>10. ~Within(o, lists[l].observers)
  BY <1>3, <1>8, RegisteredIs, NullAssumption DEF Present
<1>11. ListTypes'
  BY <1>2, <1>3, <1>5, <1>7 DEF ListTypes, Calls
<1>12. InUse(t)' = InUse(t)
  BY <1>1, <1>2, <1>3, <1>7 DEF InUse
<1>13. CallFits(t)'
  <2>1. run[t].list \notin {map[t], Null} => Registered(lists[run[t].list]) = {} /\ run[t].list \in Lists
    BY <1>2, <1>3 DEF CallFits, ListTypes
  <2>2. run[t].list \notin {map[t], Null} => lists'[run[t].list] = lists[run[t].list]
    BY <1>3, <1>5, <2>1
  <2>3. run' = run /\ map' = map /\ map'[t] = l
    BY <1>2, <1>3
  <2>4. run'[t].list \notin {map'[t], Null} => Registered(lists'[run'[t].list]) = {}
    BY <2>1, <2>2, <2>3
  <2>5. o \in Present(t)'
    BY <1>8
  <2>6. QED BY <1>3, <1>7, <1>9, <2>3, <2>4, <2>5 DEF CallFits
<1>14. ListFits(t, l)'
  <2>1. AddedOnce(lists'[l].observers)
    BY <1>3, <1>4, <1>5, <1>10, AppendingOnce DEF ListFits
  <2>2. lists'[l].depth = IF run'[t].list = l THEN 1 ELSE 0
    BY <1>2, <1>4, <1>5 DEF ListFits
  <2>3. Within(Null, lists'[l].observers) =>
          run'[t].list = l /\ (map'[t] = l => \E p \in Observers \ Reentrant : Within(p, lists'[l].observers))
    BY <1>2, <1>3, <1>4, <1>6, NullAssumption DEF ListFits
  <2>4. QED BY <2>1, <2>2, <2>3 DEF ListFits
<1>15. ASSUME NEW k \in InUse(t)' PROVE ListFits(t, k)'
  <2>1. CASE k = l
    BY <2>1, <1>14
  <2>2. CASE k # l
    <3>1. lists'[k] = lists[k] /\ ListFits(t, k)
      BY <2>2, <1>3, <1>5, <1>12, InUseTypes DEF ListsInv
    <3>2. QED BY <3>1, <1>2 DEF ListFits
  <2>3. QED BY <2>1, <2>2
<1>16. live' = (live \ InUse(t)) \cup InUse(t)'
  BY <1>2, <1>12 DEF ListsInv, LiveInUse
<1>17. \A k \in live : k \notin InUse(t) => lists'[k] = lists[k]
  BY <1>3, <1>4, <1>5 DEF ListTypes
<1>18. \A p \in Observers : Home[p] # t => (p \in registered' <=> p \in registered)
  BY <1>2, <1>3
<1>19. QED BY <1>2, <1>7, <1>11, <1>12, <1>13, <1>15, <1>16, <1>17, <1>18, StepOfOne
(* RemoveObserver, up to where the lock is released.                         *)
LEMMA RemoveLockedKeeps ==
  ASSUME ListsInv, NEW t \in Loops, NEW o \in Observers, RemoveLocked(t, o)
  PROVE  ListsInv'
<1>1. PICK l : l = map[t]
  OBVIOUS
<1>2. /\ Home[o] = t /\ o \in registered /\ pc[t] = Free /\ l # Null
      /\ Running(t) => o \in Reentrant
      /\ map' = IF Len(lists[l].observers) = 1 THEN [map EXCEPT ![t] = Null] ELSE map
      /\ pc' = [pc EXCEPT ![t] = [op |-> "removing", obs |-> o, list |-> l]]
      /\ UNCHANGED <<lists, live, tasks, run, registered, owed>>
  BY <1>1 DEF RemoveLocked, UserRuns
<1>3. ListTypes /\ CallFits(t) /\ l \in Lists /\ l \in InUse(t) /\ ListFits(t, l)
  BY <1>1, <1>2 DEF ListsInv, ListTypes, InUse
<1>4. pc'[t] = [op |-> "removing", obs |-> o, list |-> l]
  BY <1>2, <1>3 DEF ListTypes
<1>5. pc'[t] \in Calls /\ pc'[t] # Free /\ pc'[t].op = "removing" /\ pc'[t].obs = o /\ pc'[t].list = l
  BY <1>3, <1>4 DEF Calls, Free
<1>6. ListTypes'
  <2>1. pc' \in [Loops -> Calls]
    BY <1>2, <1>3, <1>4, <1>5 DEF ListTypes
  <2>2. map' \in [Loops -> Lists \cup {Null}]
    BY <1>2, <1>3 DEF ListTypes
  <2>3. QED BY <2>1, <2>2, <1>2, <1>3 DEF ListTypes
<1>7. map'[t] = IF Len(lists[l].observers) = 1 THEN Null ELSE l
  BY <1>1, <1>2, <1>3 DEF ListTypes
<1>8. InUse(t)' = InUse(t)
  BY <1>1, <1>2, <1>3, <1>5, <1>7 DEF InUse
<1>9. Registered(lists[l]) = Present(t) /\ o \in Present(t) /\ Present(t)' = Present(t)
  BY <1>1, <1>2, <1>3 DEF CallFits, Present
<1>10. lists[l].observers \in Slots /\ Within(o, lists[l].observers)
  BY <1>3, <1>9, RegisteredIs DEF ListTypes, ListValue
<1>11. Len(lists[l].observers) = 1 => lists[l].observers = <<o>> /\ Present(t) = {o} /\ ~Within(Null, lists[l].observers)
  <2> SUFFICES ASSUME Len(lists[l].observers) = 1
               PROVE  lists[l].observers = <<o>> /\ Present(t) = {o} /\ ~Within(Null, lists[l].observers)
    OBVIOUS
  <2>1. lists[l].observers = <<o>>
    BY <1>10 DEF Slots, Within
  <2>2. \A y : Within(y, lists[l].observers) <=> y = o
    BY <2>1 DEF Within
  <2>3. QED BY <2>1, <2>2, <1>9, RegisteredIs, NullAssumption
<1>12. Running(t)' <=> Running(t)
  BY <1>2 DEF Running
<1>13. CallFits(t)'
  <2>1. run'[t].list \notin {map'[t], Null} /\ l # run'[t].list => Registered(lists'[run'[t].list]) = {}
    BY <1>1, <1>2, <1>3, <1>7 DEF CallFits, Free
  <2>2. map'[t] # Null => Registered(lists'[map'[t]]) = Present(t)'
    BY <1>2, <1>7, <1>9
  <2>3. map'[t] = Null => Present(t)' = {o}
    BY <1>2, <1>7, <1>9, <1>11
  <2>4. \/ map'[t] = l /\ Len(lists'[l].observers) # 1
        \/ map'[t] = Null /\ lists'[l].observers = <<o>>
    BY <1>2, <1>7, <1>11
  <2>5. QED BY <2>1, <2>2, <2>3, <2>4, <1>2, <1>5, <1>9, <1>12 DEF CallFits
<1>14. ASSUME NEW k \in InUse(t)' PROVE ListFits(t, k)'
  <2>1. k \in Lists /\ k # Null /\ ListFits(t, k)
    BY <1>3, <1>8, InUseTypes, NullAddress DEF ListsInv
  <2>2. map'[t] = k => map[t] = k
    BY <1>1, <1>7, <2>1
  <2>3. QED BY <2>1, <2>2, <1>2 DEF ListFits
<1>15. live' = (live \ InUse(t)) \cup InUse(t)'
  BY <1>2, <1>8, <1>3 DEF ListsInv, LiveInUse
<1>16. \A u \in Loops : u # t => map'[u] = map[u] /\ run'[u] = run[u] /\ pc'[u] = pc[u]
  BY <1>2, <1>3 DEF ListTypes
<1>17. QED BY <1>2, <1>6, <1>8, <1>13, <1>14, <1>15, <1>16, StepOfOne

LEMMA EmptyOrNot ==
  ASSUME NEW s \in Slots
  PROVE  /\ s = << >> <=> \A y : ~Within(y, s)
         /\ \A y : Within(y, s) => y \in Observers \cup {Null}
<1>1. Len(s) \in Nat /\ DOMAIN s = 1..Len(s) /\ \A n \in 1..Len(s) : s[n] \in Observers \cup {Null}
  BY Domain DEF Slots
<1>2. \A y : Within(y, s) => y \in Observers \cup {Null}
  BY <1>1 DEF Within
<1>3. ASSUME s # << >> PROVE Within(s[1], s)
  <2>1. Len(s) # 0
    BY <1>3 DEF Slots
  <2>2. 1 \in DOMAIN s
    BY <1>1, <2>1
  <2>3. QED BY <2>2 DEF Within
<1>4. QED BY <1>2, <1>3, WithinEmpty

LEMMA Another ==
  ASSUME NEW s \in Slots, NEW o, AddedOnce(s), ~Within(Null, s), Within(o, s), Len(s) # 1
  PROVE  \E p \in Observers : p # o /\ Within(p, s)
<1>1. DOMAIN s = 1..Len(s) /\ Len(s) \in Nat
  BY DEF Slots
<1>2. PICK n \in DOMAIN s : s[n] = o
  BY DEF Within
<1>3. PICK m \in DOMAIN s : m # n
  <2>1. 1 \in DOMAIN s /\ 2 \in DOMAIN s
    BY <1>1, <1>2
  <2>2. QED BY <2>1
<1>4. s[m] # o /\ s[m] # Null /\ Within(s[m], s)
  BY <1>2, <1>3 DEF AddedOnce, Within
<1>5. QED BY <1>4, EmptyOrNot

(* At most one observer of each thread is removed from within a               *)
(* notification.                                                             *)
OneReentrant == \A o, p \in Reentrant : Home[o] = Home[p] => o = p

(* The rest of RemoveObserver: of two observers or more one is left; of one,  *)
(* none, and the list stays for the NotifyWrapper under way, if there is one. *)
LEMMA RemoveUnlockedKeeps ==
  ASSUME OneReentrant, ListsInv, NEW t \in Loops, RemoveUnlocked(t)
  PROVE  ListsInv'
<1>1. PICK o, l, before, after :
        o = pc[t].obs /\ l = pc[t].list /\ before = lists[l] /\ after = Removed(before, o)
  OBVIOUS
<1>2. /\ pc[t].op = "removing"
      /\ lists' = [lists EXCEPT ![l] = after]
      /\ live' = IF after.observers = << >> THEN live \ {l} ELSE live
      /\ registered' = registered \ {o}
      /\ owed' = owed \ {o}
      /\ pc' = [pc EXCEPT ![t] = Free]
      /\ UNCHANGED <<map, tasks, run>>
  BY <1>1 DEF RemoveUnlocked
<1>3. ListTypes /\ CallFits(t) /\ pc[t] # Free /\ o \in Observers /\ l \in Lists /\ l # Null
  BY <1>1, <1>2, PcTypes, NullAddress DEF ListsInv, Free
<1>4. /\ o \in Present(t) /\ (Running(t) => o \in Reentrant)
      /\ \/ map[t] = l /\ Len(before.observers) # 1
         \/ map[t] = Null /\ before.observers = <<o>>
  BY <1>1, <1>2, <1>3 DEF CallFits
<1>5. /\ l \in InUse(t) /\ before \in ListValue /\ before.observers \in Slots
      /\ before.depth = IF run[t].list = l THEN 1 ELSE 0
      /\ AddedOnce(before.observers)
      /\ Within(Null, before.observers) =>
           run[t].list = l /\ (map[t] = l => \E p \in Observers \ Reentrant : Within(p, before.observers))
  BY <1>1, <1>3 DEF InUse, ListsInv, ListTypes, ListValue, ListFits
<1>6. /\ after \in ListValue /\ after.observers \in Slots
      /\ after.depth = before.depth
      /\ AddedOnce(after.observers)
      /\ \A y : y # Null => (Within(y, after.observers) <=> Within(y, before.observers) /\ y # o)
      /\ before.depth = 0 /\ ~Within(Null, before.observers) => ~Within(Null, after.observers)
      /\ before.depth # 0 => Len(after.observers) = Len(before.observers)
  <2>1. /\ after \in ListValue
        /\ after.depth = before.depth
        /\ AddedOnce(before.observers) => AddedOnce(after.observers)
        /\ \A y : y # Null => (Within(y, after.observers) <=> Within(y, before.observers) /\ y # o)
        /\ before.depth = 0 /\ ~Within(Null, before.observers) => ~Within(Null, after.observers)
        /\ before.depth # 0 => Len(after.observers) = Len(before.observers)
    <3>1. /\ Removed(before, o) \in ListValue
          /\ Removed(before, o).depth = before.depth
          /\ AddedOnce(before.observers) => AddedOnce(Removed(before, o).observers)
          /\ \A y : y # Null => (Within(y, Removed(before, o).observers) <=> Within(y, before.observers) /\ y # o)
          /\ before.depth = 0 /\ ~Within(Null, before.observers) => ~Within(Null, Removed(before, o).observers)
          /\ before.depth # 0 => Len(Removed(before, o).observers) = Len(before.observers)
      BY <1>3, <1>5, RemovedFacts
    <3>2. QED BY <3>1, <1>1
  <2>2. after.observers \in Slots
    BY <2>1 DEF ListValue
  <2>3. QED BY <2>1, <2>2, <1>5
<1>7. /\ lists'[l] = after
      /\ \A k \in Lists : k # l => lists'[k] = lists[k]
      /\ pc'[t] = Free /\ pc'[t].op = "free"
      /\ \A u \in Loops : u # t => pc'[u] = pc[u]
  BY <1>2, <1>3 DEF ListTypes, Free
<1>8. Present(t)' = Present(t) \ {o} /\ Home[o] = t
  BY <1>2, <1>4 DEF Present
<1>9. Registered(after) = Registered(before) \ {o}
  <2>1. \A y : y \in Registered(after) <=> y \in Registered(before) /\ y # o
    BY <1>6, RegisteredIs
  <2>2. QED BY <2>1
<1>10. run[t].list \in Lists \cup {Null} /\ (run[t].list # Null => Running(t))
  BY <1>3 DEF ListTypes, Running, NoRun
<1>11. ListTypes'
  BY <1>2, <1>3, <1>6, <1>7 DEF ListTypes, Calls
<1>12. InUse(t)' = {map[t], run[t].list} \ {Null} /\ InUse(t) = InUse(t)' \cup {l}
  BY <1>1, <1>2, <1>3, <1>7 DEF InUse
<1>13. InUse(t) \subseteq live
  BY DEF ListsInv, LiveInUse
<1>14. run[t].list \notin {l, Null, map[t]} => Registered(lists'[run[t].list]) = {}
  BY <1>1, <1>3, <1>7, <1>10 DEF CallFits
<1>15. ASSUME NEW k \in InUse(t)', k # l PROVE ListFits(t, k)'
  <2>1. lists'[k] = lists[k] /\ ListFits(t, k)
    BY <1>15, <1>3, <1>7, <1>12, InUseTypes DEF ListsInv
  <2>2. QED BY <2>1, <1>2 DEF ListFits
<1>16. /\ \A k \in live : k \notin InUse(t) => lists'[k] = lists[k]
       /\ \A p \in Observers : Home[p] # t => (p \in registered' <=> p \in registered)
  BY <1>2, <1>3, <1>5, <1>7, <1>8 DEF ListTypes
<1>17. CASE map[t] = l
  <2>1. Registered(before) = Present(t) /\ Len(before.observers) # 1 /\ Within(o, before.observers)
    BY <1>1, <1>3, <1>4, <1>17, RegisteredIs DEF CallFits
  <2>2. PICK p \in Observers :
          /\ p # o /\ Within(p, before.observers)
          /\ run[t].list = l => p \notin Reentrant
    <3>1. CASE Within(Null, before.observers)
      BY <3>1, <1>4, <1>5, <1>10, <1>17, <1>3
    <3>2. CASE ~Within(Null, before.observers)
      <4>1. PICK p \in Observers : p # o /\ Within(p, before.observers)
        BY <3>2, <2>1, <1>5, Another
      <4>2. Home[p] = t
        BY <4>1, <2>1, RegisteredIs, NullAssumption DEF Present
      <4>3. run[t].list = l => p \notin Reentrant
        BY <4>1, <4>2, <1>3, <1>4, <1>8, <1>10 DEF OneReentrant
      <4>4. QED BY <4>1, <4>3
    <3>3. QED BY <3>1, <3>2
  <2>3. Within(p, after.observers)
    <3>1. p # Null /\ p # o /\ Within(p, before.observers)
      BY <2>2, NullAssumption
    <3>2. QED BY <3>1, <1>6
  <2>4. Registered(after) = Present(t)' /\ Present(t)' # {}
    BY <2>1, <2>3, <1>8, <1>9, RegisteredIs, NullAssumption
  <2>5. after.observers # << >>
    BY <2>3, <1>6, EmptyOrNot
  <2>6. live' = (live \ InUse(t)) \cup InUse(t)' /\ InUse(t)' = InUse(t)
    BY <2>5, <1>2, <1>3, <1>12, <1>13, <1>17
  <2>7. CallFits(t)'
    <3>1. map'[t] = l /\ run'[t].list = run[t].list /\ l # Null
      BY <1>2, <1>3, <1>17
    <3>2. QED BY <3>1, <2>4, <1>7, <1>14, <1>17 DEF CallFits
  <2>8. ListFits(t, l)'
    <3>1. Within(Null, after.observers) => run[t].list = l
      BY <1>5, <1>6
    <3>2. lists'[l].depth = IF run'[t].list = l THEN 1 ELSE 0
      BY <1>2, <1>5, <1>6, <1>7
    <3>3. run[t].list = l => \E q \in Observers \ Reentrant : Within(q, lists'[l].observers)
      BY <2>2, <2>3, <1>7
    <3>4. AddedOnce(lists'[l].observers) /\ run' = run
      BY <1>2, <1>6, <1>7
    <3>5. QED BY <3>1, <3>2, <3>3, <3>4, <1>7 DEF ListFits
  <2>9. QED BY <2>6, <2>7, <2>8, <1>2, <1>7, <1>11, <1>15, <1>16, StepOfOne
<1>18. CASE map[t] = Null
  <2>1. /\ before.observers = <<o>> /\ Len(before.observers) = 1
        /\ \A y : Within(y, before.observers) <=> y = o
    BY <1>3, <1>4, <1>18 DEF Within
  <2>2. Present(t) = {o}
    BY <1>1, <1>2, <1>3, <1>18 DEF CallFits
  <2>3. Present(t)' = {} /\ Registered(after) = {}
    <3>1. \A y : y \in Registered(before) => y = o
      BY <2>1, RegisteredIs
    <3>2. QED BY <3>1, <2>2, <1>8, <1>9
  <2>4. after.observers = << >> <=> run[t].list # l
    <3>1. CASE run[t].list = l
      <4>1. Len(after.observers) = 1
        BY <3>1, <2>1, <1>5, <1>6
      <4>2. after.observers # << >>
        BY <4>1
      <4>3. QED BY <4>2, <3>1
    <3>2. CASE run[t].list # l
      <4>1. ~Within(Null, after.observers)
        BY <3>2, <1>5, <1>6
      <4>2. \A y : ~Within(y, after.observers)
        BY <4>1, <2>1, <1>6
      <4>3. QED BY <4>2, <3>2, <1>6, EmptyOrNot
    <3>3. QED BY <3>1, <3>2
  <2>5. live' = (live \ InUse(t)) \cup InUse(t)'
    BY <2>4, <1>2, <1>3, <1>12, <1>13, <1>18
  <2>6. CallFits(t)'
    <3>1. map'[t] = Null /\ run'[t].list = run[t].list
      BY <1>2, <1>18
    <3>2. run[t].list # Null => Registered(lists'[run[t].list]) = {}
      BY <2>3, <1>7, <1>14, <1>18
    <3>3. QED BY <3>1, <3>2, <2>3, <1>7 DEF CallFits
  <2>7. l \in InUse(t)' => ListFits(t, l)'
    BY <1>2, <1>3, <1>5, <1>6, <1>7, <1>12, <1>18 DEF ListFits
  <2>8. QED BY <2>5, <2>6, <2>7, <1>2, <1>7, <1>11, <1>12, <1>15, <1>16, StepOfOne
<1>19. QED BY <1>4, <1>17, <1>18

(* Notify leaves the lists alone.                                            *)
LEMMA NotifyKeeps ==
  ASSUME ListsInv, NEW t \in Loops, Notify(t)
  PROVE  ListsInv'
<1>1. /\ tasks' = [u \in Loops |-> IF map[u] = Null THEN tasks[u] ELSE Append(tasks[u], map[u])]
      /\ owed' = owed \cup registered
      /\ UNCHANGED <<lists, live, map, run, pc, registered>>
  BY DEF Notify
<1>2. ListTypes'
  <2>1. ASSUME NEW u \in Loops
        PROVE  (IF map[u] = Null THEN tasks[u] ELSE Append(tasks[u], map[u])) \in Seq(Lists)
    BY DEF ListsInv, ListTypes
  <2>2. tasks' \in [Loops -> Seq(Lists)]
    BY <1>1, <2>1
  <2>3. QED BY <1>1, <2>2 DEF ListsInv, ListTypes
<1>3. \A u \in Loops : InUse(u)' = InUse(u) /\ Present(u)' = Present(u)
  BY <1>1 DEF InUse, Present
<1>4. ASSUME NEW u \in Loops PROVE CallFits(u)' /\ \A l \in InUse(u) : ListFits(u, l)'
  <2>1. registered' \subseteq Observers
    BY <1>2 DEF ListTypes
  <2>2. QED BY <1>1, <1>3, <2>1, OthersFit
<1>5. LiveInUse' /\ ListsApart'
  BY <1>1, <1>3 DEF ListsInv, LiveInUse, ListsApart
<1>6. QED BY <1>2, <1>3, <1>4, <1>5 DEF ListsInv

(* NotifyWrapper: the list that is in the map is under notification now.     *)
LEMMA NotifyWrapperKeeps ==
  ASSUME ListsInv, NEW t \in Loops, NotifyWrapper(t)
  PROVE  ListsInv'
<1>1. PICK l : l = Head(tasks[t])
  OBVIOUS
<1>2. /\ pc[t] = Free /\ ~Running(t) /\ tasks[t] # << >>
      /\ tasks' = [tasks EXCEPT ![t] = Tail(tasks[t])]
      /\ IF map[t] = l
         THEN /\ run' = [run EXCEPT ![t] = [NoRun EXCEPT !.list = l]]
              /\ lists' = [lists EXCEPT ![l] = Entered(lists[l])]
         ELSE UNCHANGED <<run, lists>>
      /\ UNCHANGED <<live, map, pc, registered, owed>>
  BY <1>1 DEF NotifyWrapper
<1>3. /\ ListTypes /\ CallFits(t) /\ l \in Lists /\ l # Null
      /\ run[t].list = Null /\ tasks' \in [Loops -> Seq(Lists)]
  <2>1. ListTypes /\ CallFits(t) /\ tasks[t] \in Seq(Lists)
    BY DEF ListsInv, ListTypes
  <2>2. l \in Lists /\ Tail(tasks[t]) \in Seq(Lists)
    BY <1>1, <1>2, <2>1
  <2>3. run[t].list = Null
    BY <1>2 DEF Running, NoRun
  <2>4. QED BY <1>2, <2>1, <2>2, <2>3, NullAddress DEF ListTypes
<1>4. CASE map[t] # l
  <2>1. UNCHANGED <<lists, live, map, run, pc, registered, owed>>
    BY <1>2, <1>4
  <2>2. ListTypes'
    BY <1>3, <2>1 DEF ListTypes
  <2>3. \A u \in Loops : InUse(u)' = InUse(u) /\ Present(u)' = Present(u)
    BY <2>1 DEF InUse, Present
  <2>4. ASSUME NEW u \in Loops PROVE CallFits(u)' /\ \A k \in InUse(u) : ListFits(u, k)'
    <3>1. registered' \subseteq Observers
      BY <2>2 DEF ListTypes
    <3>2. QED BY <2>1, <2>3, <3>1, OthersFit
  <2>5. LiveInUse' /\ ListsApart'
    BY <2>1, <2>3 DEF ListsInv, LiveInUse, ListsApart
  <2>6. QED BY <2>2, <2>3, <2>4, <2>5 DEF ListsInv
<1>5. CASE map[t] = l
  <2>1. run' = [run EXCEPT ![t] = [NoRun EXCEPT !.list = l]] /\ lists' = [lists EXCEPT ![l] = Entered(lists[l])]
    BY <1>2, <1>5
  <2>2. /\ [NoRun EXCEPT !.list = l] \in [list : Lists \cup {Null}, index : Nat, calling : BOOLEAN]
        /\ [NoRun EXCEPT !.list = l].list = l
    <3>1. NoRun \in [list : Lists \cup {Null}, index : Nat, calling : BOOLEAN]
      BY DEF NoRun
    <3>2. QED BY <1>3, <3>1
  <2>3. run'[t] = [NoRun EXCEPT !.list = l] /\ run'[t].list = l
    BY <1>3, <2>1, <2>2 DEF ListTypes
  <2>4. l \in InUse(t) /\ ListFits(t, l) /\ lists[l] \in ListValue
    BY <1>3, <1>5 DEF InUse, ListsInv, ListTypes
  <2>5. /\ lists'[l] = Entered(lists[l]) /\ lists'[l] \in ListValue
        /\ lists'[l].depth = 1 /\ lists'[l].observers = lists[l].observers
        /\ \A k \in Lists : k # l => lists'[k] = lists[k]
    <3>1. lists[l].depth = 0
      BY <1>3, <2>4 DEF ListFits
    <3>2. lists'[l] = Entered(lists[l]) /\ \A k \in Lists : k # l => lists'[k] = lists[k]
      BY <1>3, <2>1 DEF ListTypes
    <3>3. QED BY <2>4, <3>1, <3>2, EnteredFacts
  <2>6. ListTypes'
    <3>1. run'[t] \in [list : Lists \cup {Null}, index : Nat, calling : BOOLEAN]
      BY <2>2, <2>3
    <3>2. run' \in [Loops -> [list : Lists \cup {Null}, index : Nat, calling : BOOLEAN]]
      BY <1>3, <2>1, <2>2, <3>1, <2>3 DEF ListTypes
    <3>3. lists' \in [Lists -> ListValue]
      BY <1>3, <2>1, <2>5 DEF ListTypes
    <3>4. \A u \in Loops : run'[u].list = Null => run'[u] = NoRun
      BY <1>3, <2>1, <2>3 DEF ListTypes
    <3>5. QED BY <1>2, <1>3, <3>2, <3>3, <3>4 DEF ListTypes
  <2>7. InUse(t) = {l} /\ InUse(t)' = {l}
    BY <1>2, <1>3, <1>5, <2>3 DEF InUse
  <2>8. CallFits(t)'
    <3>1. Present(t)' = Present(t) /\ map'[t] = l /\ pc'[t] = Free /\ pc'[t].op = "free"
      BY <1>2, <1>5 DEF Present, Free
    <3>2. Registered(lists'[l]) = Present(t) /\ Present(t) # {}
      BY <1>2, <1>3, <1>5, <2>5 DEF CallFits, Registered
    <3>3. QED BY <1>3, <2>3, <3>1, <3>2 DEF CallFits
  <2>9. ListFits(t, l)'
    BY <1>3, <2>3, <2>4, <2>5 DEF ListFits
  <2>10. live' = (live \ InUse(t)) \cup InUse(t)'
    BY <1>2, <2>7 DEF ListsInv, LiveInUse
  <2>11. \A u \in Loops : u # t => map'[u] = map[u] /\ run'[u] = run[u] /\ pc'[u] = pc[u]
    BY <1>2, <1>3, <2>1 DEF ListTypes
  <2>12. \A k \in live : k \notin InUse(t) => lists'[k] = lists[k]
    BY <1>3, <2>5, <2>7 DEF ListTypes
  <2>13. QED BY <1>2, <2>6, <2>7, <2>8, <2>9, <2>10, <2>11, <2>12, StepOfOne
<1>6. QED BY <1>4, <1>5

LEMMA CallNextKeeps ==
  ASSUME ListsInv, NEW t \in Loops, CallNext(t)
  PROVE  ListsInv'
<1>1. PICK n : n = First(NextSlots(t))
  OBVIOUS
<1>2. /\ pc[t] = Free /\ Running(t) /\ NextSlots(t) # {}
      /\ run' = [run EXCEPT ![t] = [run[t] EXCEPT !.index = n, !.calling = TRUE]]
      /\ owed' \subseteq owed
      /\ UNCHANGED <<lists, live, map, tasks, pc, registered>>
  BY <1>1 DEF CallNext
<1>3. ListTypes /\ run[t].list # Null /\ n \in Nat
  <2>1. ListTypes /\ run[t].list \in Lists
    BY <1>2 DEF ListsInv, ListTypes, Running
  <2>2. lists[run[t].list] \in ListValue /\ run[t].index \in Nat
    BY <2>1 DEF ListTypes
  <2>3. n \in DOMAIN lists[run[t].list].observers
    BY <1>1, <1>2, <2>2, BoundAssumption, FirstFacts DEF NextSlots
  <2>4. n \in Nat
    BY <2>2, <2>3 DEF ListValue, Slots
  <2>5. QED BY <2>1, <2>4, NullAddress
<1>4. PICK r \in [list : Lists \cup {Null}, index : Nat, calling : BOOLEAN] :
        r = [run[t] EXCEPT !.index = n, !.calling = TRUE] /\ r.list = run[t].list
  <2> DEFINE r == [run[t] EXCEPT !.index = n, !.calling = TRUE]
  <2>1. run[t] \in [list : Lists \cup {Null}, index : Nat, calling : BOOLEAN]
    BY <1>3 DEF ListTypes
  <2>2. r \in [list : Lists \cup {Null}, index : Nat, calling : BOOLEAN] /\ r.list = run[t].list
    BY <1>3, <2>1
  <2>3. QED BY <2>2
<1>5. /\ \A u \in Loops : run'[u].list = run[u].list /\ (Running(u)' <=> Running(u))
      /\ run' \in [Loops -> [list : Lists \cup {Null}, index : Nat, calling : BOOLEAN]]
      /\ \A u \in Loops : run'[u].list = Null => run'[u] = NoRun
  <2>1. run'[t] = r
    BY <1>2, <1>3, <1>4 DEF ListTypes
  <2>2. \A u \in Loops : u # t => run'[u] = run[u]
    BY <1>2, <1>3 DEF ListTypes
  <2>3. run'[t] # NoRun /\ run'[t].list = run[t].list
    <3>1. NoRun.list = Null
      BY DEF NoRun
    <3>2. QED BY <1>3, <1>4, <2>1, <3>1
  <2>4. run'[t] \in [list : Lists \cup {Null}, index : Nat, calling : BOOLEAN]
    BY <1>4, <2>1
  <2>5. QED BY <1>2, <1>3, <1>4, <2>1, <2>2, <2>3, <2>4 DEF ListTypes, Running
<1>6. ListTypes'
  BY <1>2, <1>3, <1>5 DEF ListTypes
<1>7. \A u \in Loops : InUse(u)' = InUse(u) /\ Present(u)' = Present(u)
  BY <1>2, <1>5 DEF InUse, Present
<1>8. ASSUME NEW u \in Loops PROVE CallFits(u)' /\ \A l \in InUse(u) : ListFits(u, l)'
  <2>1. /\ run'[u].list = run[u].list /\ (Running(u)' <=> Running(u)) /\ Present(u)' = Present(u)
        /\ map'[u] = map[u] /\ pc'[u] = pc[u] /\ lists' = lists /\ registered' = registered
    BY <1>2, <1>5, <1>7
  <2>2. \A l \in InUse(u) : ListFits(u, l)'
    BY <2>1 DEF ListsInv, ListFits
  <2>3. CallFits(u)'
    <3>1. CallFits(u)
      BY DEF ListsInv
    <3>2. QED BY <2>1, <3>1 DEF CallFits, Registered
  <2>4. QED BY <2>2, <2>3
<1>9. LiveInUse' /\ ListsApart'
  BY <1>2, <1>7 DEF ListsInv, LiveInUse, ListsApart
<1>10. QED BY <1>6, <1>7, <1>8, <1>9 DEF ListsInv

(* The end of a NotifyWrapper: a list that has left the map meanwhile is     *)
(* empty, and deleted here.                                                  *)
LEMMA NotifyWrapperEndsKeeps ==
  ASSUME ListsInv, NEW t \in Loops, NotifyWrapperEnds(t)
  PROVE  ListsInv'
<1>1. PICK l, before, after : l = run[t].list /\ before = lists[l] /\ after = Left(before)
  OBVIOUS
<1>2. /\ pc[t] = Free /\ Running(t)
      /\ lists' = [lists EXCEPT ![l] = after]
      /\ live' = IF after.observers = << >> THEN live \ {l} ELSE live
      /\ run' = [run EXCEPT ![t] = NoRun]
      /\ UNCHANGED <<map, tasks, pc, registered, owed>>
  BY <1>1 DEF NotifyWrapperEnds
<1>3. ListTypes /\ CallFits(t) /\ l \in Lists /\ l # Null
  BY <1>1, <1>2, NullAddress DEF ListsInv, ListTypes, Running
<1>4. /\ l \in InUse(t) /\ before \in ListValue /\ before.depth = 1 /\ AddedOnce(before.observers)
  BY <1>1, <1>3 DEF InUse, ListsInv, ListTypes, ListFits
<1>5. /\ after \in ListValue /\ after.observers \in Slots /\ after.depth = 0
      /\ AddedOnce(after.observers) /\ ~Within(Null, after.observers)
      /\ \A y : y # Null => (Within(y, after.observers) <=> Within(y, before.observers))
  <2>1. /\ Left(before) \in ListValue /\ Left(before).depth = 0
        /\ AddedOnce(Left(before).observers) /\ ~Within(Null, Left(before).observers)
        /\ \A y : y # Null => (Within(y, Left(before).observers) <=> Within(y, before.observers))
    BY <1>4, LeftFacts
  <2>2. QED BY <1>1, <2>1 DEF ListValue
<1>6. Registered(after) = Registered(before)
  <2>1. \A y : y \in Registered(after) <=> y \in Registered(before)
    BY <1>5, RegisteredIs
  <2>2. QED BY <2>1
<1>7. /\ lists'[l] = after /\ run'[t] = NoRun /\ run'[t].list = Null /\ ~Running(t)'
      /\ \A k \in Lists : k # l => lists'[k] = lists[k]
      /\ \A u \in Loops : u # t => run'[u] = run[u]
  BY <1>2, <1>3 DEF ListTypes, NoRun, Running
<1>8. ListTypes'
  <2>1. NoRun \in [list : Lists \cup {Null}, index : Nat, calling : BOOLEAN]
    BY DEF NoRun
  <2>2. run' \in [Loops -> [list : Lists \cup {Null}, index : Nat, calling : BOOLEAN]]
    BY <1>2, <1>3, <2>1 DEF ListTypes
  <2>3. lists' \in [Lists -> ListValue] /\ live' \subseteq Lists
    BY <1>2, <1>3, <1>5 DEF ListTypes
  <2>4. \A u \in Loops : run'[u].list = Null => run'[u] = NoRun
    BY <1>3, <1>7 DEF ListTypes
  <2>5. QED BY <1>2, <1>3, <2>2, <2>3, <2>4 DEF ListTypes
<1>9. InUse(t)' = {map[t]} \ {Null} /\ InUse(t) = InUse(t)' \cup {l}
  BY <1>1, <1>2, <1>3, <1>7 DEF InUse
<1>10. after.observers = << >> <=> map[t] # l
  <2>1. CASE map[t] = l
    <3>1. Registered(after) # {}
      BY <1>1, <1>2, <1>3, <1>6, <2>1 DEF CallFits
    <3>2. PICK y : Within(y, after.observers)
      BY <3>1, RegisteredIs
    <3>3. QED BY <2>1, <3>2, <1>5, EmptyOrNot
  <2>2. CASE map[t] # l
    <3>1. Registered(after) = {}
      BY <1>1, <1>2, <1>3, <1>6, <2>2 DEF CallFits, Free
    <3>2. \A y : ~Within(y, after.observers)
      BY <3>1, <1>5, RegisteredIs
    <3>3. QED BY <2>2, <3>2, <1>5, EmptyOrNot
  <2>3. QED BY <2>1, <2>2
<1>11. InUse(t) \subseteq live
  BY DEF ListsInv, LiveInUse
<1>12. live' = (live \ InUse(t)) \cup InUse(t)'
  BY <1>2, <1>3, <1>9, <1>10, <1>11
<1>13. CallFits(t)'
  <2>1. Present(t)' = Present(t) /\ map'[t] = map[t] /\ pc'[t] = Free /\ pc'[t].op = "free"
    BY <1>2 DEF Present, Free
  <2>2. map[t] # Null => Registered(lists'[map[t]]) = Present(t) /\ Present(t) # {}
    <3>1. map[t] # Null => map[t] \in Lists /\ Registered(lists[map[t]]) = Present(t) /\ Present(t) # {}
      BY <1>2, <1>3 DEF CallFits, ListTypes
    <3>2. QED BY <3>1, <1>1, <1>6, <1>7
  <2>3. map[t] = Null => Present(t) = {}
    BY <1>2, <1>3 DEF CallFits, Free
  <2>4. QED BY <2>1, <2>2, <2>3, <1>7 DEF CallFits
<1>14. ASSUME NEW k \in InUse(t)' PROVE ListFits(t, k)'
  <2>1. k \in Lists /\ k # Null /\ ListFits(t, k)
    BY <1>3, <1>9, InUseTypes, NullAddress DEF ListsInv
  <2>2. CASE k = l
    BY <2>1, <2>2, <1>5, <1>7 DEF ListFits
  <2>3. CASE k # l
    BY <2>1, <2>3, <1>1, <1>7 DEF ListFits
  <2>4. QED BY <2>2, <2>3
<1>15. \A k \in live : k \notin InUse(t) => lists'[k] = lists[k]
  BY <1>3, <1>4, <1>7 DEF ListTypes
<1>16. QED BY <1>2, <1>7, <1>8, <1>9, <1>12, <1>13, <1>14, <1>15, StepOfOne

LEMMA ListsStep ==
  ASSUME OneReentrant
  PROVE  ListsInv /\ [EitherNext]_allVars => ListsInv'
<1> SUFFICES ASSUME ListsInv, [EitherNext]_allVars PROVE ListsInv'
  OBVIOUS
<1>1. CASE kind = "thread safe" /\ Next
  BY <1>1, AddLockedKeeps, RemoveLockedKeeps, AddUnlockedKeeps, RemoveUnlockedKeeps,
     NotifyKeeps, NotifyWrapperKeeps, CallNextKeeps, NotifyWrapperEndsKeeps DEF Next
<1>2. CASE UNCHANGED vars
  <2>1. ListTypes'
    BY <1>2 DEF vars, ListsInv, ListTypes
  <2>2. \A u \in Loops : InUse(u)' = InUse(u)
    BY <1>2 DEF vars, InUse
  <2>3. ASSUME NEW u \in Loops PROVE CallFits(u)' /\ \A l \in InUse(u)' : ListFits(u, l)'
    <3>1. registered' \subseteq Observers
      BY <2>1 DEF ListTypes
    <3>2. QED BY <1>2, <3>1, OthersFit DEF vars
  <2>4. LiveInUse' /\ ListsApart'
    BY <1>2, <2>2 DEF vars, ListsInv, LiveInUse, ListsApart
  <2>5. QED BY <2>1, <2>3, <2>4 DEF ListsInv
<1>3. QED BY <1>1, <1>2 DEF EitherNext, allVars

LEMMA ListsInvariance ==
  ASSUME OneReentrant
  PROVE  EitherSpec => []ListsInv
<1>1. EitherInit => ListsInv
  BY ListsStart DEF EitherInit
<1>2. ListsInv /\ [EitherNext]_allVars => ListsInv'
  BY ListsStep
<1>3. QED BY <1>1, <1>2, PTL DEF EitherSpec

LEMMA ListsInvSound == ListsInv => ListsSound
<1> SUFFICES ASSUME ListsInv PROVE ListsSound
  OBVIOUS
<1>1. ListTypes /\ LiveInUse
  BY DEF ListsInv
<1>2. ASSUME NEW l \in live
      PROVE  lists[l].depth = IF \E t \in Loops : run[t].list = l THEN 1 ELSE 0
  <2>1. PICK u \in Loops : l \in InUse(u)
    BY <1>1 DEF LiveInUse
  <2>2. l \in Lists /\ l # Null /\ ListFits(u, l)
    BY <1>1, <2>1, InUseTypes, NullAddress DEF ListsInv
  <2>3. \A t \in Loops : run[t].list = l => l \in InUse(t)
    BY <2>2 DEF InUse
  <2>4. (\E t \in Loops : run[t].list = l) <=> run[u].list = l
    BY <2>1, <2>3 DEF ListsInv, ListsApart
  <2>5. QED BY <2>2, <2>4 DEF ListFits
<1>3. ASSUME NEW o \in registered PROVE Reachable(o)
  <2>1. PICK t \in Loops : t = Home[o]
    BY <1>1, HomeAssumption DEF ListTypes
  <2>2. o \in Present(t) /\ CallFits(t)
    BY <2>1 DEF Present, ListsInv
  <2>3. CASE map[t] = Null
    BY <2>1, <2>2, <2>3 DEF CallFits, Reachable
  <2>4. CASE map[t] # Null
    BY <2>1, <2>2, <2>4 DEF CallFits, Reachable
  <2>5. QED BY <2>3, <2>4
<1>4. \A l \in Lists : lists[l].observers \in Seq(Observers \cup {Null})
  BY <1>1 DEF ListTypes, ListValue, Slots
<1>5. TypeOK
  BY <1>1, <1>2, <1>3, <1>4 DEF ListTypes, TypeOK
<1>6. QED BY <1>1, <1>5 DEF ListsSound

(* An observer that is registered is on the list the map has for its loop, a *)
(* list is under notification where its thread runs NotifyWrapper, and the    *)
(* lists that were made and not deleted are those in use, whoever of         *)
(* RemoveObserver and NotifyWrapper comes first.  OneReentrant is what the   *)
(* code needs: of two observers of a thread, both removed within one          *)
(* notification, size() counts the slots, and the list stays in the map.     *)
THEOREM ListsStaySound ==
  ASSUME OneReentrant
  PROVE  EitherSpec => []ListsSound
<1>1. EitherSpec => []ListsInv
  BY ListsInvariance
<1>2. QED BY <1>1, ListsInvSound, PTL

(* GetNext of a NotifyWrapper returns observers that are registered.         *)
LEMMA CalledIsRegistered ==
  ASSUME ListsInv, NEW t \in Loops, CallNext(t)
  PROVE  lists[run[t].list].observers[run'[t].index] \in registered
<1>1. PICK l, n : l = run[t].list /\ n = First(Ahead(lists[l], run[t].index, MaxSlots))
  OBVIOUS
<1>2. /\ pc[t] = Free /\ Running(t) /\ Ahead(lists[l], run[t].index, MaxSlots) # {}
      /\ run' = [run EXCEPT ![t] = [run[t] EXCEPT !.index = n, !.calling = TRUE]]
  BY <1>1 DEF CallNext, NextSlots
<1>3. ListTypes /\ CallFits(t) /\ l \in Lists /\ l # Null
  BY <1>1, <1>2, NullAddress DEF ListsInv, ListTypes, Running
<1>4. run'[t].index = n
  <2>1. run'[t] = [run[t] EXCEPT !.index = n, !.calling = TRUE]
    BY <1>2, <1>3 DEF ListTypes
  <2>2. run[t] \in [list : Lists \cup {Null}, index : Nat, calling : BOOLEAN]
    BY <1>3 DEF ListTypes
  <2>3. QED BY <2>1, <2>2
<1>5. lists[l] \in ListValue /\ run[t].index \in Nat /\ MaxSlots \in Nat
  BY <1>3, BoundAssumption DEF ListTypes
<1>6. n \in DOMAIN lists[l].observers /\ lists[l].observers[n] \in Observers
  BY <1>1, <1>2, <1>5, FirstFacts
<1>7. lists[l].observers[n] \in Registered(lists[l])
  BY <1>6, NullAssumption DEF Registered
<1>8. Registered(lists[l]) = Present(t)
  BY <1>1, <1>2, <1>3, <1>7 DEF CallFits, Free
<1>9. QED BY <1>1, <1>4, <1>7, <1>8 DEF Present

(* "If there are pending notifications in-transit to the observer, they will *)
(* be aborted" (RemoveObserver): no NotifyWrapper calls an observer that is   *)
(* not registered, though tasks hold lists that may be deleted, or made anew *)
(* at the same address.                                                      *)
THEOREM OnlyRegisteredCalled ==
  ASSUME OneReentrant
  PROVE  EitherSpec => OnlyRegistered
<1>1. EitherSpec => []ListsInv
  BY ListsInvariance
<1>2. ListsInv /\ [EitherNext]_allVars =>
        [\A t \in Loops : Running(t) /\ run'[t].index # run[t].index /\ run'[t] # NoRun
           => lists[run[t].list].observers[run'[t].index] \in registered]_vars
  <2> SUFFICES ASSUME ListsInv, [EitherNext]_allVars, NEW t \in Loops,
                      Running(t), run'[t].index # run[t].index, run'[t] # NoRun
               PROVE  lists[run[t].list].observers[run'[t].index] \in registered
    OBVIOUS
  <2>1. PICK u \in Loops :
          \/ \E o \in Observers : AddLocked(u, o) \/ RemoveLocked(u, o)
          \/ AddUnlocked(u) \/ RemoveUnlocked(u) \/ Notify(u)
          \/ NotifyWrapper(u) \/ CallNext(u) \/ NotifyWrapperEnds(u)
    BY DEF EitherNext, allVars, vars, Next
  <2>2. run' # run
    OBVIOUS
  <2>3. NotifyWrapper(u) \/ CallNext(u) \/ NotifyWrapperEnds(u)
    BY <2>1, <2>2 DEF AddLocked, RemoveLocked, AddUnlocked, RemoveUnlocked, Notify
  <2>4. run \in [Loops -> [list : Lists \cup {Null}, index : Nat, calling : BOOLEAN]]
    BY DEF ListsInv, ListTypes
  <2>5. u = t
    BY <2>3, <2>4 DEF NotifyWrapper, CallNext, NotifyWrapperEnds
  <2>6. CASE NotifyWrapper(t)
    BY <2>6 DEF NotifyWrapper
  <2>7. CASE NotifyWrapperEnds(t)
    BY <2>7, <2>4 DEF NotifyWrapperEnds
  <2>8. QED BY <2>3, <2>5, <2>6, <2>7, CalledIsRegistered
<1>3. QED BY <1>1, <1>2, PTL DEF EitherSpec, OnlyRegistered
=============================================================================
