--------------------------- MODULE SequenceFacts ------------------------------
(***************************************************************************)
(* Facts about the queues and vectors of the models: which elements a        *)
(* sequence has, and whether it has any of them twice, when it grows,        *)
(* shrinks or is filtered.  The proofs about the components cite them.       *)
(***************************************************************************)
EXTENDS Integers, Sequences, FiniteSets, TLAPS, SequenceTheorems, FiniteSetTheorems,
        WellFoundedInduction

-----------------------------------------------------------------------------
(* A set of natural numbers has a least element: induction over the numbers  *)
(* is by the least counterexample.                                           *)
LEMMA NatMin ==
  ASSUME NEW S, S \subseteq Nat, S # {}
  PROVE  \E x \in S : \A y \in S : x <= y
<1>1. PICK x \in S : \A y \in S : ~ (<<y, x>> \in OpToRel(<, Nat))
  BY NatLessThanWellFounded, WFMin, Zenon
<1>2. \A y \in S : x <= y
  <2>1. TAKE y \in S
  <2>2. <<y, x>> \in Nat \X Nat
    OBVIOUS
  <2>3. ~ (y < x)
    BY <1>1, <2>2 DEF OpToRel
  <2>4. QED BY <2>3
<1>3. QED BY <1>2

-----------------------------------------------------------------------------
Within(x, s)  == \E n \in DOMAIN s : s[n] = x
NoRepeats(s)  == \A m, n \in DOMAIN s : s[m] = s[n] => m = n

LEMMA Domain ==
  ASSUME NEW S, NEW s \in Seq(S)
  PROVE  DOMAIN s = 1..Len(s) /\ Len(s) \in Nat /\ \A n \in 1..Len(s) : s[n] \in S
  OBVIOUS

LEMMA WithinType ==
  ASSUME NEW S, NEW s \in Seq(S)
  PROVE  \A x : Within(x, s) => x \in S
  BY Domain DEF Within

LEMMA WithinEmpty == NoRepeats(<< >>) /\ \A x : ~Within(x, << >>)
  BY DEF Within, NoRepeats

(* A queue grows at its end.                                                 *)
LEMMA Appending ==
  ASSUME NEW S, NEW s \in Seq(S), NEW e \in S
  PROVE  /\ Append(s, e) \in Seq(S) /\ Append(s, e) # << >>
         /\ \A x : Within(x, Append(s, e)) <=> Within(x, s) \/ x = e
         /\ NoRepeats(s) /\ ~Within(e, s) => NoRepeats(Append(s, e))
<1> DEFINE r == Append(s, e)
<1>1. /\ r \in Seq(S) /\ r # << >> /\ DOMAIN s = 1..Len(s) /\ Len(s) \in Nat
      /\ DOMAIN r = 1..Len(s) + 1
      /\ \A n \in 1..Len(s) : r[n] = s[n]
      /\ r[Len(s) + 1] = e
  OBVIOUS
<1> HIDE DEF r
<1>2. \A x : Within(x, r) <=> Within(x, s) \/ x = e
  BY <1>1 DEF Within
<1>3. NoRepeats(s) /\ ~Within(e, s) => NoRepeats(r)
  BY <1>1 DEF Within, NoRepeats
<1>4. QED BY <1>1, <1>2, <1>3 DEF r

(* and shrinks at its head.                                                  *)
LEMMA TakingHead ==
  ASSUME NEW S, NEW s \in Seq(S), s # << >>
  PROVE  /\ Head(s) \in S /\ Within(Head(s), s) /\ Tail(s) \in Seq(S)
         /\ \A x : Within(x, s) <=> Within(x, Tail(s)) \/ x = Head(s)
         /\ NoRepeats(s) => NoRepeats(Tail(s)) /\ ~Within(Head(s), Tail(s))
<1> DEFINE r == Tail(s)
<1>1. /\ Head(s) \in S /\ Head(s) = s[1] /\ r \in Seq(S)
      /\ Len(s) \in Nat \ {0} /\ DOMAIN s = 1..Len(s) /\ DOMAIN r = 1..Len(s) - 1
      /\ \A n \in 1..Len(s) - 1 : r[n] = s[n + 1]
  OBVIOUS
<1> HIDE DEF r
<1>2. Within(Head(s), s)
  BY <1>1 DEF Within
<1>3. ASSUME NEW x PROVE Within(x, s) <=> Within(x, r) \/ x = Head(s)
  <2>1. ASSUME Within(x, r) PROVE Within(x, s)
    <3>1. PICK n \in 1..Len(s) - 1 : s[n + 1] = x
      BY <2>1, <1>1 DEF Within
    <3>2. n + 1 \in 1..Len(s)
      BY <1>1
    <3>3. QED BY <3>1, <3>2, <1>1 DEF Within
  <2>2. ASSUME Within(x, s), x # Head(s) PROVE Within(x, r)
    <3>1. PICK n \in 1..Len(s) : s[n] = x
      BY <2>2, <1>1 DEF Within
    <3>2. n - 1 \in 1..Len(s) - 1 /\ (n - 1) + 1 = n
      BY <3>1, <2>2, <1>1
    <3>3. r[n - 1] = x
      BY <3>1, <3>2, <1>1
    <3>4. QED BY <3>2, <3>3, <1>1 DEF Within
  <2>3. QED BY <2>1, <2>2, <1>2
<1>4. ASSUME NoRepeats(s) PROVE NoRepeats(r) /\ ~Within(Head(s), r)
  <2>1. ASSUME NEW m \in 1..Len(s) - 1, NEW n \in 1..Len(s) - 1, r[m] = r[n]
        PROVE  m = n
    <3>1. s[m + 1] = s[n + 1] /\ m + 1 \in 1..Len(s) /\ n + 1 \in 1..Len(s)
      BY <2>1, <1>1
    <3>2. m + 1 = n + 1
      BY <3>1, <1>1, <1>4 DEF NoRepeats
    <3>3. QED BY <3>2
  <2>2. ASSUME NEW n \in 1..Len(s) - 1, r[n] = Head(s) PROVE FALSE
    <3>1. s[n + 1] = s[1] /\ n + 1 \in 1..Len(s) /\ 1 \in 1..Len(s)
      BY <2>2, <1>1
    <3>2. n + 1 = 1
      BY <3>1, <1>1, <1>4 DEF NoRepeats
    <3>3. QED BY <3>2
  <2>3. QED BY <2>1, <2>2, <1>1 DEF Within, NoRepeats
<1>5. QED BY <1>1, <1>2, <1>3, <1>4 DEF r

(* An element is put in front.                                               *)
LEMMA Prefixing ==
  ASSUME NEW S, NEW s \in Seq(S), NEW e \in S
  PROVE  /\ <<e>> \o s \in Seq(S)
         /\ \A x : Within(x, <<e>> \o s) <=> Within(x, s) \/ x = e
         /\ NoRepeats(s) /\ ~Within(e, s) => NoRepeats(<<e>> \o s)
<1> DEFINE r == <<e>> \o s
<1>1. /\ r \in Seq(S) /\ r # << >> /\ Tail(r) = s /\ Head(r) = e
  OBVIOUS
<1> HIDE DEF r
<1>2. \A x : Within(x, r) <=> Within(x, s) \/ x = e
  BY <1>1, TakingHead
<1>3. ASSUME NoRepeats(s), ~Within(e, s) PROVE NoRepeats(r)
  <2>1. /\ Len(s) \in Nat /\ DOMAIN s = 1..Len(s) /\ DOMAIN r = 1..Len(s) + 1
        /\ r[1] = e /\ \A n \in 1..Len(s) : s[n] = r[n + 1]
    BY DEF r
  <2>2. ASSUME NEW n \in DOMAIN r, n # 1 PROVE n - 1 \in DOMAIN s /\ r[n] = s[n - 1]
    <3>1. n - 1 \in 1..Len(s) /\ n = (n - 1) + 1
      BY <2>1, <2>2
    <3>2. QED BY <2>1, <3>1
  <2>3. SUFFICES ASSUME NEW m \in DOMAIN r, NEW n \in DOMAIN r, r[m] = r[n] PROVE m = n
    BY DEF NoRepeats
  <2>4. CASE m = 1 /\ n = 1
    BY <2>4
  <2>5. CASE m = 1 /\ n # 1
    BY <2>1, <2>2, <2>3, <2>5, <1>3 DEF Within
  <2>6. CASE m # 1 /\ n = 1
    BY <2>1, <2>2, <2>3, <2>6, <1>3 DEF Within
  <2>7. CASE m # 1 /\ n # 1
    <3>1. m - 1 = n - 1
      BY <2>2, <2>3, <2>7, <1>3 DEF NoRepeats
    <3>2. QED BY <3>1, <2>1
  <2>8. QED BY <2>4, <2>5, <2>6, <2>7
<1>4. QED BY <1>1, <1>2, <1>3 DEF r

(* An element is put in anywhere, as InsertAt of SequencesExt does.          *)
PutIn(s, i, e) == SubSeq(s, 1, i - 1) \o <<e>> \o SubSeq(s, i, Len(s))

LEMMA Inserted ==
  ASSUME NEW S, NEW s \in Seq(S), NEW e \in S, NEW i \in 1..Len(s) + 1
  PROVE  LET r == PutIn(s, i, e)
         IN  /\ r \in Seq(S) /\ Len(s) \in Nat /\ DOMAIN r = 1..Len(s) + 1
             /\ \A n \in 1..Len(s) + 1 :
                  (n < i => r[n] = s[n]) /\ (n = i => r[n] = e) /\ (n > i => r[n] = s[n - 1])
<1> DEFINE front == SubSeq(s, 1, i - 1)
           back  == SubSeq(s, i, Len(s))
           most  == front \o <<e>>
           r     == most \o back
<1>1. Len(s) \in Nat /\ DOMAIN s = 1..Len(s) /\ \A n \in 1..Len(s) : s[n] \in S
  OBVIOUS
<1>2. /\ front \in Seq(S) /\ Len(front) = i - 1
      /\ \A n \in 1..i - 1 : front[n] = s[n]
  OBVIOUS
<1>3. /\ back \in Seq(S) /\ Len(back) = Len(s) - i + 1
      /\ \A n \in 1..Len(s) - i + 1 : back[n] = s[i + n - 1]
  OBVIOUS
<1> HIDE DEF front, back
<1>4. /\ r \in Seq(S) /\ DOMAIN r = 1..Len(s) + 1
      /\ \A n \in 1..Len(s) + 1 :
           r[n] = IF n < i THEN s[n] ELSE IF n = i THEN e ELSE s[n - 1]
  <2>1. /\ most \in Seq(S) /\ Len(most) = i
        /\ \A n \in 1..i : most[n] = IF n < i THEN s[n] ELSE e
    BY <1>1, <1>2
  <2> HIDE DEF most
  <2>2. r \in Seq(S) /\ Len(r) = Len(s) + 1 /\ DOMAIN r = 1..Len(s) + 1
    <3>1. r \in Seq(S) /\ Len(r) = Len(most) + Len(back)
      BY <2>1, <1>3, ConcatProperties, Zenon
    <3>2. Len(most) + Len(back) = Len(s) + 1
      BY <2>1, <1>1, <1>3
    <3> HIDE DEF r
    <3>3. QED BY <3>1, <3>2, <1>1
  <2>3. ASSUME NEW n \in 1..i PROVE r[n] = most[n]
    BY <2>1, <1>1, <1>3
  <2>4. ASSUME NEW n \in i + 1..Len(s) + 1 PROVE r[n] = s[n - 1]
    <3>1. r[n] = back[n - i] /\ n - i \in 1..Len(s) - i + 1
      BY <2>1, <1>1, <1>3
    <3>2. i + (n - i) - 1 = n - 1
      BY <1>1
    <3>3. QED BY <3>1, <3>2, <1>3
  <2>5. QED BY <2>1, <2>2, <2>3, <2>4, <1>1
<1>5. PutIn(s, i, e) = r
  BY DEF PutIn, r, most, front, back
<1>6. ASSUME NEW n \in 1..Len(s) + 1
      PROVE  (n < i => r[n] = s[n]) /\ (n = i => r[n] = e) /\ (n > i => r[n] = s[n - 1])
  BY <1>1, <1>4
<1>7. QED BY <1>1, <1>4, <1>5, <1>6

LEMMA Inserting ==
  ASSUME NEW S, NEW s \in Seq(S), NEW e \in S, NEW i \in 1..Len(s) + 1
  PROVE  LET r == PutIn(s, i, e)
         IN  /\ r \in Seq(S)
             /\ \A x : Within(x, r) <=> Within(x, s) \/ x = e
             /\ NoRepeats(s) /\ ~Within(e, s) => NoRepeats(r)
<1> DEFINE r == PutIn(s, i, e)
<1>1. Len(s) \in Nat /\ DOMAIN s = 1..Len(s) /\ \A n \in 1..Len(s) : s[n] \in S
  OBVIOUS
<1>2. /\ r \in Seq(S) /\ DOMAIN r = 1..Len(s) + 1
      /\ \A n \in 1..Len(s) + 1 :
           (n < i => r[n] = s[n]) /\ (n = i => r[n] = e) /\ (n > i => r[n] = s[n - 1])
  BY Inserted
<1> HIDE DEF r
<1>3. ASSUME NEW x PROVE Within(x, r) <=> Within(x, s) \/ x = e
  <2>1. ASSUME Within(x, r) PROVE Within(x, s) \/ x = e
    <3>1. PICK n \in 1..Len(s) + 1 : r[n] = x
      BY <2>1, <1>2 DEF Within
    <3>2. n < i => n \in 1..Len(s)
      BY <3>1, <1>1
    <3>3. n > i => n - 1 \in 1..Len(s)
      BY <3>1, <1>1
    <3>4. n < i \/ n = i \/ n > i
      BY <3>1
    <3>5. (n < i => x = s[n]) /\ (n = i => x = e) /\ (n > i => x = s[n - 1])
      BY <3>1, <1>2
    <3>6. QED BY <3>2, <3>3, <3>4, <3>5, <1>1 DEF Within
  <2>2. ASSUME Within(x, s) PROVE Within(x, r)
    <3>1. PICK n \in 1..Len(s) : s[n] = x
      BY <2>2, <1>1 DEF Within
    <3>2. CASE n < i
      BY <3>1, <3>2, <1>1, <1>2 DEF Within
    <3>3. CASE n >= i
      <4>1. n + 1 \in 1..Len(s) + 1 /\ ~(n + 1 < i) /\ n + 1 # i /\ (n + 1) - 1 = n
        BY <3>1, <3>3, <1>1
      <4>2. r[n + 1] = x
        BY <4>1, <3>1, <1>2
      <4>3. QED BY <4>1, <4>2, <1>2 DEF Within
    <3>4. QED BY <3>1, <3>2, <3>3, <1>1
  <2>3. ASSUME x = e PROVE Within(x, r)
    BY <2>3, <1>1, <1>2 DEF Within
  <2>4. QED BY <2>1, <2>2, <2>3
<1>4. ASSUME NoRepeats(s), ~Within(e, s) PROVE NoRepeats(r)
  <2>1. SUFFICES ASSUME NEW m \in 1..Len(s) + 1, NEW n \in 1..Len(s) + 1, r[m] = r[n]
                 PROVE  m = n
    BY <1>2 DEF NoRepeats
  <2>2. ASSUME NEW l \in 1..Len(s) + 1
        PROVE  /\ l < i => l \in 1..Len(s) /\ r[l] = s[l]
               /\ l = i => r[l] = e
               /\ l > i => l - 1 \in 1..Len(s) /\ r[l] = s[l - 1]
    BY <1>1, <1>2
  <2>3. \A l \in 1..Len(s) : s[l] # e
    BY <1>1, <1>4 DEF Within
  <2>4. \A k, l \in 1..Len(s) : s[k] = s[l] => k = l
    BY <1>1, <1>4 DEF NoRepeats
  <2>5. CASE m = i \/ n = i
    BY <2>1, <2>2, <2>3, <2>5
  <2>6. CASE m < i /\ n < i
    BY <2>1, <2>2, <2>4, <2>6
  <2>7. CASE m > i /\ n > i
    <3>1. m - 1 = n - 1
      BY <2>1, <2>2, <2>4, <2>7
    <3>2. QED BY <3>1
  <2>8. CASE m < i /\ n > i
    <3>1. m = n - 1
      BY <2>1, <2>2, <2>4, <2>8
    <3>2. QED BY <3>1, <2>8
  <2>9. CASE m > i /\ n < i
    <3>1. m - 1 = n
      BY <2>1, <2>2, <2>4, <2>9
    <3>2. QED BY <3>1, <2>9
  <2>10. QED BY <2>5, <2>6, <2>7, <2>8, <2>9
<1>5. QED BY <1>2, <1>3, <1>4 DEF r

(* Two queues with nothing in common are joined.                             *)
LEMMA Joining ==
  ASSUME NEW S, NEW s \in Seq(S), NEW r \in Seq(S)
  PROVE  /\ s \o r \in Seq(S)
         /\ \A x : Within(x, s \o r) <=> Within(x, s) \/ Within(x, r)
         /\ NoRepeats(s) /\ NoRepeats(r) /\ (\A x \in S : ~(Within(x, s) /\ Within(x, r)))
              => NoRepeats(s \o r)
<1> DEFINE q == s \o r
<1>1. /\ q \in Seq(S) /\ Len(s) \in Nat /\ Len(r) \in Nat
      /\ DOMAIN s = 1..Len(s) /\ DOMAIN r = 1..Len(r)
      /\ DOMAIN q = 1..Len(s) + Len(r)
      /\ \A n \in 1..Len(s) : q[n] = s[n] /\ s[n] \in S
      /\ \A n \in 1..Len(r) : q[Len(s) + n] = r[n] /\ r[n] \in S
  OBVIOUS
<1> HIDE DEF q
<1>2. ASSUME NEW n \in 1..Len(s) + Len(r)
      PROVE  \/ n \in 1..Len(s) /\ q[n] = s[n]
             \/ n - Len(s) \in 1..Len(r) /\ q[n] = r[n - Len(s)]
  <2>1. CASE n <= Len(s)
    BY <1>1, <2>1
  <2>2. CASE n > Len(s)
    <3>1. n - Len(s) \in 1..Len(r) /\ Len(s) + (n - Len(s)) = n
      BY <1>1, <2>2
    <3>2. QED BY <1>1, <3>1
  <2>3. QED BY <1>1, <2>1, <2>2
<1>3. ASSUME NEW x PROVE Within(x, q) <=> Within(x, s) \/ Within(x, r)
  <2>1. ASSUME Within(x, q) PROVE Within(x, s) \/ Within(x, r)
    BY <2>1, <1>1, <1>2 DEF Within
  <2>2. ASSUME Within(x, s) PROVE Within(x, q)
    BY <2>2, <1>1 DEF Within
  <2>3. ASSUME Within(x, r) PROVE Within(x, q)
    <3>1. PICK n \in 1..Len(r) : r[n] = x
      BY <2>3, <1>1 DEF Within
    <3>2. Len(s) + n \in 1..Len(s) + Len(r) /\ q[Len(s) + n] = x
      BY <3>1, <1>1
    <3>3. QED BY <3>2, <1>1 DEF Within
  <2>4. QED BY <2>1, <2>2, <2>3
<1>4. ASSUME NoRepeats(s), NoRepeats(r), \A x \in S : ~(Within(x, s) /\ Within(x, r))
      PROVE  NoRepeats(q)
  <2>1. SUFFICES ASSUME NEW m \in 1..Len(s) + Len(r), NEW n \in 1..Len(s) + Len(r), q[m] = q[n]
                 PROVE  m = n
    BY <1>1 DEF NoRepeats
  <2>2. \A k \in 1..Len(s), l \in 1..Len(r) : s[k] # r[l]
    BY <1>1, <1>4 DEF Within
  <2>3. CASE m \in 1..Len(s) /\ q[m] = s[m]
    <3>1. n \in 1..Len(s) /\ q[n] = s[n]
      BY <1>2, <2>1, <2>2, <2>3
    <3>2. QED BY <3>1, <2>1, <2>3, <1>1, <1>4 DEF NoRepeats
  <2>4. CASE m - Len(s) \in 1..Len(r) /\ q[m] = r[m - Len(s)]
    <3>1. n - Len(s) \in 1..Len(r) /\ q[n] = r[n - Len(s)]
      BY <1>2, <2>1, <2>2, <2>4
    <3>2. m - Len(s) = n - Len(s)
      BY <3>1, <2>1, <2>4, <1>1, <1>4 DEF NoRepeats
    <3>3. QED BY <3>2, <1>1
  <2>5. QED BY <2>3, <2>4, <1>2
<1>5. QED BY <1>1, <1>3, <1>4 DEF q

(* A sequence without repetitions is no longer than the set it draws from.   *)
LEMMA NoRepeatsLength ==
  ASSUME NEW S, IsFiniteSet(S), NEW s \in Seq(S), NoRepeats(s)
  PROVE  Len(s) <= Cardinality(S)
<1>1. s \in [1..Len(s) -> S] /\ Len(s) \in Nat
  BY LenProperties
<1>2. s \in Injection(1..Len(s), S)
  BY <1>1 DEF NoRepeats, Injection, IsInjective
<1>3. Cardinality(1..Len(s)) <= Cardinality(S)
  BY <1>2, FS_Injection
<1>4. ASSUME NEW n \in Nat PROVE Cardinality(1..n) = n
  <2>1. 1 \in Int /\ n \in Int
    OBVIOUS
  <2>2. Cardinality(1..n) = IF 1 > n THEN 0 ELSE n - 1 + 1
    BY <2>1, FS_Interval, Zenon
  <2>3. QED BY <2>2
<1>5. QED BY <1>1, <1>3, <1>4
-----------------------------------------------------------------------------
Precedes(s, x, y) == \E m, n \in DOMAIN s : m < n /\ s[m] = x /\ s[n] = y

LEMMA PrecedesWithin ==
  ASSUME NEW s, NEW x, NEW y, Precedes(s, x, y)
  PROVE  Within(x, s) /\ Within(y, s)
  BY DEF Precedes, Within

LEMMA PrecedesAppending ==
  ASSUME NEW S, NEW s \in Seq(S), NEW e \in S
  PROVE  \A x, y : Precedes(Append(s, e), x, y) <=> Precedes(s, x, y) \/ (Within(x, s) /\ y = e)
<1> DEFINE r == Append(s, e)
<1>1. /\ DOMAIN s = 1..Len(s) /\ Len(s) \in Nat
      /\ DOMAIN r = 1..Len(s) + 1
      /\ \A n \in 1..Len(s) : r[n] = s[n]
      /\ r[Len(s) + 1] = e
  OBVIOUS
<1> HIDE DEF r
<1>2. ASSUME NEW x, NEW y, Precedes(r, x, y) PROVE Precedes(s, x, y) \/ (Within(x, s) /\ y = e)
  <2>1. PICK m, n \in 1..Len(s) + 1 : m < n /\ r[m] = x /\ r[n] = y
    BY <1>1, <1>2 DEF Precedes
  <2>2. m \in 1..Len(s) /\ s[m] = x
    BY <1>1, <2>1
  <2>3. CASE n = Len(s) + 1
    BY <1>1, <2>1, <2>2, <2>3 DEF Within
  <2>4. CASE n # Len(s) + 1
    <3>1. n \in 1..Len(s) /\ s[n] = y
      BY <1>1, <2>1, <2>4
    <3>2. QED BY <1>1, <2>1, <2>2, <3>1 DEF Precedes
  <2>5. QED BY <2>3, <2>4
<1>3. ASSUME NEW x, NEW y, Precedes(s, x, y) PROVE Precedes(r, x, y)
  <2>1. PICK m, n \in 1..Len(s) : m < n /\ s[m] = x /\ s[n] = y
    BY <1>1, <1>3 DEF Precedes
  <2>2. m \in DOMAIN r /\ n \in DOMAIN r /\ r[m] = x /\ r[n] = y
    BY <1>1, <2>1
  <2>3. QED BY <2>1, <2>2 DEF Precedes
<1>4. ASSUME NEW x, Within(x, s) PROVE Precedes(r, x, e)
  <2>1. PICK m \in 1..Len(s) : s[m] = x
    BY <1>1, <1>4 DEF Within
  <2>2. m \in DOMAIN r /\ Len(s) + 1 \in DOMAIN r /\ m < Len(s) + 1 /\ r[m] = x
    BY <1>1, <2>1
  <2>3. QED BY <1>1, <2>2 DEF Precedes
<1>5. QED BY <1>2, <1>3, <1>4 DEF r

LEMMA PrecedesTaking ==
  ASSUME NEW S, NEW s \in Seq(S), s # << >>
  PROVE  /\ \A x, y : Precedes(Tail(s), x, y) => Precedes(s, x, y)
         /\ \A x, y : Precedes(s, x, y) /\ x # Head(s) => Precedes(Tail(s), x, y)
         /\ \A x, y : Precedes(s, x, y) => Within(y, Tail(s))
         /\ \A y : Within(y, Tail(s)) => Precedes(s, Head(s), y)
<1> DEFINE r == Tail(s)
<1>1. /\ Head(s) = s[1]
      /\ Len(s) \in Nat \ {0} /\ DOMAIN s = 1..Len(s) /\ DOMAIN r = 1..Len(s) - 1
      /\ \A n \in 1..Len(s) - 1 : r[n] = s[n + 1]
  OBVIOUS
<1> HIDE DEF r
<1>2. \A n \in 1..Len(s) - 1 : n + 1 \in 1..Len(s) /\ 1 < n + 1
  BY <1>1
<1>3. \A n \in 1..Len(s) : n # 1 => n - 1 \in 1..Len(s) - 1 /\ r[n - 1] = s[n]
  <2>1. ASSUME NEW n \in 1..Len(s), n # 1
        PROVE  n - 1 \in 1..Len(s) - 1 /\ (n - 1) + 1 = n
    BY <1>1, <2>1
  <2>2. QED BY <1>1, <2>1
<1>4. ASSUME NEW x, NEW y, Precedes(r, x, y) PROVE Precedes(s, x, y)
  <2>1. PICK m, n \in 1..Len(s) - 1 : m < n /\ r[m] = x /\ r[n] = y
    BY <1>1, <1>4 DEF Precedes
  <2>2. m + 1 \in DOMAIN s /\ n + 1 \in DOMAIN s /\ m + 1 < n + 1
    BY <1>1, <1>2, <2>1
  <2>3. QED BY <1>1, <2>1, <2>2 DEF Precedes
<1>5. ASSUME NEW x, NEW y, Precedes(s, x, y)
      PROVE  Within(y, r) /\ (x # Head(s) => Precedes(r, x, y))
  <2>1. PICK m, n \in 1..Len(s) : m < n /\ s[m] = x /\ s[n] = y
    BY <1>1, <1>5 DEF Precedes
  <2>2. n - 1 \in DOMAIN r /\ r[n - 1] = y
    BY <1>1, <1>3, <2>1
  <2>3. ASSUME x # Head(s) PROVE Precedes(r, x, y)
    <3>1. m - 1 \in DOMAIN r /\ r[m - 1] = x /\ m - 1 < n - 1
      BY <1>1, <1>3, <2>1, <2>3
    <3>2. QED BY <2>2, <3>1 DEF Precedes
  <2>4. QED BY <2>2, <2>3 DEF Within
<1>6. ASSUME NEW y, Within(y, r) PROVE Precedes(s, Head(s), y)
  <2>1. PICK n \in 1..Len(s) - 1 : r[n] = y
    BY <1>1, <1>6 DEF Within
  <2>2. 1 \in DOMAIN s /\ n + 1 \in DOMAIN s /\ 1 < n + 1 /\ s[n + 1] = y
    BY <1>1, <1>2, <2>1
  <2>3. QED BY <1>1, <2>2 DEF Precedes
<1>7. QED BY <1>4, <1>5, <1>6 DEF r

(* A set of numbers that has all the smaller ones is counted by its last.    *)
LEMMA Initial ==
  ASSUME NEW L \in Nat, NEW S, S \subseteq 1..L, \A n \in S : 1..n \subseteq S
  PROVE  S = 1..Cardinality(S) /\ Cardinality(S) \in 0..L
<1> DEFINE C == {n \in 1..L + 1 : n \notin S}
<1>1. C \subseteq Nat /\ L + 1 \in C
  OBVIOUS
<1>2. PICK c \in C : \A y \in C : c <= y
  BY <1>1, NatMin
<1>3. c \in 1..L + 1 /\ c \notin S
  OBVIOUS
<1>4. S = 1..c - 1
  <2>1. ASSUME NEW x \in S PROVE x \in 1..c - 1
    <3>1. x \in 1..L
      OBVIOUS
    <3>2. ~(c <= x)
      BY <1>3, <2>1, <3>1
    <3>3. QED BY <1>3, <3>1, <3>2
  <2>2. ASSUME NEW x \in 1..c - 1 PROVE x \in S
    <3>1. x \in 1..L + 1 /\ ~(c <= x)
      BY <1>3
    <3>2. QED BY <1>2, <3>1
  <2>3. QED BY <2>1, <2>2
<1> HIDE DEF C
<1>5. 1 \in Int /\ c - 1 \in Int
  BY <1>3
<1>6. Cardinality(1..c - 1) = IF 1 > c - 1 THEN 0 ELSE c - 1 - 1 + 1
  BY <1>5, FS_Interval, Zenon
<1>7. Cardinality(1..c - 1) = c - 1
  BY <1>3, <1>6
<1>8. QED BY <1>3, <1>4, <1>7

(* Where an element goes in a sorted sequence: behind those that it is not    *)
(* before.                                                                   *)
LEMMA SortedPlace ==
  ASSUME NEW S, NEW s \in Seq(S), NEW e \in S, NEW key \in [S -> Int],
         \A x, y : Precedes(s, x, y) => key[x] <= key[y],
         NEW sooner, \A n : n \in sooner <=> n \in DOMAIN s /\ key[s[n]] <= key[e]
  PROVE  /\ 1 + Cardinality(sooner) \in 1..Len(s) + 1
         /\ \A n \in 1..Len(s) : key[s[n]] <= key[e] <=> n < 1 + Cardinality(sooner)
<1>1. /\ Len(s) \in Nat /\ DOMAIN s = 1..Len(s)
      /\ \A n \in 1..Len(s) : s[n] \in S /\ key[s[n]] \in Int
      /\ key[e] \in Int
  OBVIOUS
<1>2. \A m, n \in 1..Len(s) : m < n => key[s[m]] <= key[s[n]]
  BY <1>1 DEF Precedes
<1>3. \A n \in sooner : 1..n \subseteq sooner
  <2>1. SUFFICES ASSUME NEW n \in sooner, NEW m \in 1..n PROVE m \in sooner
    OBVIOUS
  <2>2. n \in 1..Len(s) /\ key[s[n]] <= key[e] /\ m \in 1..Len(s)
    BY <1>1
  <2>3. key[s[m]] <= key[s[n]]
    BY <1>2, <2>1, <2>2
  <2>4. key[s[m]] \in Int /\ key[s[n]] \in Int
    BY <1>1, <2>2
  <2>5. QED BY <1>1, <2>2, <2>3, <2>4
<1>4. sooner \subseteq 1..Len(s)
  BY <1>1
<1>5. sooner = 1..Cardinality(sooner) /\ Cardinality(sooner) \in 0..Len(s)
  BY <1>1, <1>3, <1>4, Initial
<1>6. 1 + Cardinality(sooner) \in 1..Len(s) + 1
  BY <1>1, <1>5
<1>7. ASSUME NEW n \in 1..Len(s) PROVE key[s[n]] <= key[e] <=> n < 1 + Cardinality(sooner)
  <2>1. key[s[n]] <= key[e] <=> n \in sooner
    BY <1>1
  <2>2. n \in 1..Cardinality(sooner) <=> n < 1 + Cardinality(sooner)
    BY <1>1, <1>5
  <2>3. QED BY <1>5, <2>1, <2>2
<1>8. QED BY <1>6, <1>7

LEMMA InsertingInOrder ==
  ASSUME NEW S, NEW s \in Seq(S), NEW e \in S, NEW key \in [S -> Int],
         \A x, y : Precedes(s, x, y) => key[x] <= key[y],
         NEW i \in 1..Len(s) + 1, \A n \in 1..Len(s) : key[s[n]] <= key[e] <=> n < i
  PROVE  LET r == PutIn(s, i, e)
         IN  /\ r \in Seq(S) /\ r # << >>
             /\ \A x : Within(x, r) <=> Within(x, s) \/ x = e
             /\ NoRepeats(s) /\ ~Within(e, s) => NoRepeats(r)
             /\ \A x, y : Precedes(s, x, y) => Precedes(r, x, y)
             /\ \A x, y : Precedes(r, x, y) => key[x] <= key[y]
             /\ \A x : Within(x, s) /\ key[x] <= key[e] => Precedes(r, x, e)
             /\ Head(r) = e \/ (s # << >> /\ Head(r) = Head(s))
<1> DEFINE r == PutIn(s, i, e)
<1>1. /\ Len(s) \in Nat /\ DOMAIN s = 1..Len(s)
      /\ \A n \in 1..Len(s) : s[n] \in S /\ key[s[n]] \in Int
      /\ key[e] \in Int
  OBVIOUS
<1>2. \A m, n \in 1..Len(s) : m < n => key[s[m]] <= key[s[n]]
  BY <1>1 DEF Precedes
<1>3. i \in 1..Len(s) + 1
  OBVIOUS
<1>4. \A n \in 1..Len(s) : key[s[n]] <= key[e] <=> n < i
  OBVIOUS
<1>5. /\ r \in Seq(S)
      /\ \A x : Within(x, r) <=> Within(x, s) \/ x = e
      /\ NoRepeats(s) /\ ~Within(e, s) => NoRepeats(r)
  BY <1>3, Inserting
<1>6. /\ DOMAIN r = 1..Len(s) + 1 /\ Len(r) = Len(s) + 1
      /\ \A n \in 1..Len(s) + 1 :
           (n < i => r[n] = s[n]) /\ (n = i => r[n] = e) /\ (n > i => r[n] = s[n - 1])
  <2>1. /\ DOMAIN r = 1..Len(s) + 1
        /\ \A n \in 1..Len(s) + 1 :
             (n < i => r[n] = s[n]) /\ (n = i => r[n] = e) /\ (n > i => r[n] = s[n - 1])
    <3>1. i \in 1..Len(s) + 1
      BY <1>3
    <3>2. QED BY <3>1, Inserted
  <2> HIDE DEF r
  <2>2. DOMAIN r = 1..Len(r) /\ Len(r) \in Nat
    BY <1>5
  <2>3. QED BY <1>1, <2>1, <2>2
<1> HIDE DEF r
(* An index of s goes to one of r, in the same order.                        *)
<1> DEFINE at(n) == IF n < i THEN n ELSE n + 1
<1>7. \A n \in 1..Len(s) : at(n) \in DOMAIN r /\ r[at(n)] = s[n]
  BY <1>1, <1>3, <1>6
<1>8. \A m, n \in 1..Len(s) : m < n => at(m) < at(n)
  BY <1>1, <1>3
<1>9. \A n \in 1..Len(s) : n < i => at(n) < i
  BY <1>1, <1>3
<1>10. i \in DOMAIN r /\ r[i] = e
  BY <1>3, <1>6
<1> HIDE DEF at
<1>11. ASSUME NEW x, NEW y, Precedes(s, x, y) PROVE Precedes(r, x, y)
  <2>1. PICK m, n \in 1..Len(s) : m < n /\ s[m] = x /\ s[n] = y
    BY <1>1, <1>11 DEF Precedes
  <2>2. QED BY <1>7, <1>8, <2>1 DEF Precedes
<1>12. ASSUME NEW x, Within(x, s), key[x] <= key[e] PROVE Precedes(r, x, e)
  <2>1. PICK n \in 1..Len(s) : s[n] = x
    BY <1>1, <1>12 DEF Within
  <2>2. n < i
    BY <1>4, <1>12, <2>1
  <2>3. QED BY <1>7, <1>9, <1>10, <2>1, <2>2 DEF Precedes
<1>13. ASSUME NEW x, NEW y, Precedes(r, x, y) PROVE key[x] <= key[y]
  <2>1. PICK m, n \in 1..Len(s) + 1 : m < n /\ r[m] = x /\ r[n] = y
    BY <1>6, <1>13 DEF Precedes
  <2>2. ASSUME NEW l \in 1..Len(s) + 1
        PROVE  /\ l < i => l \in 1..Len(s) /\ r[l] = s[l]
               /\ l = i => r[l] = e
               /\ l > i => l - 1 \in 1..Len(s) /\ r[l] = s[l - 1] /\ ~(l - 1 < i)
    <3>1. (l < i => r[l] = s[l]) /\ (l = i => r[l] = e) /\ (l > i => r[l] = s[l - 1])
      BY <1>6
    <3>2. (l < i => l \in 1..Len(s)) /\ (l > i => l - 1 \in 1..Len(s) /\ ~(l - 1 < i))
      BY <1>1, <1>3
    <3>3. QED BY <3>1, <3>2
  <2>3. CASE n < i
    <3>1. m < i /\ m \in 1..Len(s) /\ n \in 1..Len(s) /\ x = s[m] /\ y = s[n]
      BY <1>3, <2>1, <2>2, <2>3
    <3>2. QED BY <1>2, <2>1, <3>1
  <2>4. CASE n = i
    BY <1>4, <2>1, <2>2, <2>4
  <2>5. CASE m = i
    <3>1. n - 1 \in 1..Len(s) /\ y = s[n - 1] /\ ~(n - 1 < i) /\ x = e
      BY <2>1, <2>2, <2>5
    <3>2. ~(key[s[n - 1]] <= key[e]) /\ key[s[n - 1]] \in Int
      BY <1>1, <1>4, <3>1
    <3>3. QED BY <1>1, <3>1, <3>2
  <2>6. CASE m > i
    <3>1. m - 1 \in 1..Len(s) /\ n - 1 \in 1..Len(s) /\ m - 1 < n - 1
          /\ x = s[m - 1] /\ y = s[n - 1]
      BY <1>3, <2>1, <2>2, <2>6
    <3>2. QED BY <1>2, <3>1
  <2>7. CASE m < i /\ n > i
    <3>1. m \in 1..Len(s) /\ n - 1 \in 1..Len(s) /\ (m < n - 1 \/ m = n - 1)
      BY <1>3, <2>1, <2>2, <2>7
    <3>2. m \in 1..Len(s) /\ n - 1 \in 1..Len(s) /\ m < n - 1 /\ x = s[m] /\ y = s[n - 1]
      BY <1>3, <2>1, <2>2, <2>7
    <3>3. QED BY <1>2, <3>2
  <2>8. QED BY <1>3, <2>1, <2>3, <2>4, <2>5, <2>6, <2>7
<1>14. Head(r) = e \/ (s # << >> /\ Head(r) = Head(s))
  <2>1. r # << >> /\ Head(r) = r[1] /\ 1 \in 1..Len(s) + 1
    BY <1>1, <1>5, <1>6
  <2>2. CASE i = 1
    BY <1>10, <2>1, <2>2
  <2>3. CASE i # 1
    <3>1. 1 < i /\ s # << >> /\ Head(s) = s[1]
      BY <1>1, <1>3, <2>3
    <3>2. QED BY <1>6, <2>1, <3>1
  <2>4. QED BY <2>2, <2>3
<1>15. r # << >>
  BY <1>1, <1>5, <1>6
<1>16. QED BY <1>5, <1>11, <1>12, <1>13, <1>14, <1>15 DEF r
=============================================================================
