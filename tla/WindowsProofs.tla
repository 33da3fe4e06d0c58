------------------------- MODULE WindowsProofs -------------------------
(***************************************************************************)
(* Proofs about the Windows components: the two pumps, for any number of     *)
(* tasks, posting threads, files and nested calls, and ObjectWatcher, for    *)
(* any finite set of Watch objects.                                          *)
(***************************************************************************)
EXTENDS UIPump, IOPump, ObjectWatcher, SequenceFacts

-----------------------------------------------------------------------------
(* What the pumps have in common: the stack, the wake-up, and the queues of   *)
(* the delegate.                                                             *)
LEMMA Ends ==
  ASSUME NEW F, NEW s \in Seq(F), s # << >>
  PROVE  /\ Len(s) \in Nat \ {0} /\ Len(s) \in 1..Len(s) /\ Last(s) = s[Len(s)] /\ Last(s) \in F
         /\ Front(s) \in Seq(F) /\ Len(Front(s)) = Len(s) - 1
         /\ \A k \in 1..Len(s) - 1 : Front(s)[k] = s[k]
<1> DEFINE m == Len(s) - 1
<1>1. /\ Len(s) \in Nat \ {0} /\ \A k \in 1..Len(s) : s[k] \in F
  OBVIOUS
<1>2. m \in Nat /\ m = Len(s) - 1 /\ \A k \in 1..m : k \in 1..Len(s)
  BY <1>1
<1> HIDE DEF m
<1>3. 1 \in Int /\ m \in Int /\ \A k \in 1..m : s[k] \in F
  BY <1>1, <1>2
<1>4. /\ SubSeq(s, 1, m) \in Seq(F)
      /\ Len(SubSeq(s, 1, m)) = IF 1 <= m THEN m - 1 + 1 ELSE 0
      /\ \A k \in 1..m - 1 + 1 : SubSeq(s, 1, m)[k] = s[1 + k - 1]
  BY <1>3, SubSeqProperties
<1>5. Len(SubSeq(s, 1, m)) = m
  BY <1>2, <1>4
<1>6. \A k \in 1..m : SubSeq(s, 1, m)[k] = s[k]
  <2>1. ASSUME NEW k \in 1..m PROVE k \in 1..m - 1 + 1 /\ 1 + k - 1 = k
    BY <1>2
  <2>2. QED BY <1>4, <2>1
<1>7. Front(s) = SubSeq(s, 1, m) /\ Last(s) = s[Len(s)]
  BY <1>2 DEF Front, Last
<1>8. QED BY <1>1, <1>2, <1>4, <1>5, <1>6, <1>7

LEMMA Going ==
  ASSUME NEW F, NEW s \in Seq(F), s # << >>, NEW at, [Last(s) EXCEPT !.at = at] \in F
  PROVE  /\ Goes(s, at) \in Seq(F) /\ Len(Goes(s, at)) = Len(s)
         /\ \A k \in 1..Len(s) :
              Goes(s, at)[k] = IF k = Len(s) THEN [Last(s) EXCEPT !.at = at] ELSE s[k]
<1>1. Len(s) \in 1..Len(s) /\ Last(s) = s[Len(s)]
  BY Ends
<1>2. Goes(s, at) = [s EXCEPT ![Len(s)] = [Last(s) EXCEPT !.at = at]]
  BY <1>1 DEF Goes
<1>3. QED BY <1>1, <1>2, ExceptSeq

LEMMA Calling ==
  ASSUME NEW F, NEW s \in Seq(F), s # << >>, NEW at, [Last(s) EXCEPT !.at = at] \in F, NEW f \in F
  PROVE  LET r == Append(Goes(s, at), f)
         IN  /\ r \in Seq(F) /\ Len(r) = Len(s) + 1 /\ r[Len(s) + 1] = f
             /\ \A k \in 1..Len(s) : r[k] = IF k = Len(s) THEN [Last(s) EXCEPT !.at = at] ELSE s[k]
<1> DEFINE g == Goes(s, at)
<1>1. /\ g \in Seq(F) /\ Len(g) = Len(s)
      /\ \A k \in 1..Len(s) : g[k] = IF k = Len(s) THEN [Last(s) EXCEPT !.at = at] ELSE s[k]
  BY Going
<1> HIDE DEF g
<1>2. /\ Append(g, f) \in Seq(F) /\ Len(Append(g, f)) = Len(s) + 1 /\ Append(g, f)[Len(s) + 1] = f
      /\ \A k \in 1..Len(s) : Append(g, f)[k] = g[k]
  BY <1>1
<1>3. QED BY <1>1, <1>2 DEF g

LEMMA Popping ==
  ASSUME NEW F, NEW s \in Seq(F), s # << >>, NEW b,
         Len(s) > 1 => [s[Len(s) - 1] EXCEPT !.more = @ \/ b] \in F
  PROVE  /\ Popped(s, b) \in Seq(F) /\ Len(Popped(s, b)) = Len(s) - 1
         /\ \A k \in 1..Len(s) - 1 :
              Popped(s, b)[k] = IF k = Len(s) - 1 THEN [s[k] EXCEPT !.more = @ \/ b] ELSE s[k]
<1> DEFINE g == Front(s)
           e == [s[Len(s) - 1] EXCEPT !.more = @ \/ b]
<1>1. /\ Len(s) \in Nat \ {0}
      /\ g \in Seq(F) /\ Len(g) = Len(s) - 1
      /\ \A k \in 1..Len(s) - 1 : g[k] = s[k]
  BY Ends
<1>2. CASE Len(s) = 1
  BY <1>2 DEF Popped
<1>3. CASE Len(s) # 1
  <2>1. Popped(s, b) = [g EXCEPT ![Len(s) - 1] = [g[Len(s) - 1] EXCEPT !.more = @ \/ b]]
    BY <1>3 DEF Popped
  <2>2. Len(s) - 1 \in 1..Len(g) /\ g[Len(s) - 1] = s[Len(s) - 1]
    BY <1>1, <1>3
  <2>3. Popped(s, b) = [g EXCEPT ![Len(s) - 1] = e]
    BY <2>1, <2>2
  <2>4. e \in F
    BY <1>1, <1>3
  <2> HIDE DEF g, e
  <2>5. /\ Popped(s, b) \in Seq(F) /\ Len(Popped(s, b)) = Len(g)
        /\ \A k \in 1..Len(g) : Popped(s, b)[k] = IF k = Len(s) - 1 THEN e ELSE g[k]
    BY <1>1, <2>2, <2>3, <2>4, ExceptSeq
  <2>6. \A k \in 1..Len(s) - 1 : Popped(s, b)[k] = IF k = Len(s) - 1 THEN e ELSE s[k]
    BY <1>1, <2>5
  <2>7. QED BY <1>1, <2>5, <2>6 DEF e
<1>4. QED BY <1>2, <1>3

LEMMA Replacing ==
  ASSUME NEW F, NEW s \in Seq(F), s # << >>, NEW f \in F
  PROVE  LET r == Append(Front(s), f)
         IN  /\ r \in Seq(F) /\ Len(r) = Len(s) /\ r[Len(s)] = f
             /\ \A k \in 1..Len(s) : k # Len(s) => r[k] = s[k]
<1> DEFINE g == Front(s)
<1>1. /\ Len(s) \in Nat \ {0}
      /\ g \in Seq(F) /\ Len(g) = Len(s) - 1
      /\ \A k \in 1..Len(s) - 1 : g[k] = s[k]
  BY Ends
<1> HIDE DEF g
<1>2. /\ Append(g, f) \in Seq(F) /\ Len(Append(g, f)) = Len(s) /\ Append(g, f)[Len(s)] = f
      /\ \A k \in 1..Len(s) - 1 : Append(g, f)[k] = g[k]
  BY <1>1
<1>3. \A k \in 1..Len(s) : k # Len(s) => k \in 1..Len(s) - 1
  BY <1>1
<1>4. QED BY <1>1, <1>2, <1>3 DEF g

-----------------------------------------------------------------------------
(* The wake-up of a pump: its flag is set exactly when there is one sign of   *)
(* it, in the pump's queue, on its way there, or taken and not answered yet.  *)
Posting(p) == {t \in Posters : p[t] = "post"}
Places(sign, msgs) == {k \in DOMAIN msgs : msgs[k] = sign}
OneSign(flag, sign, msgs, p, taken) ==
  /\ \A j, k \in Places(sign, msgs) : j = k
  /\ \A t, u \in Posting(p) : t = u
  /\ flag <=> Places(sign, msgs) # {} \/ Posting(p) # {} \/ taken
  /\ Places(sign, msgs) # {} => Posting(p) = {} /\ ~taken
  /\ taken => Posting(p) = {}

LEMMA Singleton ==
  ASSUME NEW S, S # {}, \A x, y \in S : x = y
  PROVE  Cardinality(S) = 1
<1>1. PICK x \in S : TRUE
  OBVIOUS
<1>2. S = {x}
  BY <1>1
<1>3. QED BY <1>2, FS_Singleton

LEMMA SignCounted ==
  ASSUME NEW flag \in BOOLEAN, NEW sign, NEW msgs, NEW p, NEW taken \in BOOLEAN,
         OneSign(flag, sign, msgs, p, taken)
  PROVE  Cardinality(Places(sign, msgs)) + Cardinality(Posting(p)) + (IF taken THEN 1 ELSE 0)
           = IF flag THEN 1 ELSE 0
<1>1. Cardinality({}) = 0
  BY FS_EmptySet
<1>2. /\ Cardinality(Places(sign, msgs)) = IF Places(sign, msgs) = {} THEN 0 ELSE 1
      /\ Cardinality(Posting(p)) = IF Posting(p) = {} THEN 0 ELSE 1
  <2>1. Places(sign, msgs) # {} => Cardinality(Places(sign, msgs)) = 1
    BY Singleton DEF OneSign
  <2>2. Posting(p) # {} => Cardinality(Posting(p)) = 1
    BY Singleton DEF OneSign
  <2>3. QED BY <1>1, <2>1, <2>2
<1>3. /\ flag <=> Places(sign, msgs) # {} \/ Posting(p) # {} \/ taken
      /\ Places(sign, msgs) # {} => Posting(p) = {} /\ ~taken
      /\ taken => Posting(p) = {}
  BY DEF OneSign
<1>4. QED BY <1>2, <1>3

(* What is put at the end of a queue, and what is taken from its head.        *)
LEMMA PlacesAppending ==
  ASSUME NEW S, NEW s \in Seq(S), NEW e \in S, NEW sign
  PROVE  /\ e # sign => Places(sign, Append(s, e)) = Places(sign, s)
         /\ e = sign => Places(sign, Append(s, e)) = Places(sign, s) \cup {Len(s) + 1}
<1> DEFINE r == Append(s, e)
<1>1. /\ DOMAIN s = 1..Len(s) /\ Len(s) \in Nat /\ DOMAIN r = 1..Len(s) + 1
      /\ r[Len(s) + 1] = e /\ \A k \in 1..Len(s) : r[k] = s[k]
  OBVIOUS
<1> HIDE DEF r
<1>2. 1..Len(s) + 1 = (1..Len(s)) \cup {Len(s) + 1} /\ Len(s) + 1 \notin 1..Len(s)
  BY <1>1
<1>3. Places(sign, r) = Places(sign, s) \cup {k \in {Len(s) + 1} : e = sign}
  BY <1>1, <1>2 DEF Places
<1>4. QED BY <1>3 DEF r

LEMMA PlacesTaking ==
  ASSUME NEW S, NEW s \in Seq(S), s # << >>, NEW sign, \A j, k \in Places(sign, s) : j = k
  PROVE  /\ \A j, k \in Places(sign, Tail(s)) : j = k
         /\ Head(s) = sign => Places(sign, s) # {} /\ Places(sign, Tail(s)) = {}
         /\ Head(s) # sign => (Places(sign, Tail(s)) = {} <=> Places(sign, s) = {})
<1> DEFINE r == Tail(s)
<1>1. /\ DOMAIN s = 1..Len(s) /\ Len(s) \in Nat \ {0} /\ DOMAIN r = 1..Len(s) - 1
      /\ Head(s) = s[1] /\ \A k \in 1..Len(s) - 1 : r[k] = s[k + 1]
  OBVIOUS
<1> HIDE DEF r
<1>2. \A k \in Places(sign, r) : k \in Int /\ k + 1 \in Places(sign, s) /\ k + 1 # 1
  BY <1>1 DEF Places
<1>3. \A k \in Places(sign, s) : k # 1 => k - 1 \in Places(sign, r)
  <2>1. SUFFICES ASSUME NEW k \in 1..Len(s), s[k] = sign, k # 1 PROVE k - 1 \in Places(sign, r)
    BY <1>1 DEF Places
  <2>2. k - 1 \in 1..Len(s) - 1 /\ k - 1 + 1 = k
    BY <1>1, <2>1
  <2>3. QED BY <1>1, <2>1, <2>2 DEF Places
<1>4. 1 \in Places(sign, s) <=> Head(s) = sign
  BY <1>1 DEF Places
<1>5. \A j, k \in Places(sign, r) : j = k
  <2>1. SUFFICES ASSUME NEW j \in Places(sign, r), NEW k \in Places(sign, r) PROVE j = k
    OBVIOUS
  <2>2. j + 1 = k + 1 /\ j \in Int /\ k \in Int
    BY <1>2
  <2>3. QED BY <2>2
<1>6. QED BY <1>2, <1>3, <1>4, <1>5 DEF r

LEMMA SignSentNow ==
  ASSUME NEW S, NEW msgs \in Seq(S), NEW sign \in S, NEW flag \in BOOLEAN, NEW p, NEW taken \in BOOLEAN,
         OneSign(flag, sign, msgs, p, taken)
  PROVE  OneSign(TRUE, sign, IF flag THEN msgs ELSE Append(msgs, sign), p, taken)
<1>1. CASE flag
  BY <1>1 DEF OneSign
<1>2. CASE ~flag
  <2>1. Places(sign, msgs) = {} /\ Posting(p) = {} /\ ~taken
    BY <1>2 DEF OneSign
  <2>2. Places(sign, Append(msgs, sign)) = {Len(msgs) + 1}
    BY <2>1, PlacesAppending
  <2>3. OneSign(TRUE, sign, Append(msgs, sign), p, taken)
    BY <2>1, <2>2 DEF OneSign
  <2>4. QED BY <1>2, <2>3
<1>3. QED BY <1>1, <1>2

LEMMA OtherSent ==
  ASSUME NEW S, NEW msgs \in Seq(S), NEW sign, NEW flag, NEW p, NEW taken,
         OneSign(flag, sign, msgs, p, taken), NEW e \in S, e # sign
  PROVE  OneSign(flag, sign, Append(msgs, e), p, taken)
<1> DEFINE r == Append(msgs, e)
<1>1. Places(sign, r) = Places(sign, msgs)
  BY PlacesAppending
<1> HIDE DEF r
<1>2. OneSign(flag, sign, r, p, taken)
  BY <1>1 DEF OneSign
<1>3. QED BY <1>2 DEF r

LEMMA OtherTaken ==
  ASSUME NEW S, NEW msgs \in Seq(S), NEW sign, NEW flag, NEW p, NEW taken,
         OneSign(flag, sign, msgs, p, taken), msgs # << >>, Head(msgs) # sign
  PROVE  OneSign(flag, sign, Tail(msgs), p, taken)
<1> DEFINE r == Tail(msgs)
<1>1. \A j, k \in Places(sign, msgs) : j = k
  BY DEF OneSign
<1>2. /\ \A j, k \in Places(sign, r) : j = k
      /\ Places(sign, r) = {} <=> Places(sign, msgs) = {}
  BY <1>1, PlacesTaking
<1> HIDE DEF r
<1>3. OneSign(flag, sign, r, p, taken)
  BY <1>2 DEF OneSign
<1>4. QED BY <1>3 DEF r

LEMMA SignTaken ==
  ASSUME NEW S, NEW msgs \in Seq(S), NEW sign, NEW flag, NEW p, NEW taken,
         OneSign(flag, sign, msgs, p, taken), msgs # << >>, Head(msgs) = sign
  PROVE  ~taken /\ OneSign(flag, sign, Tail(msgs), p, TRUE)
<1> DEFINE r == Tail(msgs)
<1>1. \A j, k \in Places(sign, msgs) : j = k
  BY DEF OneSign
<1>2. /\ \A j, k \in Places(sign, r) : j = k
      /\ Places(sign, msgs) # {} /\ Places(sign, r) = {}
  BY <1>1, PlacesTaking
<1> HIDE DEF r
<1>3. ~taken /\ OneSign(flag, sign, r, p, TRUE)
  BY <1>2 DEF OneSign
<1>4. QED BY <1>3 DEF r

LEMMA SignAnswered ==
  ASSUME NEW msgs, NEW sign, NEW flag, NEW p, OneSign(flag, sign, msgs, p, TRUE)
  PROVE  OneSign(FALSE, sign, msgs, p, FALSE)
  BY DEF OneSign

LEMMA PosterSigns ==
  ASSUME NEW msgs, NEW sign, NEW flag \in BOOLEAN, NEW p, NEW q, NEW taken, NEW t \in Posters,
         OneSign(flag, sign, msgs, p, taken), p[t] # "post",
         q[t] = "post" <=> ~flag, \A u \in Posters : u # t => q[u] = p[u]
  PROVE  OneSign(TRUE, sign, msgs, q, taken)
<1>1. CASE flag
  <2>1. Posting(q) = Posting(p)
    BY <1>1 DEF Posting
  <2>2. QED BY <1>1, <2>1 DEF OneSign
<1>2. CASE ~flag
  <2>1. Posting(p) = {} /\ Places(sign, msgs) = {} /\ ~taken
    BY <1>2 DEF OneSign
  <2>2. Posting(q) = {t}
    BY <1>2, <2>1 DEF Posting
  <2>3. QED BY <2>1, <2>2 DEF OneSign
<1>3. QED BY <1>1, <1>2

LEMMA PosterSends ==
  ASSUME NEW S, NEW msgs \in Seq(S), NEW sign \in S, NEW flag, NEW p, NEW q, NEW taken, NEW t \in Posters,
         OneSign(flag, sign, msgs, p, taken), p[t] = "post",
         q[t] # "post", \A u \in Posters : u # t => q[u] = p[u]
  PROVE  OneSign(flag, sign, Append(msgs, sign), q, taken)
<1>1. Posting(p) = {t}
  BY DEF OneSign, Posting
<1>2. Posting(q) = {}
  BY <1>1 DEF Posting
<1>3. Places(sign, Append(msgs, sign)) = Places(sign, msgs) \cup {Len(msgs) + 1}
  BY PlacesAppending
<1>4. QED BY <1>1, <1>2, <1>3 DEF OneSign

LEMMA PosterElsewhere ==
  ASSUME NEW msgs, NEW sign, NEW flag, NEW p, NEW q, NEW taken, NEW t \in Posters,
         OneSign(flag, sign, msgs, p, taken),
         p[t] # "post", q[t] # "post", \A u \in Posters : u # t => q[u] = p[u]
  PROVE  OneSign(flag, sign, msgs, q, taken)
<1>1. Posting(q) = Posting(p)
  BY DEF Posting
<1>2. QED BY <1>1 DEF OneSign

-----------------------------------------------------------------------------
(* The queues of the delegate, and what DoWork leaves of them.                *)
Kinds == {"now", "later"}
QueuesOK ==
  /\ incoming \in Seq(Kinds) /\ workQueue \in Seq(Kinds)
  /\ waiting \in Nat /\ due \in Nat
PosterTypes == poster \in [Posters -> {"idle", "schedule", "post"}]

LEMMA FirstNowPlace ==
  ASSUME NEW q \in Seq(Kinds)
  PROVE  FirstNow(q) \in 0..Len(q)
<1> DEFINE I == {k \in 1..Len(q) : q[k] = "now"}
<1>1. FirstNow(q) = IF I # {} THEN Min(I) ELSE 0
  BY DEF FirstNow, SelectInSeq
<1>2. I \subseteq 1..Len(q) /\ Len(q) \in Nat
  OBVIOUS
<1>3. ASSUME I # {} PROVE Min(I) \in I
  <2>1. I \subseteq Nat
    BY <1>2
  <2>2. \E x \in I : \A y \in I : x <= y
    BY <1>3, <2>1, NatMin
  <2>3. QED BY <2>2 DEF Min
<1>4. QED BY <1>1, <1>2, <1>3

LEMMA LatersCounted ==
  ASSUME NEW q \in Seq(Kinds)
  PROVE  Laters(q) \in Nat /\ IsFiniteSet({k \in DOMAIN q : q[k] = "later"})
<1>1. DOMAIN q = 1..Len(q) /\ Len(q) \in Nat
  OBVIOUS
<1>2. IsFiniteSet(1..Len(q))
  BY <1>1, FS_Interval
<1>3. IsFiniteSet({k \in DOMAIN q : q[k] = "later"})
  BY <1>1, <1>2, FS_Subset
<1>4. QED BY <1>3, FS_CardinalityType DEF Laters

(* The rest of a queue has no more delayed tasks than the queue.              *)
LEMMA LatersLeft ==
  ASSUME NEW q \in Seq(Kinds), NEW n \in 0..Len(q)
  PROVE  /\ SubSeq(q, n + 1, Len(q)) \in Seq(Kinds)
         /\ Laters(SubSeq(q, n + 1, Len(q))) \in 0..Laters(q)
<1> DEFINE r == SubSeq(q, n + 1, Len(q))
           m == Len(q) - n
           A == {k \in DOMAIN r : r[k] = "later"}
           B == {k \in DOMAIN q : q[k] = "later"}
           shift == [k \in A |-> k + n]
<1>1. /\ DOMAIN q = 1..Len(q) /\ Len(q) \in Nat /\ n \in 0..Len(q) /\ m \in Nat /\ m = Len(q) - n
      /\ \A k \in 1..Len(q) : q[k] \in Kinds
  OBVIOUS
<1> HIDE DEF m
<1>2. n + 1 \in Int /\ Len(q) \in Int /\ \A k \in n + 1..Len(q) : q[k] \in Kinds
  BY <1>1
<1>3. /\ r \in Seq(Kinds)
      /\ Len(r) = IF n + 1 <= Len(q) THEN Len(q) - (n + 1) + 1 ELSE 0
      /\ \A k \in 1..Len(q) - (n + 1) + 1 : r[k] = q[n + 1 + k - 1]
  BY <1>2, SubSeqProperties
<1>4. Len(r) = m
  <2>1. \A l \in Nat : \A k \in 0..l : IF k + 1 <= l THEN l - (k + 1) + 1 = l - k ELSE l - k = 0
    OBVIOUS
  <2>2. (n + 1 <= Len(q) => Len(q) - (n + 1) + 1 = m) /\ (~(n + 1 <= Len(q)) => m = 0)
    BY <1>1, <2>1
  <2> HIDE DEF r
  <2>3. QED BY <1>3, <2>2
<1>5. \A k \in 1..m : r[k] = q[k + n] /\ k + n \in 1..Len(q)
  <2>1. ASSUME NEW k \in 1..m
        PROVE  k \in 1..Len(q) - (n + 1) + 1 /\ n + 1 + k - 1 = k + n /\ k + n \in 1..Len(q)
    BY <1>1
  <2>2. QED BY <1>3, <2>1
<1> HIDE DEF r
<1>6. DOMAIN r = 1..m
  BY <1>3, <1>4
<1>7. \A k \in A : k \in Int /\ k + n \in B
  BY <1>1, <1>5, <1>6
<1> HIDE DEF A, B
<1>8. shift \in Injection(A, B)
  <2>1. shift \in [A -> B]
    BY <1>7
  <2>2. ASSUME NEW j \in A, NEW k \in A, shift[j] = shift[k] PROVE j = k
    <3>1. j \in Int /\ k \in Int /\ j + n = k + n
      BY <1>7, <2>2
    <3>2. QED BY <1>1, <3>1
  <2> HIDE DEF shift
  <2>3. QED BY <2>1, <2>2 DEF Injection, IsInjective
<1>9. IsFiniteSet(B) /\ Laters(q) \in Nat /\ Laters(q) = Cardinality(B)
  BY LatersCounted DEF B, Laters
<1>10. Laters(r) \in Nat /\ Laters(r) = Cardinality(A)
  BY <1>3, LatersCounted DEF A, Laters
<1>11. Cardinality(A) <= Cardinality(B)
  <2>1. \E f : f \in Injection(A, B)
    BY <1>8
  <2>2. QED BY <1>9, <2>1, FS_Injection
<1>12. QED BY <1>3, <1>9, <1>10, <1>11 DEF r

LEMMA WorkedLeaves ==
  ASSUME QueuesOK
  PROVE  /\ Worked.work \in Seq(Kinds) /\ Worked.arrived \in Seq(Kinds)
         /\ Worked.moved \in Nat /\ Worked.ran \in BOOLEAN
         /\ ~Worked.ran => Worked.work = << >> /\ Worked.arrived = << >>
<1> DEFINE w == FirstNow(workQueue)
           i == FirstNow(incoming)
           left == CASE w > 0 -> SubSeq(workQueue, w + 1, Len(workQueue))
                     [] w = 0 /\ i > 0 -> SubSeq(incoming, i + 1, Len(incoming))
                     [] OTHER -> << >>
           moved == Laters(workQueue) + (IF w > 0 THEN 0 ELSE Laters(incoming)) - Laters(left)
<1>1. workQueue \in Seq(Kinds) /\ incoming \in Seq(Kinds)
  BY DEF QueuesOK
<1>2. w \in 0..Len(workQueue) /\ i \in 0..Len(incoming) /\ Len(workQueue) \in Nat /\ Len(incoming) \in Nat
  BY <1>1, FirstNowPlace
<1>3. Worked = [ran |-> w > 0 \/ i > 0, work |-> left, arrived |-> IF w > 0 THEN incoming ELSE << >>, moved |-> moved]
  BY DEF Worked
<1>4. Laters(workQueue) \in Nat /\ Laters(incoming) \in Nat
  BY <1>1, LatersCounted
<1>5. /\ SubSeq(workQueue, w + 1, Len(workQueue)) \in Seq(Kinds)
      /\ Laters(SubSeq(workQueue, w + 1, Len(workQueue))) \in 0..Laters(workQueue)
      /\ SubSeq(incoming, i + 1, Len(incoming)) \in Seq(Kinds)
      /\ Laters(SubSeq(incoming, i + 1, Len(incoming))) \in 0..Laters(incoming)
  BY <1>1, <1>2, LatersLeft
<1>6. Laters(<< >>) = 0
  <2>1. {k \in DOMAIN << >> : << >>[k] = "later"} = {}
    OBVIOUS
  <2>2. QED BY <2>1, FS_EmptySet DEF Laters
<1> HIDE DEF w, i
<1>7. left \in Seq(Kinds) /\ Laters(left) \in Nat
      /\ Laters(left) <= Laters(workQueue) + (IF w > 0 THEN 0 ELSE Laters(incoming))
      /\ (~(w > 0 \/ i > 0) => left = << >>)
  <2>1. CASE w > 0
    BY <1>2, <1>4, <1>5, <2>1
  <2>2. CASE w = 0 /\ i > 0
    BY <1>2, <1>4, <1>5, <2>2
  <2>3. CASE w = 0 /\ ~(i > 0)
    <3>1. left = << >>
      BY <1>2, <2>3
    <3>2. QED BY <1>2, <1>4, <1>6, <2>3, <3>1
  <2>4. QED BY <1>2, <2>1, <2>2, <2>3
<1> HIDE DEF left
<1>8. moved \in Nat
  BY <1>4, <1>7
<1> HIDE DEF moved
<1>9. /\ Worked.work = left /\ Worked.arrived = (IF w > 0 THEN incoming ELSE << >>)
      /\ Worked.moved = moved
  BY <1>3
<1>10. Worked.ran = (w > 0 \/ i > 0)
  BY <1>3
<1>11. Worked.arrived \in Seq(Kinds) /\ Worked.ran \in BOOLEAN
  BY <1>1, <1>9, <1>10
<1>12. ~Worked.ran => Worked.work = << >> /\ Worked.arrived = << >>
  BY <1>7, <1>9, <1>10
<1>13. QED BY <1>7, <1>8, <1>9, <1>11, <1>12

-----------------------------------------------------------------------------
(* MessagePumpForUI.  Its stack: what asks for the replacement of a message   *)
(* is always on top, a loop calls nobody while it looks for messages or       *)
(* waits, and after it has looked at the queues it calls tasks only.         *)
UIPlaces ==
  {"peek", "work", "delayed", "kill", "idle", "wait", "on", "start", "done", "reset", "schedule", "dispatch"}
UIMessages == {"none", "work", "input", "timer", "quit"}
UIFrames ==
  [what : {"run", "native", "task", "input", "handle", "replace", "timer"}, at : UIPlaces,
   more : BOOLEAN, quit : BOOLEAN, msg : UIMessages]

MessageOK(f) ==
  f.what = "replace" =>
    /\ f.msg # "work"
    /\ f.at \in {"schedule", "dispatch"} => f.msg # "none"
Below(f, what) ==
  /\ f.what # "replace"
  /\ f.what = "handle" => f.at # "start"
  /\ f.what = "run" => f.at \in {"work", "delayed", "kill"} /\ (f.at # "work" => what = "task")

UIStack(s) ==
  /\ s \in Seq(UIFrames)
  /\ \A k \in 1..Len(s) : MessageOK(s[k])
  /\ \A k \in 1..Len(s) - 1 : Below(s[k], s[k + 1].what)

(* A kMsgHaveWork was taken out of the queue, and the flag is not reset yet.  *)
TakenAt(f) ==
  \/ f.what = "handle" /\ f.at = "start"
  \/ f.what = "replace" /\ f.at \in {"peek", "reset"}
(* The loop has looked at the queues, and later at the delayed tasks as well, *)
(* and found nothing to run.                                                 *)
TimedAt(f) ==
  /\ f.what = "run"
  /\ \/ f.at = "kill" /\ ~f.more
     \/ f.at = "idle" /\ ~f.quit
     \/ f.at = "wait"
QuietAt(f) == TimedAt(f) \/ (f.what = "run" /\ f.at = "delayed" /\ ~f.more)

Taken(s) == s # << >> /\ TakenAt(Last(s))
Quiet(s) == s # << >> /\ QuietAt(Last(s))
Timed(s) == s # << >> /\ TimedAt(Last(s))

UIQueues ==
  /\ QueuesOK /\ PosterTypes /\ haveWork \in BOOLEAN /\ nestable \in BOOLEAN
  /\ posted \in Seq({"work", "input"})
UIWakeup == OneSign(haveWork, "work", posted, poster, Taken(stack))
UICovered == Runnable => haveWork \/ \E t \in Posters : poster[t] = "schedule"
UIDelayKnown == nestable /\ waiting + due > 0 => delayedTime # "null"
UIAlert == Quiet(stack) => UICovered
UITimed == Timed(stack) => UIDelayKnown

UIInv == UIStack(stack) /\ UIQueues /\ UIWakeup /\ UIAlert /\ UITimed

(* The lemmas on its stack: a frame changes on top, is put there, returns, or  *)
(* is told to quit.                                                          *)
Changed(r, s, e) ==
  /\ Len(r) = Len(s) /\ r[Len(s)] = e
  /\ \A k \in 1..Len(s) : k # Len(s) => r[k] = s[k]

LEMMA UITop ==
  ASSUME NEW s, UIStack(s), s # << >>
  PROVE  /\ s \in Seq(UIFrames) /\ Len(s) \in Nat \ {0} /\ Last(s) = s[Len(s)] /\ Last(s) \in UIFrames
         /\ MessageOK(Last(s))
<1>1. s \in Seq(UIFrames)
  BY DEF UIStack
<1>2. Len(s) \in Nat \ {0} /\ Len(s) \in 1..Len(s) /\ Last(s) = s[Len(s)] /\ Last(s) \in UIFrames
  BY <1>1, Ends
<1>3. MessageOK(s[Len(s)])
  BY <1>2 DEF UIStack
<1>4. QED BY <1>1, <1>2, <1>3

LEMMA UIChange ==
  ASSUME NEW s, UIStack(s), s # << >>, NEW e \in UIFrames, MessageOK(e),
         Last(s).what = "task" => e.what = "task",
         NEW r \in Seq(UIFrames), Changed(r, s, e)
  PROVE  UIStack(r) /\ r # << >> /\ Last(r) = e
<1>1. /\ s \in Seq(UIFrames) /\ Len(s) \in Nat \ {0} /\ Last(s) = s[Len(s)]
  BY UITop
<1>2. /\ Len(r) = Len(s) /\ r[Len(s)] = e /\ \A k \in 1..Len(s) : k # Len(s) => r[k] = s[k]
  BY DEF Changed
<1>3. \A k \in 1..Len(r) : MessageOK(r[k])
  BY <1>1, <1>2 DEF UIStack
<1>4. ASSUME NEW k \in 1..Len(r) - 1
      PROVE  Below(r[k], r[k + 1].what)
  <2>1. /\ k \in 1..Len(s) - 1 /\ k \in 1..Len(s) /\ k # Len(s) /\ k + 1 \in 1..Len(s)
    BY <1>1, <1>2
  <2>2. Below(s[k], s[k + 1].what) /\ r[k] = s[k]
    BY <1>2, <2>1 DEF UIStack
  <2>3. CASE k + 1 = Len(s)
    <3>1. s[k + 1].what = "task" => r[k + 1].what = "task"
      BY <1>1, <1>2, <2>3
    <3>2. QED BY <2>2, <3>1 DEF Below
  <2>4. CASE k + 1 # Len(s)
    BY <1>2, <2>1, <2>2, <2>4
  <2>5. QED BY <2>3, <2>4
<1>5. UIStack(r)
  BY <1>3, <1>4 DEF UIStack
<1>6. r # << >> /\ Last(r) = e
  BY <1>1, <1>2 DEF Last
<1>7. QED BY <1>5, <1>6

LEMMA UIPush ==
  ASSUME NEW s, UIStack(s), s # << >>, NEW f \in UIFrames, MessageOK(f), Below(Last(s), f.what)
  PROVE  UIStack(Append(s, f)) /\ Append(s, f) # << >> /\ Last(Append(s, f)) = f
<1> DEFINE r == Append(s, f)
<1>1. s \in Seq(UIFrames) /\ Len(s) \in Nat \ {0} /\ Last(s) = s[Len(s)]
  BY UITop
<1>2. /\ r \in Seq(UIFrames) /\ Len(r) = Len(s) + 1 /\ r[Len(s) + 1] = f
      /\ \A k \in 1..Len(s) : r[k] = s[k]
  BY <1>1
<1> HIDE DEF r
<1>3. \A k \in 1..Len(r) : k \in 1..Len(s) \/ k = Len(s) + 1
  BY <1>1, <1>2
<1>4. \A k \in 1..Len(r) : MessageOK(r[k])
  BY <1>2, <1>3 DEF UIStack
<1>5. ASSUME NEW k \in 1..Len(r) - 1
      PROVE  Below(r[k], r[k + 1].what)
  <2>1. k \in 1..Len(s) /\ (k = Len(s) \/ (k \in 1..Len(s) - 1 /\ k + 1 \in 1..Len(s)))
    BY <1>1, <1>2
  <2>2. CASE k = Len(s)
    BY <1>1, <1>2, <2>1, <2>2
  <2>3. CASE k \in 1..Len(s) - 1 /\ k + 1 \in 1..Len(s)
    <3>1. Below(s[k], s[k + 1].what)
      BY <2>3 DEF UIStack
    <3>2. QED BY <1>2, <2>1, <2>3, <3>1
  <2>4. QED BY <2>1, <2>2, <2>3
<1>6. UIStack(r)
  BY <1>2, <1>4, <1>5 DEF UIStack
<1>7. r # << >> /\ Last(r) = f
  BY <1>1, <1>2 DEF Last
<1>8. QED BY <1>6, <1>7 DEF r

LEMMA UIPop ==
  ASSUME NEW s, UIStack(s), s # << >>, NEW b \in BOOLEAN
  PROVE  /\ UIStack(Popped(s, b)) /\ ~Taken(Popped(s, b))
         /\ Quiet(Popped(s, b)) => Last(s).what = "task" /\ ~b
<1> DEFINE r == Popped(s, b)
           e(k) == [s[k] EXCEPT !.more = @ \/ b]
<1>1. s \in Seq(UIFrames) /\ Len(s) \in Nat \ {0} /\ Last(s) = s[Len(s)]
  BY UITop
<1>2. \A k \in 1..Len(s) : s[k] \in UIFrames
  BY <1>1
<1>3. \A k \in 1..Len(s) :
         /\ e(k) \in UIFrames /\ e(k).what = s[k].what /\ e(k).at = s[k].at
         /\ e(k).quit = s[k].quit /\ e(k).msg = s[k].msg
  BY <1>2 DEF UIFrames
<1>4. \A k \in 1..Len(s) : e(k).more = (s[k].more \/ b) /\ s[k].more \in BOOLEAN
  BY <1>2 DEF UIFrames
<1>5. Len(s) > 1 => e(Len(s) - 1) \in UIFrames
  BY <1>1, <1>3
<1>6. /\ r \in Seq(UIFrames) /\ Len(r) = Len(s) - 1
      /\ \A k \in 1..Len(s) - 1 : r[k] = IF k = Len(s) - 1 THEN e(k) ELSE s[k]
  BY <1>1, <1>5, Popping
<1> HIDE DEF r, e
<1>7. \A k \in 1..Len(s) - 1 : k \in 1..Len(s) /\ k + 1 \in 1..Len(s)
  BY <1>1
<1>8. \A k \in 1..Len(s) - 1 : r[k].what = s[k].what /\ r[k].at = s[k].at /\ r[k].msg = s[k].msg
  BY <1>3, <1>6, <1>7
<1>9. r # << >> => r[Len(r)].more = (s[Len(r)].more \/ b) /\ Len(r) \in 1..Len(s) - 1 /\ Last(r) = r[Len(r)]
                   /\ Len(r) + 1 = Len(s)
  <2>1. SUFFICES ASSUME r # << >>
                 PROVE  r[Len(r)].more = (s[Len(r)].more \/ b) /\ Len(r) \in 1..Len(s) - 1 /\ Last(r) = r[Len(r)]
                        /\ Len(r) + 1 = Len(s)
    OBVIOUS
  <2>2. Len(r) \in Nat \ {0}
    BY <1>6, <2>1
  <2>3. Len(r) \in 1..Len(s) - 1 /\ Len(r) = Len(s) - 1 /\ Len(r) + 1 = Len(s)
    BY <1>1, <1>6, <2>2
  <2>4. QED BY <1>4, <1>6, <1>7, <2>3 DEF Last
<1>10. UIStack(r)
  <2>1. \A k \in 1..Len(r) : k \in 1..Len(s) - 1 /\ MessageOK(r[k])
    <3>1. \A k \in 1..Len(r) : k \in 1..Len(s) - 1
      BY <1>6
    <3>2. \A k \in 1..Len(s) : MessageOK(s[k])
      BY DEF UIStack
    <3>3. QED BY <1>7, <1>8, <3>1, <3>2 DEF MessageOK
  <2>2. ASSUME NEW k \in 1..Len(r) - 1 PROVE Below(r[k], r[k + 1].what)
    <3>1. k \in 1..Len(s) - 1 /\ k + 1 \in 1..Len(s) - 1
      BY <1>1, <1>6
    <3>2. Below(s[k], s[k + 1].what)
      BY <3>1 DEF UIStack
    <3>3. QED BY <1>8, <3>1, <3>2 DEF Below
  <2>3. QED BY <1>6, <2>1, <2>2 DEF UIStack
<1>11. ASSUME r # << >>
       PROVE  /\ ~TakenAt(Last(r))
              /\ QuietAt(Last(r)) => Last(s).what = "task" /\ ~b
  <2> DEFINE k == Len(r)
  <2>1. k \in 1..Len(s) - 1 /\ Last(r) = r[k] /\ k + 1 = Len(s) /\ r[k].more = (s[k].more \/ b)
    BY <1>9, <1>11
  <2> HIDE DEF k
  <2>2. Below(s[k], Last(s).what)
    BY <1>1, <2>1 DEF UIStack
  <2>3. r[k].what = s[k].what /\ r[k].at = s[k].at
    BY <1>8, <2>1
  <2>4. ~TakenAt(r[k])
    BY <2>2, <2>3 DEF Below, TakenAt
  <2>5. ASSUME QuietAt(r[k]) PROVE Last(s).what = "task" /\ ~b
    <3>1. r[k].what = "run" /\ r[k].at \in {"delayed", "kill"} /\ ~r[k].more
      BY <2>2, <2>3, <2>5 DEF Below, QuietAt, TimedAt
    <3>2. QED BY <2>1, <2>2, <2>3, <3>1 DEF Below
  <2>6. QED BY <2>1, <2>4, <2>5
<1>12. QED BY <1>10, <1>11 DEF r, Taken, Quiet

LEMMA UIQuit ==
  ASSUME NEW s, UIStack(s), s # << >>, NEW i
  PROVE  LET r == [s EXCEPT ![i].quit = TRUE]
         IN  /\ UIStack(r) /\ r # << >>
             /\ Last(r).what = Last(s).what /\ Last(r).at = Last(s).at
             /\ Last(r).more = Last(s).more /\ Last(r).msg = Last(s).msg
             /\ Last(s).quit => Last(r).quit
             /\ r \in Seq(UIFrames) /\ Len(r) = Len(s)
<1> DEFINE r == [s EXCEPT ![i].quit = TRUE]
<1>1. s \in Seq(UIFrames) /\ Len(s) \in Nat \ {0} /\ Last(s) = s[Len(s)] /\ DOMAIN s = 1..Len(s)
  BY UITop
<1>2. \A k \in 1..Len(s) : s[k] \in UIFrames
  BY <1>1
<1>3. DOMAIN r = 1..Len(s) /\ \A k \in 1..Len(s) : r[k] = IF k = i THEN [s[k] EXCEPT !.quit = TRUE] ELSE s[k]
  BY <1>1
<1>4. \A k \in 1..Len(s) :
        /\ [s[k] EXCEPT !.quit = TRUE] \in UIFrames
        /\ [s[k] EXCEPT !.quit = TRUE].what = s[k].what /\ [s[k] EXCEPT !.quit = TRUE].at = s[k].at
        /\ [s[k] EXCEPT !.quit = TRUE].more = s[k].more /\ [s[k] EXCEPT !.quit = TRUE].msg = s[k].msg
        /\ [s[k] EXCEPT !.quit = TRUE].quit
  BY <1>2 DEF UIFrames
<1>5. r \in Seq(UIFrames) /\ Len(r) = Len(s)
  <2>1. r = [k \in 1..Len(s) |-> r[k]]
    BY <1>1, <1>3
  <2>2. \A k \in 1..Len(s) : r[k] \in UIFrames
    BY <1>2, <1>3, <1>4
  <2> HIDE DEF r
  <2>3. QED BY <1>1, <1>3, <2>1, <2>2
<1> HIDE DEF r
<1>6. \A k \in 1..Len(s) : /\ r[k].what = s[k].what /\ r[k].at = s[k].at
                           /\ r[k].more = s[k].more /\ r[k].msg = s[k].msg
                           /\ s[k].quit => r[k].quit
  BY <1>3, <1>4
<1>7. UIStack(r)
  <2>1. \A k \in 1..Len(r) : MessageOK(r[k])
    BY <1>5, <1>6 DEF UIStack, MessageOK
  <2>2. \A k \in 1..Len(r) - 1 : k \in 1..Len(s) /\ k + 1 \in 1..Len(s) /\ Below(s[k], s[k + 1].what)
    BY <1>1, <1>5 DEF UIStack
  <2>3. \A k \in 1..Len(r) - 1 : Below(r[k], r[k + 1].what)
    BY <1>6, <2>2 DEF Below
  <2>4. QED BY <1>5, <2>1, <2>3 DEF UIStack
<1>8. r # << >> /\ Last(r) = r[Len(s)] /\ Len(s) \in 1..Len(s)
  BY <1>1, <1>5 DEF Last
<1>9. QED BY <1>1, <1>5, <1>6, <1>7, <1>8 DEF r

LEMMA UIFrameType ==
  ASSUME NEW what \in {"run", "native", "task", "input", "handle", "replace", "timer"}, NEW at \in UIPlaces
  PROVE  /\ UIFrame(what, at) \in UIFrames
         /\ UIFrame(what, at).what = what /\ UIFrame(what, at).at = at
         /\ ~UIFrame(what, at).more /\ ~UIFrame(what, at).quit
         /\ at \notin {"schedule", "dispatch"} => MessageOK(UIFrame(what, at))
  BY DEF UIFrame, UIFrames, UIMessages, MessageOK

(* What the steps do to the stack of the pump.                                *)
LEMMA UIGoesOn ==
  ASSUME UIStack(stack), Running, NEW at \in UIPlaces, GoTo(at),
         Top.what = "replace" /\ at \in {"schedule", "dispatch"} => Top.msg # "none"
  PROVE  /\ UIStack(stack') /\ stack' # << >>
         /\ Last(stack').what = Top.what /\ Last(stack').at = at
         /\ Last(stack').more = Top.more /\ Last(stack').quit = Top.quit
<1> DEFINE r == Goes(stack, at)
           e == [Last(stack) EXCEPT !.at = at]
<1>1. stack # << >> /\ stack' = r /\ Top = Last(stack)
  BY DEF GoTo, Running, Top
<1>2. /\ stack \in Seq(UIFrames) /\ Last(stack) \in UIFrames /\ MessageOK(Last(stack))
      /\ Len(stack) \in Nat \ {0} /\ Len(stack) \in 1..Len(stack)
  BY <1>1, UITop
<1>3. /\ e \in UIFrames /\ e.what = Top.what /\ e.at = at /\ e.more = Top.more
      /\ e.quit = Top.quit /\ e.msg = Top.msg
  BY <1>1, <1>2 DEF UIFrames
<1>4. MessageOK(e)
  BY <1>1, <1>2, <1>3 DEF MessageOK
<1>5. /\ r \in Seq(UIFrames) /\ Len(r) = Len(stack)
      /\ \A k \in 1..Len(stack) : r[k] = IF k = Len(stack) THEN e ELSE stack[k]
  BY <1>1, <1>2, <1>3, Going
<1> HIDE DEF r, e
<1>6. Changed(r, stack, e)
  BY <1>2, <1>5 DEF Changed
<1>7. UIStack(r) /\ r # << >> /\ Last(r) = e
  BY <1>1, <1>3, <1>4, <1>5, <1>6, UIChange
<1>8. QED BY <1>1, <1>3, <1>7

LEMMA UICalls ==
  ASSUME UIStack(stack), Running, NEW at \in UIPlaces, NEW f \in UIFrames, MessageOK(f), Call(at, f),
         Top.what # "replace", Top.what = "handle" => at # "start",
         Top.what = "run" => at \in {"work", "delayed", "kill"} /\ (at # "work" => f.what = "task")
  PROVE  UIStack(stack') /\ stack' # << >> /\ Last(stack') = f
<1> DEFINE r == Goes(stack, at)
           e == [Last(stack) EXCEPT !.at = at]
<1>1. stack # << >> /\ stack' = Append(r, f) /\ Top = Last(stack)
  BY DEF Call, Running, Top
<1>2. /\ stack \in Seq(UIFrames) /\ Last(stack) \in UIFrames
      /\ Len(stack) \in Nat \ {0} /\ Len(stack) \in 1..Len(stack)
  BY <1>1, UITop
<1>3. e \in UIFrames /\ e.what = Top.what /\ e.at = at
  BY <1>1, <1>2 DEF UIFrames
<1>4. MessageOK(e) /\ Below(e, f.what)
  BY <1>3 DEF MessageOK, Below
<1>5. /\ r \in Seq(UIFrames) /\ Len(r) = Len(stack)
      /\ \A k \in 1..Len(stack) : r[k] = IF k = Len(stack) THEN e ELSE stack[k]
  BY <1>1, <1>2, <1>3, Going
<1> HIDE DEF r, e
<1>6. Changed(r, stack, e)
  BY <1>2, <1>5 DEF Changed
<1>7. UIStack(r) /\ r # << >> /\ Last(r) = e
  BY <1>1, <1>3, <1>4, <1>5, <1>6, UIChange
<1>8. QED BY <1>1, <1>4, <1>7, UIPush

LEMMA UIReturns ==
  ASSUME UIStack(stack), Running, NEW b \in BOOLEAN, Return(b), b \/ Top.what # "task"
  PROVE  UIStack(stack') /\ ~Taken(stack') /\ ~Quiet(stack')
  BY UIPop DEF Return, Running, Top

(* ProcessNextWindowsMessage goes on with the tasks.                          *)
Looped == [stack EXCEPT ![Len(stack)].at = "work", ![Len(stack)].more = FALSE]

LEMMA UILooped ==
  ASSUME UIStack(stack), Running, Top.what = "run"
  PROVE  UIStack(Looped) /\ Looped # << >> /\ Last(Looped).what = "run" /\ Last(Looped).at = "work"
<1> DEFINE e == [Last(stack) EXCEPT !.at = "work", !.more = FALSE]
           r == Looped
<1>1. stack # << >> /\ Last(stack).what = "run"
  BY DEF Running, Top
<1>2. /\ stack \in Seq(UIFrames) /\ Last(stack) \in UIFrames /\ Last(stack) = stack[Len(stack)]
      /\ Len(stack) \in Nat \ {0} /\ Len(stack) \in 1..Len(stack)
  BY <1>1, UITop
<1>3. e \in UIFrames /\ e.what = "run" /\ e.at = "work" /\ MessageOK(e)
  BY <1>1, <1>2 DEF UIFrames, UIPlaces, MessageOK
<1>4. r = [stack EXCEPT ![Len(stack)] = e]
  BY <1>2 DEF Looped
<1> HIDE DEF r, e
<1>5. /\ r \in Seq(UIFrames) /\ Len(r) = Len(stack) /\ \A k \in 1..Len(stack) : r[k] = IF k = Len(stack) THEN e ELSE stack[k]
  BY <1>2, <1>3, <1>4, ExceptSeq
<1>6. Changed(r, stack, e)
  BY <1>2, <1>5 DEF Changed
<1>7. UIStack(r) /\ r # << >> /\ Last(r) = e
  BY <1>1, <1>3, <1>5, <1>6, UIChange
<1>8. QED BY <1>3, <1>7 DEF r

(* The message that is next.                                                  *)
LEMMA MessageTaken ==
  ASSUME posted \in Seq({"work", "input"})
  PROVE  /\ NextMessage \in UIMessages
         /\ NextMessage \in {"work", "input"} => posted # << >> /\ Head(posted) = NextMessage
         /\ \A m : Take(m) => /\ m = NextMessage
                              /\ m \in {"work", "input"} => posted' = Tail(posted)
                              /\ m \notin {"work", "input"} => posted' = posted
<1>1. posted # << >> => Head(posted) \in {"work", "input"}
  OBVIOUS
<1>2. CASE posted # << >>
  BY <1>1, <1>2 DEF NextMessage, UIMessages, Take
<1>3. CASE posted = << >>
  BY <1>3 DEF NextMessage, UIMessages, Take
<1>4. QED BY <1>2, <1>3

(* A step that changes nothing but the stack, and a step after which the loop *)
(* has yet to look at the queues.                                            *)
UIMoves ==
  /\ UIStack(stack') /\ (Taken(stack') <=> Taken(stack))
  /\ Quiet(stack') => Quiet(stack)
  /\ Timed(stack') => Timed(stack)

LEMMA UIStackOnly ==
  ASSUME UIInv, UIMoves,
         UNCHANGED <<posted, haveWork, delayedTime, poster, incoming, workQueue, waiting, due, nestable>>
  PROVE  UIInv'
<1>1. UIQueues'
  BY DEF UIInv, UIQueues, QueuesOK, PosterTypes
<1>2. UIWakeup'
  <2>1. OneSign(haveWork, "work", posted, poster, Taken(stack))
    BY DEF UIInv, UIWakeup
  <2>2. Taken(stack') <=> Taken(stack)
    BY DEF UIMoves
  <2>3. OneSign(haveWork', "work", posted', poster', Taken(stack'))
    BY <2>1, <2>2 DEF OneSign, Places, Posting
  <2>4. QED BY <2>3 DEF UIWakeup
<1>3. UIAlert' /\ UITimed'
  BY DEF UIInv, UIMoves, UIAlert, UITimed, UICovered, UIDelayKnown, Runnable
<1>4. QED BY <1>1, <1>2, <1>3 DEF UIInv, UIMoves

LEMMA UILoud ==
  ASSUME UIStack(stack'), ~Quiet(stack'), UIQueues', UIWakeup'
  PROVE  UIInv'
  BY DEF UIInv, UIAlert, UITimed, Quiet, Timed, QuietAt

LEMMA UIStackStays ==
  ASSUME UIInv, UNCHANGED stack, UIQueues', UIWakeup', UICovered => UICovered', UIDelayKnown => UIDelayKnown'
  PROVE  UIInv'
  BY DEF UIInv, UIAlert, UITimed

(* The steps of the pump that change the stack only.                          *)
LEMMA UIFirstCalls ==
  ASSUME UIRun \/ EarlyNativeLoop
  PROVE  UIMoves
<1>1. PICK f \in {UIFrame("run", "peek"), UIFrame("native", "on")} : stack = << >> /\ stack' = <<f>>
  BY DEF UIRun, EarlyNativeLoop, Running
<1>2. f \in UIFrames /\ f.what \in {"run", "native"} /\ f.at \in {"peek", "on"} /\ MessageOK(f)
  BY <1>1, UIFrameType DEF UIPlaces
<1>3. stack' \in Seq(UIFrames) /\ Len(stack') = 1 /\ stack'[1] = f
  BY <1>1, <1>2
<1>4. UIStack(stack')
  BY <1>2, <1>3 DEF UIStack
<1>5. stack' # << >> /\ Last(stack') = f
  BY <1>3 DEF Last
<1>6. ~Taken(stack') /\ ~Quiet(stack') /\ ~Timed(stack') /\ ~Taken(stack)
  BY <1>1, <1>2, <1>5 DEF Taken, Quiet, Timed, TakenAt, QuietAt, TimedAt
<1>7. QED BY <1>4, <1>6 DEF UIMoves

LEMMA LoopMoves ==
  ASSUME UIStack(stack), LoopKillTimer \/ LoopIdle \/ WaitForWork
  PROVE  UIMoves
<1>1. /\ Running /\ Top.what = "run" /\ Top.at \in {"kill", "idle", "wait"}
      /\ \/ Top.at = "kill" /\ GoTo(IF Top.more /\ ~Top.quit THEN "peek" ELSE "idle")
         \/ Top.at = "idle" /\ ~Top.quit /\ GoTo("wait")
         \/ Top.at = "wait" /\ GoTo("peek")
  BY DEF LoopKillTimer, LoopIdle, WaitForWork, IsAt
<1>2. ~Taken(stack) /\ stack # << >> /\ Last(stack) = Top
  BY <1>1 DEF Taken, TakenAt, Running, Top
<1>3. PICK at \in {"peek", "idle", "wait"} :
        /\ GoTo(at)
        /\ at = "idle" => Top.at = "kill" /\ (Top.more => Top.quit)
        /\ at = "wait" => Top.at = "idle" /\ ~Top.quit
  BY <1>1
<1>4. /\ UIStack(stack') /\ stack' # << >>
      /\ Last(stack').what = "run" /\ Last(stack').at = at
      /\ Last(stack').more = Top.more /\ Last(stack').quit = Top.quit
  BY <1>1, <1>3, UIGoesOn DEF UIPlaces
<1>5. ~Taken(stack')
  BY <1>4 DEF Taken, TakenAt
<1>6. TimedAt(Last(stack')) => TimedAt(Top)
  BY <1>1, <1>3, <1>4 DEF TimedAt
<1>7. QuietAt(Last(stack')) => TimedAt(Last(stack'))
  BY <1>3, <1>4 DEF QuietAt
<1>8. QED BY <1>2, <1>4, <1>5, <1>6, <1>7 DEF UIMoves, Quiet, Timed, QuietAt

(* A call returns, and the flag is not waiting for it.                        *)
LEMMA UIReturnMoves ==
  ASSUME UIStack(stack), Running, NEW b \in BOOLEAN, Return(b), b \/ Top.what # "task", ~Taken(stack)
  PROVE  UIMoves
<1>1. UIStack(stack') /\ ~Taken(stack') /\ ~Quiet(stack')
  BY UIReturns
<1>2. QED BY <1>1 DEF UIMoves, Quiet, Timed, QuietAt

LEMMA ReturningMoves ==
  ASSUME UIStack(stack),
         \/ RunReturns \/ NativeLoopEnds \/ HandleTimerEnds
         \/ HandleTimer /\ State = 0
         \/ IsAt("native", "on") /\ Return(FALSE)
  PROVE  UIMoves
<1>1. /\ Running /\ Top.what \in {"run", "native", "timer"}
      /\ \E b \in BOOLEAN : Return(b) /\ (b \/ Top.what # "task")
  BY DEF RunReturns, NativeLoopEnds, HandleTimerEnds, HandleTimer, IsAt
<1>2. ~Taken(stack)
  BY <1>1 DEF Taken, TakenAt, Top
<1>3. QED BY <1>1, <1>2, UIReturnMoves

(* A call of the user's, or of a window procedure for a message that is not   *)
(* kMsgHaveWork.                                                             *)
LEMMA UICallMoves ==
  ASSUME UIStack(stack), Running, Top.what \in {"task", "input", "native"},
         NEW f \in UIFrames, MessageOK(f), ~TakenAt(f), ~QuietAt(f), Call("on", f)
  PROVE  UIMoves
<1>1. UIStack(stack') /\ stack' # << >> /\ Last(stack') = f
  BY UICalls DEF UIPlaces
<1>2. ~Taken(stack) /\ ~Taken(stack') /\ ~Quiet(stack')
  BY <1>1 DEF Taken, TakenAt, Quiet, Top
<1>3. QED BY <1>1, <1>2 DEF UIMoves, Quiet, Timed, QuietAt

LEMMA UserMoves ==
  ASSUME UIStack(stack), UserCalls("native", "on") \/ UserCalls("run", "peek") \/ UserQuits
  PROVE  UIMoves
<1>1. Running /\ Top.what \in {"task", "input"}
  BY DEF UserCalls, UserQuits, InUserCode
<1>2. CASE UserCalls("native", "on") \/ UserCalls("run", "peek")
  <2>1. PICK f \in {UIFrame("run", "peek"), UIFrame("native", "on")} : Call("on", f)
    BY <1>2 DEF UserCalls
  <2>2. f \in UIFrames /\ f.what \in {"run", "native"} /\ f.at \in {"peek", "on"} /\ MessageOK(f)
    BY <2>1, UIFrameType DEF UIPlaces
  <2>3. ~TakenAt(f) /\ ~QuietAt(f)
    BY <2>2 DEF TakenAt, QuietAt, TimedAt
  <2>4. QED BY <1>1, <2>1, <2>2, <2>3, UICallMoves
<1>3. CASE UserQuits
  <2> DEFINE i == State
  <2>1. stack # << >> /\ stack' = [stack EXCEPT ![i].quit = TRUE]
    BY <1>1, <1>3 DEF UserQuits, Running
  <2> HIDE DEF i
  <2>2. UIStack(stack') /\ stack' # << >> /\ Last(stack').what = Last(stack).what
    BY <2>1, UIQuit
  <2>3. ~Taken(stack) /\ ~Taken(stack') /\ ~Quiet(stack') /\ ~Timed(stack')
    BY <1>1, <2>2 DEF Taken, TakenAt, Quiet, QuietAt, Timed, TimedAt, Top
  <2>4. QED BY <2>2, <2>3 DEF UIMoves
<1>4. QED BY <1>2, <1>3

LEMMA ForgetMoves ==
  ASSUME UIStack(stack), ForgetReplacement
  PROVE  UIMoves
<1> DEFINE e == [Last(stack) EXCEPT !.more = FALSE]
           r == stack'
<1>1. stack # << >> /\ Last(stack).what = "handle" /\ Last(stack).at = "work"
  BY DEF ForgetReplacement, IsAt, Running, Top
<1>2. /\ stack \in Seq(UIFrames) /\ Last(stack) \in UIFrames /\ Last(stack) = stack[Len(stack)]
      /\ Len(stack) \in Nat \ {0} /\ Len(stack) \in 1..Len(stack)
  BY <1>1, UITop
<1>3. e \in UIFrames /\ e.what = "handle" /\ e.at = "work" /\ MessageOK(e)
  BY <1>1, <1>2 DEF UIFrames, MessageOK
<1>4. r = [stack EXCEPT ![Len(stack)] = e]
  BY <1>2 DEF ForgetReplacement
<1> HIDE DEF r, e
<1>5. r \in Seq(UIFrames) /\ Len(r) = Len(stack) /\ \A k \in 1..Len(stack) : r[k] = IF k = Len(stack) THEN e ELSE stack[k]
  BY <1>2, <1>3, <1>4, ExceptSeq
<1>6. Changed(r, stack, e)
  BY <1>2, <1>5 DEF Changed
<1>7. UIStack(r) /\ r # << >> /\ Last(r) = e
  BY <1>1, <1>3, <1>5, <1>6, UIChange
<1>8. ~Taken(stack) /\ ~Taken(r) /\ ~Quiet(r) /\ ~Timed(r)
  BY <1>1, <1>3, <1>7 DEF Taken, TakenAt, Quiet, QuietAt, Timed, TimedAt
<1>9. QED BY <1>7, <1>8 DEF UIMoves, r

(* The steps that look for messages.  One is taken from the queue, and the    *)
(* flag waits for its answer if that is kMsgHaveWork.                         *)
LEMMA WorkTaken ==
  ASSUME UIInv, UIStack(stack'), ~Quiet(stack'), NEW m \in {"work", "input"}, Take(m),
         IF m = "work" THEN Taken(stack') ELSE (Taken(stack') <=> Taken(stack)),
         UNCHANGED <<haveWork, delayedTime, poster, incoming, workQueue, waiting, due, nestable>>
  PROVE  UIInv'
<1>1. /\ UIQueues /\ posted \in Seq({"work", "input"})
      /\ OneSign(haveWork, "work", posted, poster, Taken(stack))
  BY DEF UIInv, UIQueues, UIWakeup
<1>2. posted # << >> /\ Head(posted) = m /\ posted' = Tail(posted)
  BY <1>1, MessageTaken
<1>3. posted' \in Seq({"work", "input"})
  BY <1>1, <1>2
<1>4. UIQueues'
  BY <1>1, <1>3 DEF UIQueues, QueuesOK, PosterTypes
<1> DEFINE now == Taken(stack)
           then == Taken(stack')
<1>5. OneSign(haveWork, "work", Tail(posted), poster, then)
  <2>1. IF m = "work" THEN then ELSE (then <=> now)
    OBVIOUS
  <2>2. OneSign(haveWork, "work", posted, poster, now)
    BY <1>1
  <2> HIDE DEF now, then
  <2>3. CASE m = "work"
    <3>1. OneSign(haveWork, "work", Tail(posted), poster, TRUE)
      BY <1>1, <1>2, <2>2, <2>3, SignTaken
    <3>2. QED BY <2>1, <2>3, <3>1 DEF OneSign
  <2>4. CASE m = "input"
    <3>1. OneSign(haveWork, "work", Tail(posted), poster, now)
      BY <1>1, <1>2, <2>2, <2>4, OtherTaken
    <3>2. QED BY <2>1, <2>4, <3>1 DEF OneSign
  <2>5. QED BY <2>3, <2>4
<1>6. UIWakeup'
  <2>1. UNCHANGED <<haveWork, poster>> /\ posted' = Tail(posted)
    BY <1>2
  <2>2. OneSign(haveWork', "work", posted', poster', Taken(stack'))
    BY <1>5, <2>1 DEF OneSign, Places, Posting
  <2>3. QED BY <2>2 DEF UIWakeup
<1>7. QED BY <1>4, <1>6, UILoud

LEMMA ProcessNextStep ==
  ASSUME UIInv, ProcessNextWindowsMessage
  PROVE  UIInv'
<1>1. /\ UIStack(stack) /\ Running /\ Top.what = "run" /\ posted \in Seq({"work", "input"})
      /\ UNCHANGED <<haveWork, delayedTime, poster, incoming, workQueue, waiting, due, nestable>>
  BY DEF UIInv, UIQueues, ProcessNextWindowsMessage, IsAt, taskVars, queueVars
<1>2. UIStack(Looped) /\ Looped # << >> /\ Last(Looped).what = "run" /\ Last(Looped).at = "work"
  BY <1>1, UILooped
<1>3. ~Taken(stack)
  BY <1>1 DEF Taken, TakenAt, Top
<1>4. \/ stack' = Looped /\ UNCHANGED posted
      \/ Helper(Looped, "quit") /\ UNCHANGED posted
      \/ \E m \in {"work", "input", "timer"} : Take(m) /\ Helper(Looped, m)
  BY DEF ProcessNextWindowsMessage, Looped
<1>5. CASE \/ stack' = Looped /\ UNCHANGED posted
           \/ Helper(Looped, "quit") /\ UNCHANGED posted
  <2>1. UIStack(stack') /\ stack' # << >> /\ Last(stack').what = "run" /\ Last(stack').at = "work"
    <3>1. CASE stack' = Looped
      BY <1>2, <3>1
    <3>2. CASE Helper(Looped, "quit")
      <4> DEFINE i == State
      <4>1. stack' = [Looped EXCEPT ![i].quit = TRUE]
        BY <3>2 DEF Helper
      <4> HIDE DEF i
      <4>2. QED BY <1>2, <4>1, UIQuit
    <3>3. QED BY <1>5, <3>1, <3>2
  <2>2. ~Taken(stack') /\ ~Quiet(stack') /\ ~Timed(stack')
    BY <2>1 DEF Taken, TakenAt, Quiet, QuietAt, Timed, TimedAt
  <2>3. UIMoves /\ UNCHANGED posted
    BY <1>3, <1>5, <2>1, <2>2 DEF UIMoves
  <2>4. QED BY <1>1, <2>3, UIStackOnly
<1>6. ASSUME NEW m \in {"work", "input", "timer"}, Take(m), Helper(Looped, m)
      PROVE  UIInv'
  <2>1. PICK f \in UIFrames :
          /\ MessageOK(f) /\ stack' = Append(Looped, f) /\ f.what # "run"
          /\ TakenAt(f) <=> m = "work"
    <3>1. CASE m = "work"
      <4> DEFINE f == UIFrame("replace", "peek")
      <4>1. f \in UIFrames /\ f.what = "replace" /\ f.at = "peek" /\ MessageOK(f)
        BY UIFrameType DEF UIPlaces
      <4>2. stack' = Append(Looped, f)
        BY <1>6, <3>1 DEF Helper
      <4>3. QED BY <3>1, <4>1, <4>2 DEF TakenAt
    <3>2. CASE m = "input"
      <4> DEFINE f == UIFrame("input", "on")
      <4>1. f \in UIFrames /\ f.what = "input" /\ f.at = "on" /\ MessageOK(f)
        BY UIFrameType DEF UIPlaces
      <4>2. stack' = Append(Looped, f)
        BY <1>6, <3>2 DEF Helper, Procedure
      <4>3. QED BY <3>2, <4>1, <4>2 DEF TakenAt
    <3>3. CASE m = "timer"
      <4> DEFINE f == UIFrame("timer", "start")
      <4>1. f \in UIFrames /\ f.what = "timer" /\ f.at = "start" /\ MessageOK(f)
        BY UIFrameType DEF UIPlaces
      <4>2. stack' = Append(Looped, f)
        BY <1>6, <3>3 DEF Helper, Procedure
      <4>3. QED BY <3>3, <4>1, <4>2 DEF TakenAt
    <3>4. QED BY <1>6, <3>1, <3>2, <3>3
  <2>2. Below(Last(Looped), f.what)
    BY <1>2 DEF Below
  <2>3. UIStack(stack') /\ stack' # << >> /\ Last(stack') = f
    BY <1>2, <2>1, <2>2, UIPush
  <2>4. /\ ~Quiet(stack') /\ ~Timed(stack')
        /\ Taken(stack') <=> m = "work"
    BY <2>1, <2>3 DEF Taken, Quiet, QuietAt, Timed, TimedAt
  <2>5. CASE m = "timer"
    <3>1. posted' = posted
      BY <1>1, <1>6, <2>5, MessageTaken
    <3>2. UIMoves
      BY <1>3, <2>3, <2>4, <2>5 DEF UIMoves
    <3>3. QED BY <1>1, <3>1, <3>2, UIStackOnly
  <2>6. CASE m \in {"work", "input"}
    BY <1>1, <1>3, <1>6, <2>3, <2>4, <2>6, WorkTaken
  <2>7. QED BY <1>6, <2>5, <2>6
<1>7. QED BY <1>4, <1>5, <1>6

LEMMA NativeLoopStep ==
  ASSUME UIInv, NativeLoop
  PROVE  UIInv'
<1>1. /\ UIStack(stack) /\ Running /\ Top.what = "native" /\ IsAt("native", "on")
      /\ posted \in Seq({"work", "input"})
      /\ UNCHANGED <<haveWork, delayedTime, poster, incoming, workQueue, waiting, due, nestable>>
  BY DEF UIInv, UIQueues, NativeLoop, IsAt, taskVars, queueVars
<1>2. ~Taken(stack)
  BY <1>1 DEF Taken, TakenAt, Top
<1>3. CASE Return(FALSE) /\ UNCHANGED posted
  BY <1>1, <1>3, ReturningMoves, UIStackOnly
<1>4. ASSUME NEW m \in {"work", "input", "timer"}, Take(m), Call("on", Procedure(m))
      PROVE  UIInv'
  <2> DEFINE f == Procedure(m)
  <2>1. f \in UIFrames /\ MessageOK(f) /\ f.what \in {"handle", "input", "timer"} /\ (TakenAt(f) <=> m = "work")
    <3>1. CASE m = "work"
      <4>1. f = UIFrame("handle", "start")
        BY <3>1 DEF Procedure
      <4>2. f \in UIFrames /\ f.what = "handle" /\ f.at = "start" /\ MessageOK(f)
        BY <4>1, UIFrameType DEF UIPlaces
      <4>3. QED BY <3>1, <4>2 DEF TakenAt
    <3>2. CASE m = "input"
      <4>1. f = UIFrame("input", "on")
        BY <3>2 DEF Procedure
      <4>2. f \in UIFrames /\ f.what = "input" /\ f.at = "on" /\ MessageOK(f)
        BY <4>1, UIFrameType DEF UIPlaces
      <4>3. QED BY <3>2, <4>2 DEF TakenAt
    <3>3. CASE m = "timer"
      <4>1. f = UIFrame("timer", "start")
        BY <3>3 DEF Procedure
      <4>2. f \in UIFrames /\ f.what = "timer" /\ f.at = "start" /\ MessageOK(f)
        BY <4>1, UIFrameType DEF UIPlaces
      <4>3. QED BY <3>3, <4>2 DEF TakenAt
    <3>4. QED BY <1>4, <3>1, <3>2, <3>3
  <2>2. UIStack(stack') /\ stack' # << >> /\ Last(stack') = f
    <3>1. Call("on", f)
      BY <1>4
    <3> HIDE DEF f
    <3>2. QED BY <1>1, <2>1, <3>1, UICalls DEF UIPlaces
  <2> HIDE DEF f
  <2>3. /\ ~Quiet(stack') /\ ~Timed(stack')
        /\ Taken(stack') <=> m = "work"
    BY <2>1, <2>2 DEF Taken, Quiet, QuietAt, Timed, TimedAt
  <2>4. CASE m = "timer"
    <3>1. posted' = posted
      BY <1>1, <1>4, <2>4, MessageTaken
    <3>2. UIMoves
      BY <1>2, <2>2, <2>3, <2>4 DEF UIMoves
    <3>3. QED BY <1>1, <3>1, <3>2, UIStackOnly
  <2>5. CASE m \in {"work", "input"}
    BY <1>1, <1>2, <1>4, <2>2, <2>3, <2>5, WorkTaken
  <2>6. QED BY <1>4, <2>4, <2>5
<1>5. QED BY <1>3, <1>4 DEF NativeLoop

LEMMA PeekStep ==
  ASSUME UIInv, PeekReplacement
  PROVE  UIInv'
<1>1. /\ UIStack(stack) /\ stack # << >> /\ Last(stack).what = "replace" /\ Last(stack).at = "peek"
      /\ posted \in Seq({"work", "input"})
      /\ OneSign(haveWork, "work", posted, poster, Taken(stack))
      /\ UNCHANGED <<haveWork, delayedTime, poster, incoming, workQueue, waiting, due, nestable>>
  BY DEF UIInv, UIQueues, UIWakeup, PeekReplacement, IsAt, Running, Top, taskVars, queueVars
<1>2. Taken(stack)
  BY <1>1 DEF Taken, TakenAt
<1>3. /\ NextMessage \in UIMessages
      /\ NextMessage = "work" => posted # << >> /\ Head(posted) = "work"
  BY <1>1, MessageTaken
<1>4. NextMessage # "work"
  <2>1. Places("work", posted) = {}
    BY <1>1, <1>2 DEF OneSign
  <2>2. posted # << >> => Head(posted) = posted[1] /\ 1 \in DOMAIN posted
    BY <1>1
  <2>3. QED BY <1>3, <2>1, <2>2 DEF Places
<1> DEFINE next == NextMessage
           e == [Last(stack) EXCEPT !.at = "reset", !.msg = next]
           r == stack'
<1>5. /\ stack \in Seq(UIFrames) /\ Last(stack) \in UIFrames /\ Last(stack) = stack[Len(stack)]
      /\ Len(stack) \in Nat \ {0} /\ Len(stack) \in 1..Len(stack)
  BY <1>1, UITop
<1>6. next \in UIMessages /\ next # "work" /\ (UNCHANGED posted \/ \E m \in {"input", "timer", "quit"} : Take(m))
  BY <1>3, <1>4 DEF PeekReplacement
<1>7. r = [stack EXCEPT ![Len(stack)] = e]
  BY <1>5 DEF PeekReplacement
<1> HIDE DEF next
<1>8. e \in UIFrames /\ e.what = "replace" /\ e.at = "reset" /\ MessageOK(e)
  BY <1>1, <1>5, <1>6 DEF UIFrames, UIPlaces, MessageOK
<1> HIDE DEF r, e
<1>9. r \in Seq(UIFrames) /\ Len(r) = Len(stack) /\ \A k \in 1..Len(stack) : r[k] = IF k = Len(stack) THEN e ELSE stack[k]
  BY <1>5, <1>7, <1>8, ExceptSeq
<1>10. Changed(r, stack, e)
  BY <1>5, <1>9 DEF Changed
<1>11. UIStack(r) /\ r # << >> /\ Last(r) = e
  BY <1>1, <1>8, <1>9, <1>10, UIChange
<1>12. Taken(r) /\ ~Quiet(r) /\ ~Timed(r)
  BY <1>8, <1>11 DEF Taken, TakenAt, Quiet, QuietAt, Timed, TimedAt
<1>13. UIMoves /\ UIStack(stack') /\ ~Quiet(stack') /\ (Taken(stack') <=> Taken(stack))
  BY <1>2, <1>11, <1>12 DEF UIMoves, r
<1>14. CASE UNCHANGED posted
  BY <1>1, <1>13, <1>14, UIStackOnly
<1>15. ASSUME NEW m \in {"input", "timer", "quit"}, Take(m)
       PROVE  UIInv'
  <2>1. CASE m = "input"
    BY <1>1, <1>13, <1>15, <2>1, WorkTaken
  <2>2. CASE m # "input"
    <3>1. posted' = posted
      BY <1>1, <1>15, <2>2, MessageTaken
    <3>2. QED BY <1>1, <1>13, <3>1, UIStackOnly
  <2>3. QED BY <2>1, <2>2
<1>16. QED BY <1>6, <1>14, <1>15

(* The frame of the replacement becomes that of the message it took.          *)
LEMMA DispatchMoves ==
  ASSUME UIStack(stack), DispatchReplacement
  PROVE  UIMoves
<1>1. /\ stack # << >> /\ Last(stack).what = "replace" /\ Last(stack).at = "dispatch" /\ Top = Last(stack)
      /\ IF Last(stack).msg = "quit"
         THEN stack' = Popped([stack EXCEPT ![State].quit = TRUE], FALSE)
         ELSE stack' = Append(Front(stack), Procedure(Last(stack).msg))
  BY DEF DispatchReplacement, IsAt, Running, Top
<1>2. /\ stack \in Seq(UIFrames) /\ Last(stack) \in UIFrames /\ Last(stack) = stack[Len(stack)]
      /\ Len(stack) \in Nat \ {0} /\ Len(stack) \in 1..Len(stack) /\ MessageOK(Last(stack))
  BY <1>1, UITop
<1>3. ~Taken(stack)
  BY <1>1 DEF Taken, TakenAt
<1>4. CASE Last(stack).msg = "quit"
  <2> DEFINE i == State
             q == [stack EXCEPT ![i].quit = TRUE]
  <2>1. stack' = Popped(q, FALSE)
    BY <1>1, <1>4
  <2> HIDE DEF i
  <2>2. UIStack(q) /\ q # << >> /\ Last(q).what = "replace"
    BY <1>1, UIQuit
  <2> HIDE DEF q
  <2>3. UIStack(stack') /\ ~Taken(stack') /\ ~Quiet(stack')
    BY <2>1, <2>2, UIPop
  <2>4. QED BY <1>3, <2>3 DEF UIMoves, Quiet, Timed, QuietAt
<1>5. CASE Last(stack).msg # "quit"
  <2> DEFINE f == Procedure(Last(stack).msg)
             r == Append(Front(stack), f)
  <2>1. Last(stack).msg \in {"input", "timer"}
    BY <1>1, <1>2, <1>5 DEF MessageOK, UIFrames, UIMessages
  <2>2. f \in UIFrames /\ MessageOK(f) /\ f.what \in {"input", "timer"}
    <3>1. \/ f = UIFrame("input", "on") \/ f = UIFrame("timer", "start")
      BY <2>1 DEF Procedure
    <3> HIDE DEF f
    <3>2. QED BY <3>1, UIFrameType DEF UIPlaces
  <2>3. stack' = r
    BY <1>1, <1>5
  <2> HIDE DEF f
  <2>4. /\ r \in Seq(UIFrames) /\ Len(r) = Len(stack) /\ r[Len(stack)] = f
        /\ \A k \in 1..Len(stack) : k # Len(stack) => r[k] = stack[k]
    BY <1>1, <1>2, <2>2, Replacing
  <2> HIDE DEF r
  <2>5. Changed(r, stack, f)
    BY <2>4 DEF Changed
  <2>6. UIStack(r) /\ r # << >> /\ Last(r) = f
    BY <1>1, <2>2, <2>4, <2>5, UIChange
  <2>7. ~Taken(r) /\ ~Quiet(r) /\ ~Timed(r)
    BY <2>2, <2>6 DEF Taken, TakenAt, Quiet, QuietAt, Timed, TimedAt
  <2>8. QED BY <1>3, <2>3, <2>6, <2>7 DEF UIMoves
<1>6. QED BY <1>4, <1>5

(* The steps that set the flag, or reset it.                                  *)
LEMMA UIScheduled ==
  ASSUME UIInv, ScheduleWork, UNCHANGED poster, Taken(stack') <=> Taken(stack)
  PROVE  UIWakeup' /\ haveWork' = TRUE /\ posted' \in Seq({"work", "input"})
<1> DEFINE now == Taken(stack)
           then == Taken(stack')
<1>1. /\ haveWork \in BOOLEAN /\ posted \in Seq({"work", "input"}) /\ now \in BOOLEAN
      /\ OneSign(haveWork, "work", posted, poster, now)
  BY DEF UIInv, UIQueues, UIWakeup, Taken
<1>2. haveWork' = TRUE /\ posted' = IF haveWork THEN posted ELSE Append(posted, "work")
  BY DEF ScheduleWork
<1>3. then <=> now
  OBVIOUS
<1> HIDE DEF now, then
<1>4. OneSign(TRUE, "work", IF haveWork THEN posted ELSE Append(posted, "work"), poster, now)
  BY <1>1, SignSentNow
<1>5. OneSign(haveWork', "work", posted', poster', then)
  BY <1>2, <1>3, <1>4 DEF OneSign, Places, Posting
<1>6. posted' \in Seq({"work", "input"})
  BY <1>1, <1>2
<1>7. QED BY <1>2, <1>5, <1>6 DEF UIWakeup, then

LEMMA UIAnswered ==
  ASSUME UIInv, UIStack(stack'), Taken(stack), ~Taken(stack'), ~Quiet(stack'), haveWork' = FALSE,
         UNCHANGED <<posted, poster, incoming, workQueue, waiting, due, nestable>>
  PROVE  UIInv'
<1>1. OneSign(haveWork, "work", posted, poster, TRUE)
  BY DEF UIInv, UIWakeup, OneSign
<1>2. OneSign(FALSE, "work", posted, poster, FALSE)
  BY <1>1, SignAnswered
<1>3. UIWakeup'
  <2>1. OneSign(haveWork', "work", posted', poster', Taken(stack'))
    BY <1>2 DEF OneSign, Places, Posting
  <2>2. QED BY <2>1 DEF UIWakeup
<1>4. UIQueues'
  BY DEF UIInv, UIQueues, QueuesOK, PosterTypes
<1>5. QED BY <1>3, <1>4, UILoud

LEMMA ResetStep ==
  ASSUME UIInv, ResetHaveWork
  PROVE  UIInv'
<1>1. /\ UIStack(stack) /\ Running /\ Top.what = "replace" /\ Top.at = "reset" /\ haveWork' = FALSE
      /\ UNCHANGED <<posted, delayedTime, poster, incoming, workQueue, waiting, due, nestable>>
      /\ IF Top.msg = "none" THEN Return(FALSE) ELSE GoTo("schedule")
  BY DEF UIInv, ResetHaveWork, IsAt, messages, taskVars, queueVars
<1>2. Taken(stack)
  BY <1>1 DEF Taken, TakenAt, Running, Top
<1>3. UIStack(stack') /\ ~Taken(stack') /\ ~Quiet(stack')
  <2>1. CASE Return(FALSE)
    BY <1>1, <2>1, UIReturns
  <2>2. CASE Top.msg # "none" /\ GoTo("schedule")
    <3>1. UIStack(stack') /\ Last(stack').what = "replace" /\ Last(stack').at = "schedule"
      BY <1>1, <2>2, UIGoesOn DEF UIPlaces
    <3>2. QED BY <3>1 DEF Taken, TakenAt, Quiet, QuietAt, TimedAt
  <2>3. QED BY <1>1, <2>1, <2>2
<1>4. QED BY <1>1, <1>2, <1>3, UIAnswered

LEMMA RescheduleStep ==
  ASSUME UIInv, RescheduleWork
  PROVE  UIInv'
<1>1. /\ UIStack(stack) /\ Running /\ Top.what = "replace" /\ Top.at = "schedule"
      /\ ScheduleWork /\ GoTo("dispatch")
      /\ UNCHANGED <<poster, incoming, workQueue, waiting, due, nestable>>
  BY DEF UIInv, RescheduleWork, IsAt, taskVars, queueVars
<1>2. Top.msg # "none"
  <2>1. MessageOK(Top)
    BY <1>1, UITop DEF Running, Top
  <2>2. QED BY <1>1, <2>1 DEF MessageOK
<1>3. UIStack(stack') /\ Last(stack').what = "replace" /\ Last(stack').at = "dispatch"
  BY <1>1, <1>2, UIGoesOn DEF UIPlaces
<1>4. ~Taken(stack) /\ ~Taken(stack') /\ ~Quiet(stack')
  BY <1>1, <1>3 DEF Taken, TakenAt, Quiet, QuietAt, TimedAt, Top
<1>5. UIWakeup' /\ haveWork' = TRUE /\ posted' \in Seq({"work", "input"})
  BY <1>1, <1>4, UIScheduled
<1>6. UIQueues'
  BY <1>1, <1>5 DEF UIInv, UIQueues, QueuesOK, PosterTypes
<1>7. QED BY <1>3, <1>4, <1>5, <1>6, UILoud

LEMMA HandleWorkStep ==
  ASSUME UIInv, HandleWork
  PROVE  UIInv'
<1>1. /\ UIStack(stack) /\ Running /\ Top.what = "handle" /\ Top.at = "start"
      /\ UNCHANGED <<posted, delayedTime, poster, incoming, workQueue, waiting, due, nestable>>
      /\ \/ haveWork' = FALSE /\ Return(TRUE)
         \/ Call("work", UIFrame("replace", "peek")) /\ UNCHANGED haveWork
  BY DEF UIInv, HandleWork, IsAt, messages, taskVars, queueVars
<1>2. Taken(stack)
  BY <1>1 DEF Taken, TakenAt, Running, Top
<1>3. CASE haveWork' = FALSE /\ Return(TRUE)
  <2>1. UIStack(stack') /\ ~Taken(stack') /\ ~Quiet(stack')
    BY <1>1, <1>3, UIReturns
  <2>2. QED BY <1>1, <1>2, <1>3, <2>1, UIAnswered
<1>4. CASE Call("work", UIFrame("replace", "peek")) /\ UNCHANGED haveWork
  <2> DEFINE f == UIFrame("replace", "peek")
  <2>1. f \in UIFrames /\ f.what = "replace" /\ f.at = "peek" /\ MessageOK(f)
    BY UIFrameType DEF UIPlaces
  <2>2. Call("work", f)
    BY <1>4
  <2> HIDE DEF f
  <2>3. UIStack(stack') /\ stack' # << >> /\ Last(stack') = f
    BY <1>1, <2>1, <2>2, UICalls DEF UIPlaces
  <2>4. Taken(stack') /\ ~Quiet(stack') /\ ~Timed(stack')
    BY <2>1, <2>3 DEF Taken, TakenAt, Quiet, QuietAt, Timed, TimedAt
  <2>5. UIMoves
    BY <1>2, <2>3, <2>4 DEF UIMoves
  <2>6. QED BY <1>1, <1>4, <2>5, UIStackOnly
<1>5. QED BY <1>1, <1>3, <1>4

LEMMA HandleWorkEndsStep ==
  ASSUME UIInv, HandleWorkEnds
  PROVE  UIInv'
<1>1. /\ UIStack(stack) /\ Running /\ Top.what = "handle" /\ Top.at = "done" /\ Return(TRUE)
      /\ UNCHANGED <<delayedTime, poster, incoming, workQueue, waiting, due, nestable>>
      /\ ScheduleWork \/ UNCHANGED <<haveWork, posted>>
  BY DEF UIInv, HandleWorkEnds, IsAt, taskVars, queueVars
<1>2. UIStack(stack') /\ ~Taken(stack') /\ ~Quiet(stack')
  BY <1>1, UIReturns
<1>3. ~Taken(stack)
  BY <1>1 DEF Taken, TakenAt, Top
<1>4. CASE ScheduleWork
  <2>1. UIWakeup' /\ haveWork' = TRUE /\ posted' \in Seq({"work", "input"})
    BY <1>1, <1>2, <1>3, <1>4, UIScheduled
  <2>2. UIQueues'
    BY <1>1, <2>1 DEF UIInv, UIQueues, QueuesOK, PosterTypes
  <2>3. QED BY <1>2, <2>1, <2>2, UILoud
<1>5. CASE UNCHANGED <<haveWork, posted>>
  <2>1. UIMoves
    BY <1>2, <1>3 DEF UIMoves, Quiet, Timed, QuietAt
  <2>2. QED BY <1>1, <1>5, <2>1, UIStackOnly
<1>6. QED BY <1>1, <1>4, <1>5

(* Code of the user, in a task or a window procedure.                         *)
LEMMA UserScheduleSteps ==
  ASSUME UIInv, SetNestableTasksAllowed \/ \E kind \in Kinds : UserPosts(kind)
  PROVE  UIInv'
<1>1. /\ UIStack(stack) /\ Running /\ Top.what \in {"task", "input"}
      /\ UNCHANGED <<stack, delayedTime, poster, workQueue, waiting, due>>
      /\ ScheduleWork \/ UNCHANGED <<haveWork, posted>>
  BY DEF UIInv, SetNestableTasksAllowed, UserPosts, InUserCode
<1>2. incoming' \in Seq(Kinds) /\ nestable' \in BOOLEAN
  <2>1. incoming \in Seq(Kinds) /\ nestable \in BOOLEAN
    BY DEF UIInv, UIQueues, QueuesOK
  <2>2. CASE SetNestableTasksAllowed
    BY <2>1, <2>2 DEF SetNestableTasksAllowed
  <2>3. CASE \E kind \in Kinds : UserPosts(kind)
    BY <2>1, <2>3 DEF UserPosts, Post
  <2>4. QED BY <2>2, <2>3
<1>3. UIStack(stack') /\ ~Quiet(stack') /\ (Taken(stack') <=> Taken(stack))
  BY <1>1 DEF Quiet, QuietAt, TimedAt, Top
<1>4. CASE ScheduleWork
  <2>1. UIWakeup' /\ haveWork' = TRUE /\ posted' \in Seq({"work", "input"})
    BY <1>1, <1>3, <1>4, UIScheduled
  <2>2. UIQueues'
    BY <1>1, <1>2, <2>1 DEF UIInv, UIQueues, QueuesOK, PosterTypes
  <2>3. QED BY <1>3, <2>1, <2>2, UILoud
<1>5. CASE UNCHANGED <<haveWork, posted>>
  <2>1. UIQueues'
    BY <1>1, <1>2, <1>5 DEF UIInv, UIQueues, QueuesOK, PosterTypes
  <2>2. UIWakeup'
    BY <1>1, <1>5 DEF UIInv, UIWakeup, OneSign, Places, Posting
  <2>3. QED BY <1>3, <2>1, <2>2, UILoud
<1>6. QED BY <1>1, <1>4, <1>5

LEMMA UserReturnsStep ==
  ASSUME UIInv, UserReturns
  PROVE  UIInv'
<1>1. /\ UIStack(stack) /\ Running /\ Top.what \in {"task", "input"} /\ Return(TRUE)
      /\ nestable' = (nestable \/ Top.what = "task")
      /\ UNCHANGED <<posted, haveWork, delayedTime, poster, incoming, workQueue, waiting, due>>
  BY DEF UIInv, UserReturns, InUserCode, messages
<1>2. UIStack(stack') /\ ~Taken(stack') /\ ~Quiet(stack')
  BY <1>1, UIReturns
<1>3. ~Taken(stack)
  BY <1>1 DEF Taken, TakenAt, Top
<1>4. UIQueues'
  BY <1>1 DEF UIInv, UIQueues, QueuesOK, PosterTypes
<1>5. UIWakeup'
  <2>1. OneSign(haveWork, "work", posted, poster, FALSE)
    BY <1>3 DEF UIInv, UIWakeup, OneSign
  <2>2. OneSign(haveWork', "work", posted', poster', Taken(stack'))
    BY <1>1, <1>2, <2>1 DEF OneSign, Places, Posting
  <2>3. QED BY <2>2 DEF UIWakeup
<1>6. QED BY <1>2, <1>4, <1>5, UILoud

(* The other threads, and what arrives.                                       *)
LEMMA UIPosterSteps ==
  ASSUME UIInv, NEW t \in Posters,
         \/ SetHaveWork(t) /\ UNCHANGED <<messages, nestable>>
         \/ PostWorkMessage(t)
         \/ (\E kind \in Kinds : PostTask(t, kind)) /\ UNCHANGED <<messages, nestable>>
  PROVE  UIInv'
<1>1. /\ UIQueues /\ haveWork \in BOOLEAN /\ posted \in Seq({"work", "input"}) /\ incoming \in Seq(Kinds)
      /\ poster \in [Posters -> {"idle", "schedule", "post"}]
  BY DEF UIInv, UIQueues, QueuesOK, PosterTypes
<1> DEFINE taken == Taken(stack)
<1>2. taken \in BOOLEAN /\ OneSign(haveWork, "work", posted, poster, taken)
  BY DEF UIInv, UIWakeup, Taken
<1>3. UNCHANGED stack => Taken(stack') = taken
  OBVIOUS
<1> HIDE DEF taken
<1>4. ASSUME SetHaveWork(t), UNCHANGED <<messages, nestable>> PROVE UIInv'
  <2>1. /\ UNCHANGED <<stack, posted, delayedTime, incoming, workQueue, waiting, due, nestable>>
        /\ poster[t] = "schedule" /\ haveWork' = TRUE
        /\ poster' = [poster EXCEPT ![t] = IF haveWork THEN "idle" ELSE "post"]
    BY <1>4 DEF SetHaveWork, queueVars, messages
  <2>2. /\ poster' \in [Posters -> {"idle", "schedule", "post"}]
        /\ (poster'[t] = "post" <=> ~haveWork) /\ \A u \in Posters : u # t => poster'[u] = poster[u]
    BY <1>1, <2>1
  <2>3. OneSign(TRUE, "work", posted, poster', taken)
    <3> DEFINE q == poster'
    <3>1. poster[t] # "post" /\ (q[t] = "post" <=> ~haveWork) /\ \A u \in Posters : u # t => q[u] = poster[u]
      BY <2>1, <2>2
    <3> HIDE DEF q
    <3>2. OneSign(TRUE, "work", posted, q, taken)
      BY <1>1, <1>2, <3>1, PosterSigns
    <3>3. QED BY <3>2 DEF q
  <2>4. UIWakeup'
    BY <1>3, <2>1, <2>3 DEF UIWakeup, OneSign, Places, Posting
  <2>5. UIQueues'
    BY <1>1, <2>1, <2>2 DEF UIQueues, QueuesOK, PosterTypes
  <2>6. QED BY <2>1, <2>4, <2>5, UIStackStays DEF UICovered, UIDelayKnown
<1>5. ASSUME PostWorkMessage(t) PROVE UIInv'
  <2>1. /\ UNCHANGED <<stack, haveWork, delayedTime, incoming, workQueue, waiting, due, nestable>>
        /\ poster[t] = "post" /\ poster' = [poster EXCEPT ![t] = "idle"] /\ posted' = Append(posted, "work")
    BY <1>5 DEF PostWorkMessage, queueVars, taskVars
  <2>2. /\ poster' \in [Posters -> {"idle", "schedule", "post"}]
        /\ poster'[t] # "post" /\ \A u \in Posters : u # t => poster'[u] = poster[u]
    BY <1>1, <2>1
  <2>3. OneSign(haveWork, "work", Append(posted, "work"), poster', taken)
    BY <1>1, <1>2, <2>1, <2>2, PosterSends
  <2>4. UIWakeup'
    BY <1>3, <2>1, <2>3 DEF UIWakeup, OneSign, Places, Posting
  <2>5. UIQueues'
    BY <1>1, <2>1, <2>2 DEF UIQueues, QueuesOK, PosterTypes
  <2>6. UICovered => UICovered'
    BY <1>1, <2>1 DEF UICovered, Runnable
  <2>7. QED BY <2>1, <2>4, <2>5, <2>6, UIStackStays DEF UIDelayKnown
<1>6. ASSUME NEW kind \in Kinds, PostTask(t, kind), UNCHANGED <<messages, nestable>> PROVE UIInv'
  <2>1. /\ UNCHANGED <<stack, posted, haveWork, delayedTime, workQueue, waiting, due, nestable>>
        /\ poster[t] = "idle" /\ incoming' = Append(incoming, kind)
        /\ poster' = [poster EXCEPT ![t] = IF incoming = << >> THEN "schedule" ELSE "idle"]
    BY <1>6 DEF PostTask, Post, messages
  <2>2. /\ poster' \in [Posters -> {"idle", "schedule", "post"}]
        /\ poster'[t] # "post" /\ \A u \in Posters : u # t => poster'[u] = poster[u]
    BY <1>1, <2>1
  <2>3. OneSign(haveWork, "work", posted, poster', taken)
    BY <1>2, <2>1, <2>2, PosterElsewhere
  <2>4. UIWakeup'
    BY <1>3, <2>1, <2>3 DEF UIWakeup, OneSign, Places, Posting
  <2>5. UIQueues'
    BY <1>1, <2>1, <2>2 DEF UIQueues, QueuesOK, PosterTypes
  <2>6. UICovered => UICovered'
    <3>1. CASE incoming = << >>
      BY <1>1, <2>1, <3>1 DEF UICovered
    <3>2. CASE incoming # << >>
      BY <1>1, <2>1, <3>2 DEF UICovered, Runnable
    <3>3. QED BY <3>1, <3>2
  <2>7. QED BY <2>1, <2>4, <2>5, <2>6, UIStackStays DEF UIDelayKnown
<1>7. QED BY <1>4, <1>5, <1>6

LEMMA UIArrivals ==
  ASSUME UIInv, InputArrives \/ (TimePasses /\ UNCHANGED <<messages, nestable>>)
  PROVE  UIInv'
<1>1. UIQueues /\ posted \in Seq({"work", "input"}) /\ waiting \in Nat /\ due \in Nat
      /\ OneSign(haveWork, "work", posted, poster, Taken(stack))
  BY DEF UIInv, UIQueues, QueuesOK, UIWakeup
<1>2. CASE InputArrives
  <2>1. /\ UNCHANGED <<stack, haveWork, delayedTime, poster, incoming, workQueue, waiting, due, nestable>>
        /\ posted' = Append(posted, "input")
    BY <1>2 DEF InputArrives, taskVars, queueVars
  <2>2. OneSign(haveWork, "work", Append(posted, "input"), poster, Taken(stack))
    BY <1>1, OtherSent
  <2>3. UIWakeup'
    BY <2>1, <2>2 DEF UIWakeup, OneSign, Places, Posting
  <2>4. UIQueues'
    BY <1>1, <2>1 DEF UIQueues, QueuesOK, PosterTypes
  <2>5. QED BY <2>1, <2>3, <2>4, UIStackStays DEF UICovered, UIDelayKnown, Runnable
<1>3. CASE TimePasses /\ UNCHANGED <<messages, nestable>>
  <2>1. /\ UNCHANGED <<stack, posted, haveWork, poster, incoming, workQueue, nestable>>
        /\ waiting > 0 /\ waiting' = waiting - 1 /\ due' = due + 1
        /\ delayedTime' = IF delayedTime = "future" THEN "past" ELSE delayedTime
    BY <1>3 DEF TimePasses, messages
  <2>2. UIQueues'
    BY <1>1, <2>1 DEF UIQueues, QueuesOK, PosterTypes
  <2>3. UIWakeup'
    BY <2>1 DEF UIInv, UIWakeup, OneSign, Places, Posting
  <2>4. UIDelayKnown => UIDelayKnown'
    BY <1>1, <2>1 DEF UIDelayKnown
  <2>5. QED BY <2>1, <2>2, <2>3, <2>4, UIStackStays DEF UICovered, Runnable
<1>4. QED BY <1>2, <1>3

(* The steps that look for tasks.                                             *)
LEMMA DoWorkEffect ==
  ASSUME UIQueues, NEW at, DoWork(at)
  PROVE  /\ workQueue' \in Seq(Kinds) /\ incoming' \in Seq(Kinds) /\ waiting' \in Nat /\ due' \in Nat
         /\ nestable' \in BOOLEAN
         /\ \/ Call(at, UIFrame("task", "on"))
            \/ GoTo(at) /\ (nestable' => workQueue' = << >> /\ incoming' = << >>)
<1>1. /\ QueuesOK /\ incoming \in Seq(Kinds) /\ workQueue \in Seq(Kinds) /\ waiting \in Nat /\ due \in Nat
      /\ nestable \in BOOLEAN
  BY DEF UIQueues, QueuesOK
<1>2. /\ Worked.work \in Seq(Kinds) /\ Worked.arrived \in Seq(Kinds)
      /\ Worked.moved \in Nat /\ Worked.ran \in BOOLEAN
      /\ ~Worked.ran => Worked.work = << >> /\ Worked.arrived = << >>
  BY <1>1, WorkedLeaves
<1>3. CASE nestable
  <2>1. /\ workQueue' = Worked.work /\ incoming' = Worked.arrived /\ waiting' = waiting + Worked.moved
        /\ nestable' = ~Worked.ran /\ due' = due
        /\ IF Worked.ran THEN Call(at, UIFrame("task", "on")) ELSE GoTo(at)
    BY <1>3 DEF DoWork
  <2>2. QED BY <1>1, <1>2, <2>1
<1>4. CASE ~nestable
  <2>1. /\ workQueue' = workQueue /\ incoming' = incoming /\ waiting' = waiting + 0
        /\ nestable' = FALSE /\ due' = due /\ GoTo(at)
    BY <1>4 DEF DoWork
  <2>2. waiting' \in Nat /\ due' \in Nat
    BY <1>1, <2>1
  <2>3. workQueue' \in Seq(Kinds) /\ incoming' \in Seq(Kinds) /\ nestable' = FALSE /\ GoTo(at)
    BY <1>1, <2>1, Zenon
  <2>4. QED BY <2>2, <2>3, Zenon
<1>5. QED BY <1>3, <1>4

LEMMA UIWakeupStays ==
  ASSUME UIInv, ~Taken(stack), ~Taken(stack'), UNCHANGED <<posted, haveWork, poster>>
  PROVE  UIWakeup'
<1>1. OneSign(haveWork, "work", posted, poster, FALSE)
  BY DEF UIInv, UIWakeup, OneSign
<1>2. OneSign(haveWork', "work", posted', poster', Taken(stack'))
  BY <1>1 DEF OneSign, Places, Posting
<1>3. QED BY <1>2 DEF UIWakeup

(* A task is called, by a loop or by a window procedure.                      *)
LEMMA TaskCalled ==
  ASSUME UIStack(stack), Running, NEW at \in {"delayed", "kill", "done"},
         (Top.what = "run" /\ at # "done") \/ (Top.what \in {"handle", "timer"} /\ at = "done"),
         Call(at, UIFrame("task", "on"))
  PROVE  UIStack(stack') /\ ~Taken(stack') /\ ~Quiet(stack')
<1> DEFINE f == UIFrame("task", "on")
<1>1. f \in UIFrames /\ f.what = "task" /\ MessageOK(f)
  BY UIFrameType DEF UIPlaces
<1>2. Call(at, f)
  OBVIOUS
<1> HIDE DEF f
<1>3. UIStack(stack') /\ stack' # << >> /\ Last(stack') = f
  BY <1>1, <1>2, UICalls DEF UIPlaces
<1>4. QED BY <1>1, <1>3 DEF Taken, TakenAt, Quiet, QuietAt, TimedAt

LEMMA DoWorkSteps ==
  ASSUME UIInv, LoopDoWork \/ HandleWorkDoWork
  PROVE  UIInv'
<1>1. PICK at \in {"delayed", "done"} :
        /\ DoWork(at)
        /\ \/ Top.what = "run" /\ at = "delayed"
           \/ Top.what = "handle" /\ Top.at = "work" /\ at = "done"
  <2>1. CASE LoopDoWork
    <3>1. DoWork("delayed") /\ Top.what = "run"
      BY <2>1 DEF LoopDoWork, IsAt
    <3>2. QED BY <3>1
  <2>2. CASE HandleWorkDoWork
    <3>1. DoWork("done") /\ Top.what = "handle" /\ Top.at = "work"
      BY <2>2 DEF HandleWorkDoWork, IsAt
    <3>2. QED BY <3>1
  <2>3. QED BY <2>1, <2>2
<1>2. /\ UIStack(stack) /\ Running /\ UIQueues
      /\ UNCHANGED <<posted, haveWork, poster>>
  BY DEF UIInv, LoopDoWork, HandleWorkDoWork, IsAt
<1>3. ~Taken(stack)
  BY <1>1 DEF Taken, TakenAt, Top
<1>4. /\ workQueue' \in Seq(Kinds) /\ incoming' \in Seq(Kinds) /\ waiting' \in Nat /\ due' \in Nat
      /\ nestable' \in BOOLEAN
      /\ \/ Call(at, UIFrame("task", "on"))
         \/ GoTo(at) /\ (nestable' => workQueue' = << >> /\ incoming' = << >>)
  BY <1>1, <1>2, DoWorkEffect
<1>5. UIQueues'
  BY <1>2, <1>4 DEF UIQueues, QueuesOK, PosterTypes
<1>6. CASE Call(at, UIFrame("task", "on"))
  <2>1. UIStack(stack') /\ ~Taken(stack') /\ ~Quiet(stack')
    BY <1>1, <1>2, <1>6, TaskCalled
  <2>2. QED BY <1>2, <1>3, <1>5, <2>1, UIWakeupStays, UILoud
<1>7. CASE GoTo(at) /\ (nestable' => workQueue' = << >> /\ incoming' = << >>)
  <2>1. UIStack(stack') /\ stack' # << >> /\ Last(stack').what = Top.what /\ Last(stack').at = at
    BY <1>1, <1>2, <1>7, UIGoesOn DEF UIPlaces
  <2>2. ~Taken(stack') /\ ~Timed(stack')
    BY <1>1, <2>1 DEF Taken, TakenAt, Timed, TimedAt
  <2>3. UICovered'
    BY <1>7 DEF UICovered, Runnable
  <2>4. UIWakeup'
    BY <1>2, <1>3, <2>2, UIWakeupStays
  <2>5. QED BY <1>5, <2>1, <2>2, <2>3, <2>4 DEF UIInv, UIAlert, UITimed
<1>8. QED BY <1>4, <1>6, <1>7

LEMMA DelayedWorkSteps ==
  ASSUME UIInv, LoopDoDelayedWork \/ HandleTimer
  PROVE  UIInv'
<1>1. /\ UIStack(stack) /\ Running /\ UIQueues
      /\ UNCHANGED <<posted, haveWork, poster>>
  BY DEF UIInv, LoopDoDelayedWork, HandleTimer, IsAt, messages
<1>2. waiting \in Nat /\ due \in Nat /\ nestable \in BOOLEAN
  BY <1>1 DEF UIQueues, QueuesOK
<1>3. CASE HandleTimer /\ State = 0
  <2>1. UNCHANGED <<posted, haveWork, delayedTime, poster, incoming, workQueue, waiting, due, nestable>>
    BY <1>3 DEF HandleTimer
  <2>2. QED BY <1>1, <1>3, <2>1, ReturningMoves, UIStackOnly
<1>4. CASE LoopDoDelayedWork \/ (HandleTimer /\ State # 0)
  <2>1. PICK at \in {"kill", "done"} :
          /\ DoDelayedWork(at)
          /\ \/ Top.what = "run" /\ Top.at = "delayed" /\ at = "kill"
             \/ Top.what = "timer" /\ at = "done"
    BY <1>4 DEF LoopDoDelayedWork, HandleTimer, IsAt
  <2>2. ~Taken(stack)
    BY <2>1 DEF Taken, TakenAt, Top
  <2>3. CASE nestable /\ due > 0
    <3>1. /\ due' = due - 1 /\ nestable' = FALSE /\ Call(at, UIFrame("task", "on"))
          /\ UNCHANGED <<incoming, workQueue, waiting>>
      BY <2>1, <2>3 DEF DoDelayedWork
    <3>2. due' \in Nat /\ nestable' \in BOOLEAN
      <4>1. due' = due - 1 /\ nestable' = FALSE
        BY <3>1, Zenon
      <4>2. due \in Nat /\ due > 0
        BY <1>2, <2>3
      <4>3. \A n \in Nat : n > 0 => n - 1 \in Nat
        OBVIOUS
      <4>4. due - 1 \in Nat
        BY <4>2, <4>3
      <4>5. due' \in Nat
        BY <4>1, <4>4, Zenon
      <4>6. nestable' \in BOOLEAN
        BY <4>1, Zenon
      <4>7. QED BY <4>5, <4>6
    <3>3. UIQueues'
      BY <1>1, <3>1, <3>2 DEF UIQueues, QueuesOK, PosterTypes
    <3>4. /\ at \in {"delayed", "kill", "done"} /\ Call(at, UIFrame("task", "on"))
          /\ (Top.what = "run" /\ at # "done") \/ (Top.what \in {"handle", "timer"} /\ at = "done")
      <4>1. Call(at, UIFrame("task", "on"))
        BY <3>1
      <4>2. QED BY <2>1, <4>1
    <3>5. UIStack(stack') /\ ~Taken(stack') /\ ~Quiet(stack')
      BY <1>1, <3>4, TaskCalled
    <3>6. QED BY <1>1, <2>2, <3>3, <3>5, UIWakeupStays, UILoud
  <2>4. CASE ~(nestable /\ due > 0)
    <3>1. /\ UNCHANGED <<due, nestable, incoming, workQueue, waiting>> /\ GoTo(at)
          /\ delayedTime' = IF nestable THEN NextDelay ELSE "null"
      BY <1>2, <2>1, <2>4 DEF DoDelayedWork
    <3>2. UIQueues'
      BY <1>1, <3>1 DEF UIQueues, QueuesOK, PosterTypes
    <3>3. /\ UIStack(stack') /\ stack' # << >> /\ Last(stack').what = Top.what /\ Last(stack').at = at
          /\ Last(stack').more = Top.more
      BY <1>1, <2>1, <3>1, UIGoesOn DEF UIPlaces
    <3>4. ~Taken(stack')
      BY <2>1, <3>3 DEF Taken, TakenAt
    <3>5. UIWakeup'
      BY <1>1, <2>2, <3>4, UIWakeupStays
    <3>6. Quiet(stack') => Quiet(stack)
      BY <1>1, <2>1, <3>3 DEF Quiet, QuietAt, TimedAt, Running, Top
    <3>7. UIAlert'
      BY <1>1, <3>1, <3>6 DEF UIInv, UIAlert, UICovered, Runnable
    <3>8. UIDelayKnown'
      <4>1. nestable /\ waiting + due > 0 => NextDelay = "future"
        BY <1>2, <2>4 DEF NextDelay
      <4>2. QED BY <3>1, <4>1 DEF UIDelayKnown
    <3>9. QED BY <3>2, <3>3, <3>5, <3>7, <3>8 DEF UIInv, UITimed
  <2>5. QED BY <2>3, <2>4
<1>5. QED BY <1>3, <1>4

LEMMA UIInvKept ==
  ASSUME UIInv,
         UNCHANGED <<stack, posted, haveWork, delayedTime, poster, incoming, workQueue, waiting, due, nestable>>
  PROVE  UIInv'
  BY UIStackOnly DEF UIMoves, UIInv

LEMMA UIInvStep ==
  ASSUME UIInv, [UINext]_uiVars
  PROVE  UIInv'
<1> DEFINE same == UNCHANGED <<posted, haveWork, delayedTime, poster, incoming, workQueue, waiting, due, nestable>>
<1>1. UIStack(stack)
  BY DEF UIInv
<1>2. CASE UNCHANGED uiVars \/ UserPostsQuit \/ TimerElapses
  <2>1. UNCHANGED stack /\ same
    BY <1>2 DEF UserPostsQuit, TimerElapses, uiVars, messages, taskVars, queueVars
  <2>2. QED BY <2>1, UIInvKept
<1>3. CASE UIRun \/ EarlyNativeLoop
  <2>1. same
    BY <1>3 DEF UIRun, EarlyNativeLoop, messages, taskVars, queueVars
  <2>2. QED BY <1>3, <2>1, UIFirstCalls, UIStackOnly
<1>4. CASE LoopKillTimer \/ LoopIdle \/ WaitForWork
  <2>1. same
    BY <1>4 DEF LoopKillTimer, LoopIdle, WaitForWork, messages, taskVars, queueVars
  <2>2. QED BY <1>1, <1>4, <2>1, LoopMoves, UIStackOnly
<1>5. CASE RunReturns \/ NativeLoopEnds \/ HandleTimerEnds
  <2>1. same
    BY <1>5 DEF RunReturns, NativeLoopEnds, HandleTimerEnds, messages, taskVars, queueVars
  <2>2. QED BY <1>1, <1>5, <2>1, ReturningMoves, UIStackOnly
<1>6. CASE UserCalls("native", "on") \/ UserCalls("run", "peek") \/ UserQuits
  <2>1. same
    BY <1>6 DEF UserCalls, UserQuits, messages, taskVars, queueVars
  <2>2. QED BY <1>1, <1>6, <2>1, UserMoves, UIStackOnly
<1>7. CASE ForgetReplacement \/ DispatchReplacement
  <2>1. same
    BY <1>7 DEF ForgetReplacement, DispatchReplacement, messages, taskVars, queueVars
  <2>2. QED BY <1>1, <1>7, <2>1, ForgetMoves, DispatchMoves, UIStackOnly
<1>8. CASE ProcessNextWindowsMessage \/ PeekReplacement \/ NativeLoop
  BY <1>8, ProcessNextStep, PeekStep, NativeLoopStep
<1>9. CASE ResetHaveWork \/ RescheduleWork \/ HandleWork \/ HandleWorkEnds
  BY <1>9, ResetStep, RescheduleStep, HandleWorkStep, HandleWorkEndsStep
<1>10. CASE LoopDoWork \/ HandleWorkDoWork \/ LoopDoDelayedWork \/ HandleTimer
  BY <1>10, DoWorkSteps, DelayedWorkSteps
<1>11. CASE UserReturns \/ SetNestableTasksAllowed \/ \E kind \in {"now", "later"} : UserPosts(kind)
  BY <1>11, UserReturnsStep, UserScheduleSteps DEF Kinds
<1>12. CASE \E t \in Posters : \/ PosterStep(t)
                               \/ (\E kind \in {"now", "later"} : PostTask(t, kind)) /\ UNCHANGED <<messages, nestable>>
  BY <1>12, UIPosterSteps DEF PosterStep, Kinds
<1>13. CASE InputArrives \/ (TimePasses /\ UNCHANGED <<messages, nestable>>)
  BY <1>13, UIArrivals
<1>14. QED BY <1>2, <1>3, <1>4, <1>5, <1>6, <1>7, <1>8, <1>9, <1>10, <1>11, <1>12, <1>13
          DEF UINext, PumpStep, UserStep

LEMMA UIInitInvariant ==
  ASSUME UIInit
  PROVE  UIInv
<1>1. /\ stack = << >> /\ haveWork = FALSE /\ delayedTime = "null"
      /\ poster = [t \in Posters |-> "idle"]
      /\ incoming = << >> /\ workQueue = << >> /\ waiting = 0 /\ due = 0
      /\ posted = << >> /\ nestable = TRUE
  BY DEF UIInit, PumpInit
<1>2. UIStack(stack) /\ ~Taken(stack) /\ ~Quiet(stack) /\ ~Timed(stack)
  BY <1>1 DEF UIStack, Taken, Quiet, Timed
<1>3. UIQueues
  <2>1. << >> \in Seq(Kinds) /\ << >> \in Seq({"work", "input"}) /\ poster \in [Posters -> {"idle", "schedule", "post"}]
    BY <1>1
  <2>2. QED BY <1>1, <2>1 DEF UIQueues, QueuesOK, PosterTypes
<1>4. Places("work", posted) = {} /\ Posting(poster) = {}
  BY <1>1 DEF Places, Posting
<1>5. UIWakeup
  BY <1>1, <1>2, <1>4 DEF UIWakeup, OneSign
<1>6. QED BY <1>2, <1>3, <1>5 DEF UIInv, UIAlert, UITimed

(* The invariant says what the property says.                                 *)
LEMMA TakenCounted ==
  ASSUME UIStack(stack)
  PROVE  Cardinality({k \in DOMAIN stack :
           \/ stack[k].what = "handle" /\ stack[k].at = "start"
           \/ stack[k].what = "replace" /\ stack[k].at \in {"peek", "reset"}})
           = IF Taken(stack) THEN 1 ELSE 0
<1> DEFINE T == {k \in DOMAIN stack :
                   \/ stack[k].what = "handle" /\ stack[k].at = "start"
                   \/ stack[k].what = "replace" /\ stack[k].at \in {"peek", "reset"}}
<1>1. CASE stack = << >>
  <2>1. T = {} /\ ~Taken(stack)
    BY <1>1 DEF Taken
  <2> HIDE DEF T
  <2>2. Cardinality(T) = 0
    BY <2>1, FS_EmptySet
  <2>3. QED BY <2>1, <2>2 DEF T
<1>2. CASE stack # << >>
  <2>1. /\ stack \in Seq(UIFrames) /\ Len(stack) \in Nat \ {0} /\ Last(stack) = stack[Len(stack)]
    BY <1>2, UITop
  <2>2. \A k \in 1..Len(stack) - 1 : ~TakenAt(stack[k])
    BY DEF UIStack, Below, TakenAt
  <2>3. T = {k \in 1..Len(stack) : TakenAt(stack[k])}
    BY <2>1 DEF TakenAt
  <2> HIDE DEF T
  <2>4. \A k \in 1..Len(stack) : k \in 1..Len(stack) - 1 \/ k = Len(stack)
    BY <2>1
  <2>5. Len(stack) \in 1..Len(stack)
    BY <2>1
  <2>6. CASE Taken(stack)
    <3>1. TakenAt(stack[Len(stack)])
      BY <2>1, <2>6 DEF Taken
    <3>2. T # {} /\ \A x, y \in T : x = y
      BY <2>2, <2>3, <2>4, <2>5, <3>1
    <3>3. Cardinality(T) = 1
      BY <3>2, Singleton
    <3>4. QED BY <2>6, <3>3 DEF T
  <2>7. CASE ~Taken(stack)
    <3>1. ~TakenAt(stack[Len(stack)])
      BY <1>2, <2>1, <2>7 DEF Taken
    <3>2. T = {}
      BY <2>2, <2>3, <2>4, <3>1
    <3>3. Cardinality(T) = 0
      BY <3>2, FS_EmptySet
    <3>4. QED BY <2>7, <3>3 DEF T
  <2>8. QED BY <2>6, <2>7
<1>3. QED BY <1>1, <1>2

LEMMA WakeupsAreSound ==
  ASSUME UIInv
  PROVE  WakeupsSound
<1>1. /\ haveWork \in BOOLEAN /\ UIStack(stack) /\ UIAlert /\ UITimed
      /\ OneSign(haveWork, "work", posted, poster, Taken(stack))
      /\ poster \in [Posters -> {"idle", "schedule", "post"}] /\ posted \in Seq({"work", "input"})
  BY DEF UIInv, UIQueues, PosterTypes, UIWakeup
<1>2. OneWorkMessage
  <2> DEFINE taken == Taken(stack)
             n == Cardinality({k \in DOMAIN stack :
                    \/ stack[k].what = "handle" /\ stack[k].at = "start"
                    \/ stack[k].what = "replace" /\ stack[k].at \in {"peek", "reset"}})
  <2>1. n = IF taken THEN 1 ELSE 0
    BY <1>1, TakenCounted
  <2>2. WorkMessages = Cardinality({k \in DOMAIN posted : posted[k] = "work"})
                         + Cardinality({t \in Posters : poster[t] = "post"}) + n
    BY DEF WorkMessages
  <2>3. taken \in BOOLEAN /\ OneSign(haveWork, "work", posted, poster, taken)
    BY <1>1 DEF Taken
  <2> HIDE DEF taken, n
  <2>4. WorkMessages = Cardinality(Places("work", posted)) + Cardinality(Posting(poster))
                         + (IF taken THEN 1 ELSE 0)
    BY <2>1, <2>2 DEF Places, Posting
  <2>5. Cardinality(Places("work", posted)) + Cardinality(Posting(poster)) + (IF taken THEN 1 ELSE 0)
          = IF haveWork THEN 1 ELSE 0
    BY <1>1, <2>3, SignCounted
  <2>6. QED BY <2>4, <2>5 DEF OneWorkMessage
<1>3. ASSUME IsAt("run", "wait")
      PROVE  /\ Runnable => Notified
             /\ nestable /\ waiting + due > 0 => delayedTime # "null"
  <2>1. stack # << >> /\ Last(stack).what = "run" /\ Last(stack).at = "wait"
    BY <1>3 DEF IsAt, Running, Top
  <2>2. Quiet(stack) /\ Timed(stack) /\ ~Taken(stack)
    BY <2>1 DEF Quiet, QuietAt, Timed, TimedAt, Taken, TakenAt
  <2>3. haveWork => Places("work", posted) # {} \/ Posting(poster) # {}
    BY <1>1, <2>2 DEF OneSign
  <2>4. Places("work", posted) # {} => Contains(posted, "work")
    BY <1>1 DEF Places, Contains
  <2>5. Posting(poster) # {} => \E t \in Posters : poster[t] # "idle"
    BY DEF Posting
  <2>6. (\E t \in Posters : poster[t] = "schedule") => \E t \in Posters : poster[t] # "idle"
    OBVIOUS
  <2>7. Runnable => Notified
    BY <1>1, <2>2, <2>3, <2>4, <2>5, <2>6 DEF UIAlert, UICovered, Notified
  <2>8. QED BY <1>1, <2>2, <2>7 DEF UITimed, UIDelayKnown
<1>4. QED BY <1>2, <1>3 DEF WakeupsSound, NoTaskLeftWaiting

(* At most one kMsgHaveWork stands for the flag have_work_, wherever it is,   *)
(* and no loop of MessagePumpForUI waits with work in its queues and nothing *)
(* on its way to wake it, nor with delayed work and no time to look at it    *)
(* (ScheduleWork, ProcessPumpReplacementMessage, HandleWorkMessage, DoRunLoop).*)
THEOREM WakeupsStaySound == UISpec => []WakeupsSound
<1>1. UIInit => UIInv
  BY UIInitInvariant
<1>2. UIInv /\ [UINext]_uiVars => UIInv'
  BY UIInvStep
<1>3. UIInv => WakeupsSound
  BY WakeupsAreSound
<1>4. QED BY <1>1, <1>2, <1>3, PTL DEF UISpec

-----------------------------------------------------------------------------
(* MessagePumpForIO.  Its stack: DoRunLoop is the outermost frame and only    *)
(* that, and what waits calls nobody.                                        *)
IOPlaces ==
  {"work", "io", "delayed", "decide", "sleep", "over", "on", "poll", "delay", "forever", "reset"}
IOFrames ==
  [what : {"run", "wait", "task", "callback", "destroy"}, at : IOPlaces,
   of : Files \cup {NoFile}, more : BOOLEAN, quit : BOOLEAN]

IOStack(s) ==
  /\ s \in Seq(IOFrames)
  /\ \A k \in 1..Len(s) :
       /\ s[k].what = "run" <=> k = 1
       /\ s[k].what = "wait" => k = Len(s)
       /\ s[k].what = "wait" /\ s[k].at \in {"poll", "delay"} => k = 2
       /\ s[k].what = "destroy" => k > 2 /\ s[k].of \in WaitingFiles
  /\ Len(s) > 1 => s[1].at # "sleep"

(* The loop has looked at all queues since the last call that may have left   *)
(* something in them.                                                        *)
IOResting(s) ==
  \/ Len(s) = 1 /\ s[1].at \in {"io", "delayed", "decide"} /\ ~s[1].more
  \/ Len(s) = 1 /\ s[1].at = "sleep"
  \/ Len(s) = 2 /\ s[2].what = "wait" /\ s[2].at = "poll" /\ ~s[1].more
  \/ Len(s) = 2 /\ s[2].what = "wait" /\ s[2].at = "delay"

Completions == [of : Files, n : Nat \ {0}]
ItemTypes == saved \in Seq(Completions) /\ port \in Seq(Completions \cup {Internal})

WakesUp == incoming # << >> => haveWork \/ \E t \in Posters : poster[t] = "schedule"
DelayKnown == waiting + due > 0 => delayedTime # "null"

IOQueues == QueuesOK /\ PosterTypes /\ haveWork \in BOOLEAN
IOWakeup == OneSign(haveWork, Internal, port, poster, IsAt("wait", "reset"))
IOAlert == IOResting(stack) => workQueue = << >> /\ WakesUp

IOInv == IOStack(stack) /\ IOQueues /\ IOWakeup /\ DelayKnown /\ IOAlert

LEMMA IOFrameType ==
  ASSUME NEW what \in {"run", "wait", "task", "callback", "destroy"}, NEW at \in IOPlaces,
         NEW of \in Files \cup {NoFile}
  PROVE  /\ IOFrame(what, at, of) \in IOFrames
         /\ IOFrame(what, at, of).what = what /\ IOFrame(what, at, of).at = at
         /\ IOFrame(what, at, of).of = of
         /\ ~IOFrame(what, at, of).more /\ ~IOFrame(what, at, of).quit
  BY DEF IOFrame, IOFrames

LEMMA IOGoing ==
  ASSUME NEW s, IOStack(s), s # << >>, NEW at \in IOPlaces, Last(s).what = "wait" => at = "reset"
  PROVE  /\ IOStack(Goes(s, at)) /\ Len(Goes(s, at)) = Len(s)
         /\ \A k \in 1..Len(s) : /\ Goes(s, at)[k].what = s[k].what /\ Goes(s, at)[k].more = s[k].more
                                 /\ Goes(s, at)[k].at = IF k = Len(s) THEN at ELSE s[k].at
<1> DEFINE r == Goes(s, at)
           e == [Last(s) EXCEPT !.at = at]
<1>1. s \in Seq(IOFrames)
  BY DEF IOStack
<1>2. /\ Len(s) \in Nat \ {0} /\ Len(s) \in 1..Len(s) /\ Last(s) = s[Len(s)] /\ Last(s) \in IOFrames
      /\ \A k \in 1..Len(s) : s[k] \in IOFrames
  BY <1>1, Ends
<1>3. /\ e \in IOFrames /\ e.what = Last(s).what /\ e.at = at /\ e.of = Last(s).of
      /\ e.more = Last(s).more
  BY <1>2 DEF IOFrames
<1>4. /\ r \in Seq(IOFrames) /\ Len(r) = Len(s)
      /\ \A k \in 1..Len(s) : r[k] = IF k = Len(s) THEN e ELSE s[k]
  BY <1>1, <1>3, Going
<1> HIDE DEF r, e
<1>5. \A k \in 1..Len(s) : /\ r[k].what = s[k].what /\ r[k].more = s[k].more /\ r[k].of = s[k].of
                           /\ r[k].at = IF k = Len(s) THEN at ELSE s[k].at
  BY <1>2, <1>3, <1>4
<1>6. IOStack(r)
  <2>1. \A k \in 1..Len(s) :
          /\ s[k].what = "run" <=> k = 1
          /\ s[k].what = "wait" => k = Len(s)
          /\ s[k].what = "wait" /\ s[k].at \in {"poll", "delay"} => k = 2
          /\ s[k].what = "destroy" => k > 2 /\ s[k].of \in WaitingFiles
    BY DEF IOStack
  <2>2. \A k \in 1..Len(r) :
          /\ r[k].what = "run" <=> k = 1
          /\ r[k].what = "wait" => k = Len(r)
          /\ r[k].what = "wait" /\ r[k].at \in {"poll", "delay"} => k = 2
          /\ r[k].what = "destroy" => k > 2 /\ r[k].of \in WaitingFiles
    BY <1>2, <1>4, <1>5, <2>1
  <2>3. Len(r) > 1 => r[1].at # "sleep"
    <3>1. Len(s) > 1 => s[1].at # "sleep"
      BY DEF IOStack
    <3>2. QED BY <1>2, <1>4, <1>5, <3>1
  <2>4. QED BY <1>4, <2>2, <2>3 DEF IOStack
<1>7. QED BY <1>4, <1>5, <1>6 DEF r

LEMMA IOCalling ==
  ASSUME NEW s, IOStack(s), s # << >>, NEW at \in IOPlaces, NEW f \in IOFrames,
         Last(s).what # "wait", at # "sleep", f.what # "run",
         f.what = "wait" /\ f.at \in {"poll", "delay"} => Len(s) = 1,
         f.what = "destroy" => Len(s) > 1 /\ f.of \in WaitingFiles
  PROVE  LET r == Append(Goes(s, at), f)
         IN  /\ IOStack(r) /\ Len(r) = Len(s) + 1 /\ r[Len(r)] = f
             /\ \A k \in 1..Len(s) : /\ r[k].what = s[k].what /\ r[k].more = s[k].more
                                     /\ r[k].at = IF k = Len(s) THEN at ELSE s[k].at
<1> DEFINE r == Append(Goes(s, at), f)
           e == [Last(s) EXCEPT !.at = at]
<1>1. s \in Seq(IOFrames)
  BY DEF IOStack
<1>2. /\ Len(s) \in Nat \ {0} /\ Len(s) \in 1..Len(s) /\ Last(s) = s[Len(s)] /\ Last(s) \in IOFrames
      /\ \A k \in 1..Len(s) : s[k] \in IOFrames
  BY <1>1, Ends
<1>3. /\ e \in IOFrames /\ e.what = Last(s).what /\ e.at = at /\ e.of = Last(s).of
      /\ e.more = Last(s).more
  BY <1>2 DEF IOFrames
<1>4. /\ r \in Seq(IOFrames) /\ Len(r) = Len(s) + 1 /\ r[Len(s) + 1] = f
      /\ \A k \in 1..Len(s) : r[k] = IF k = Len(s) THEN e ELSE s[k]
  BY <1>1, <1>3, Calling
<1> HIDE DEF r, e
<1>5. \A k \in 1..Len(s) : /\ r[k].what = s[k].what /\ r[k].more = s[k].more /\ r[k].of = s[k].of
                           /\ r[k].at = IF k = Len(s) THEN at ELSE s[k].at
  BY <1>2, <1>3, <1>4
<1>6. IOStack(r)
  <2>1. \A k \in 1..Len(s) :
          /\ s[k].what = "run" <=> k = 1
          /\ s[k].what = "wait" => k = Len(s)
          /\ s[k].what = "wait" /\ s[k].at \in {"poll", "delay"} => k = 2
          /\ s[k].what = "destroy" => k > 2 /\ s[k].of \in WaitingFiles
    BY DEF IOStack
  <2>2. \A k \in 1..Len(s) : s[k].what # "wait"
    BY <1>2, <2>1
  <2>3. \A k \in 1..Len(r) : k \in 1..Len(s) \/ k = Len(s) + 1
    BY <1>2, <1>4
  <2>4. ASSUME NEW k \in 1..Len(r)
        PROVE  /\ r[k].what = "run" <=> k = 1
               /\ r[k].what = "wait" => k = Len(r)
               /\ r[k].what = "wait" /\ r[k].at \in {"poll", "delay"} => k = 2
               /\ r[k].what = "destroy" => k > 2 /\ r[k].of \in WaitingFiles
    <3>1. CASE k \in 1..Len(s)
      BY <1>5, <2>1, <2>2, <3>1
    <3>2. CASE k = Len(s) + 1
      BY <1>2, <1>4, <3>2
    <3>3. QED BY <2>3, <3>1, <3>2
  <2>5. r[1].at # "sleep"
    <3>1. Len(s) > 1 => s[1].at # "sleep"
      BY DEF IOStack
    <3>2. QED BY <1>2, <1>5, <3>1
  <2>6. QED BY <1>4, <2>4, <2>5 DEF IOStack
<1>7. QED BY <1>2, <1>4, <1>5, <1>6 DEF r

LEMMA IOPopping ==
  ASSUME NEW s, IOStack(s), s # << >>, NEW b \in BOOLEAN
  PROVE  /\ IOStack(Popped(s, b)) /\ Len(Popped(s, b)) = Len(s) - 1
         /\ \A k \in 1..Len(s) - 1 :
              /\ Popped(s, b)[k].what = s[k].what /\ Popped(s, b)[k].at = s[k].at
              /\ Popped(s, b)[k].more = (s[k].more \/ (b /\ k = Len(s) - 1))
<1> DEFINE r == Popped(s, b)
           e(k) == [s[k] EXCEPT !.more = @ \/ b]
<1>1. s \in Seq(IOFrames)
  BY DEF IOStack
<1>2. /\ Len(s) \in Nat \ {0} /\ \A k \in 1..Len(s) : s[k] \in IOFrames
  BY <1>1, Ends
<1>3. \A k \in 1..Len(s) :
         /\ e(k) \in IOFrames /\ e(k).what = s[k].what /\ e(k).at = s[k].at /\ e(k).of = s[k].of
  BY <1>2 DEF IOFrames
<1>4. \A k \in 1..Len(s) : e(k).more = (s[k].more \/ b) /\ s[k].more \in BOOLEAN
  BY <1>2 DEF IOFrames
<1>5. Len(s) > 1 => e(Len(s) - 1) \in IOFrames
  BY <1>2, <1>3
<1>6. /\ r \in Seq(IOFrames) /\ Len(r) = Len(s) - 1
      /\ \A k \in 1..Len(s) - 1 : r[k] = IF k = Len(s) - 1 THEN e(k) ELSE s[k]
  BY <1>1, <1>5, Popping
<1> HIDE DEF r, e
<1>7. \A k \in 1..Len(s) - 1 : k \in 1..Len(s)
  BY <1>2
<1>8. \A k \in 1..Len(s) - 1 : r[k].what = s[k].what /\ r[k].at = s[k].at /\ r[k].of = s[k].of
  BY <1>3, <1>6, <1>7
<1>9. \A k \in 1..Len(s) - 1 : r[k].more = (s[k].more \/ (b /\ k = Len(s) - 1))
  BY <1>4, <1>6, <1>7
<1>10. IOStack(r)
  <2>1. \A k \in 1..Len(s) :
          /\ s[k].what = "run" <=> k = 1
          /\ s[k].what = "wait" => k = Len(s)
          /\ s[k].what = "destroy" => k > 2 /\ s[k].of \in WaitingFiles
    BY DEF IOStack
  <2>2. \A k \in 1..Len(r) : k \in 1..Len(s) /\ k # Len(s)
    BY <1>2, <1>6
  <2>3. \A k \in 1..Len(r) :
          /\ r[k].what = "run" <=> k = 1
          /\ r[k].what # "wait"
          /\ r[k].what = "destroy" => k > 2 /\ r[k].of \in WaitingFiles
    BY <1>6, <1>8, <2>1, <2>2
  <2>4. Len(r) > 1 => r[1].at # "sleep"
    <3>1. Len(s) > 1 => s[1].at # "sleep"
      BY DEF IOStack
    <3>2. QED BY <1>2, <1>6, <1>8, <3>1
  <2>5. QED BY <1>6, <2>3, <2>4 DEF IOStack
<1>11. QED BY <1>6, <1>8, <1>9, <1>10 DEF r

(* The frame of a wait becomes that of the callback.                          *)
LEMMA IOReplacing ==
  ASSUME NEW s, IOStack(s), s # << >>, NEW f \in IOFrames, f.what = "callback", Last(s).what = "wait"
  PROVE  LET r == Append(Front(s), f)
         IN  IOStack(r) /\ Len(r) = Len(s) /\ Len(s) > 1 /\ r[Len(r)] = f
<1> DEFINE r == Append(Front(s), f)
<1>1. s \in Seq(IOFrames)
  BY DEF IOStack
<1>2. Len(s) \in Nat \ {0} /\ Len(s) \in 1..Len(s) /\ Last(s) = s[Len(s)]
  BY <1>1, Ends
<1>3. /\ r \in Seq(IOFrames) /\ Len(r) = Len(s) /\ r[Len(s)] = f
      /\ \A k \in 1..Len(s) : k # Len(s) => r[k] = s[k]
  BY <1>1, Replacing
<1> HIDE DEF r
<1>4. \A k \in 1..Len(s) :
        /\ s[k].what = "run" <=> k = 1
        /\ s[k].what = "wait" => k = Len(s)
        /\ s[k].what = "destroy" => k > 2 /\ s[k].of \in WaitingFiles
  BY DEF IOStack
<1>5. Len(s) > 1
  BY <1>2, <1>4
<1>6. \A k \in 1..Len(r) :
        /\ r[k].what = "run" <=> k = 1
        /\ r[k].what # "wait"
        /\ r[k].what = "destroy" => k > 2 /\ r[k].of \in WaitingFiles
  <2>1. SUFFICES ASSUME NEW k \in 1..Len(s)
                 PROVE  /\ r[k].what = "run" <=> k = 1
                        /\ r[k].what # "wait"
                        /\ r[k].what = "destroy" => k > 2 /\ r[k].of \in WaitingFiles
    BY <1>3
  <2>2. CASE k = Len(s)
    BY <1>3, <1>5, <2>2
  <2>3. CASE k # Len(s)
    BY <1>3, <1>4, <2>3
  <2>4. QED BY <2>2, <2>3
<1>7. r[1].at # "sleep"
  <2>1. s[1].at # "sleep" /\ 1 \in 1..Len(s) /\ 1 # Len(s)
    BY <1>2, <1>5 DEF IOStack
  <2>2. QED BY <1>3, <2>1
<1>8. QED BY <1>3, <1>5, <1>6, <1>7 DEF r, IOStack

(* What the three ways to change the stack do to the frame on top, and to the *)
(* loop's rest.                                                              *)
LEMMA TopOfStack ==
  ASSUME NEW s, IOStack(s), s # << >>
  PROVE  /\ Len(s) \in Nat \ {0} /\ Last(s) = s[Len(s)] /\ Last(s) \in IOFrames
         /\ Last(s).what = "run" <=> Len(s) = 1
         /\ Last(s).what = "wait" /\ Last(s).at \in {"poll", "delay"} => Len(s) = 2
         /\ Last(s).what = "destroy" => Len(s) > 2 /\ Last(s).of \in WaitingFiles
<1>1. s \in Seq(IOFrames)
  BY DEF IOStack
<1>2. Len(s) \in Nat \ {0} /\ Len(s) \in 1..Len(s) /\ Last(s) = s[Len(s)] /\ Last(s) \in IOFrames
  BY <1>1, Ends
<1>3. QED BY <1>2 DEF IOStack

LEMMA IOGoesOn ==
  ASSUME IOStack(stack), Running, NEW at \in IOPlaces, GoTo(at), Top.what = "wait" => at = "reset"
  PROVE  /\ IOStack(stack') /\ Running'
         /\ IsAt("wait", "reset")' <=> Top.what = "wait" /\ at = "reset"
         /\ IOResting(stack') =>
              Top.what = "run" /\ ((at \in {"io", "delayed", "decide"} /\ ~Top.more) \/ at = "sleep")
<1> DEFINE r == Goes(stack, at)
<1>1. stack' = r /\ stack # << >> /\ Top = Last(stack)
  BY DEF GoTo, Running, Top
<1>2. /\ Len(stack) \in Nat \ {0} /\ Last(stack) = stack[Len(stack)]
      /\ Last(stack).what = "run" <=> Len(stack) = 1
  BY <1>1, TopOfStack
<1>3. /\ IOStack(r) /\ Len(r) = Len(stack)
      /\ \A k \in 1..Len(stack) : /\ r[k].what = stack[k].what /\ r[k].more = stack[k].more
                                  /\ r[k].at = IF k = Len(stack) THEN at ELSE stack[k].at
  BY <1>1, IOGoing
<1> HIDE DEF r
<1>4. r # << >> /\ Last(r) = r[Len(stack)]
  BY <1>2, <1>3 DEF Last
<1>5. Len(stack) \in 1..Len(stack)
  BY <1>2
<1>6. Last(r).what = Top.what /\ Last(r).at = at /\ Last(r).more = Top.more
  BY <1>1, <1>2, <1>3, <1>4, <1>5
<1>7. IsAt("wait", "reset")' <=> Top.what = "wait" /\ at = "reset"
  BY <1>1, <1>4, <1>6 DEF IsAt, Running, Top
<1>8. ASSUME IOResting(r)
      PROVE  Top.what = "run" /\ ((at \in {"io", "delayed", "decide"} /\ ~Top.more) \/ at = "sleep")
  <2>1. CASE Len(r) = 1
    BY <1>1, <1>2, <1>3, <1>4, <1>6, <1>8, <2>1 DEF IOResting
  <2>2. CASE Len(r) = 2
    <3>1. Last(r) = r[2]
      BY <1>3, <1>4, <2>2
    <3>2. QED BY <1>1, <1>6, <1>8, <2>2, <3>1 DEF IOResting
  <2>3. QED BY <1>8, <2>1, <2>2 DEF IOResting
<1>9. QED BY <1>1, <1>3, <1>4, <1>7, <1>8 DEF Running

LEMMA IOCalls ==
  ASSUME IOStack(stack), Running, NEW at \in IOPlaces, NEW f \in IOFrames, Call(at, f),
         Top.what # "wait", at # "sleep", f.what # "run", f.at # "reset",
         f.what = "wait" /\ f.at \in {"poll", "delay"} => Top.what = "run",
         f.what = "destroy" => Top.what # "run" /\ f.of \in WaitingFiles
  PROVE  /\ IOStack(stack') /\ Running' /\ ~IsAt("wait", "reset")'
         /\ IOResting(stack') => f.what = "wait" /\ (f.at = "poll" => ~Top.more)
<1> DEFINE r == Append(Goes(stack, at), f)
<1>1. stack' = r /\ stack # << >> /\ Top = Last(stack)
  BY DEF Call, Running, Top
<1>2. /\ Len(stack) \in Nat \ {0} /\ Last(stack) = stack[Len(stack)]
      /\ Last(stack).what = "run" <=> Len(stack) = 1
  BY <1>1, TopOfStack
<1>3. Len(stack) = 1 \/ Len(stack) > 1
  <2>1. Len(stack) \in Nat \ {0}
    BY <1>1, TopOfStack
  <2>2. \A n \in Nat \ {0} : n = 1 \/ n > 1
    OBVIOUS
  <2>3. QED BY <2>1, <2>2
<1>4. /\ IOStack(r) /\ Len(r) = Len(stack) + 1 /\ r[Len(r)] = f
      /\ \A k \in 1..Len(stack) : /\ r[k].what = stack[k].what /\ r[k].more = stack[k].more
                                  /\ r[k].at = IF k = Len(stack) THEN at ELSE stack[k].at
  BY <1>1, <1>2, <1>3, IOCalling
<1> HIDE DEF r
<1>5. r # << >> /\ Last(r) = f
  BY <1>2, <1>4 DEF Last
<1>6. ~IsAt("wait", "reset")'
  BY <1>1, <1>5 DEF IsAt, Running, Top
<1>7. ASSUME IOResting(r) PROVE f.what = "wait" /\ (f.at = "poll" => ~Top.more)
  <2>1. Len(r) = 2 /\ r[2] = f /\ Len(stack) = 1 /\ r[1].more = Top.more
    BY <1>1, <1>2, <1>4, <1>7 DEF IOResting
  <2>2. QED BY <1>7, <2>1 DEF IOResting
<1>8. QED BY <1>1, <1>4, <1>5, <1>6, <1>7 DEF Running

LEMMA IOReturning ==
  ASSUME IOStack(stack), Running, NEW b \in BOOLEAN, Return(b),
         ~b => \/ Top.what = "destroy"
               \/ Top.what = "wait" /\ Top.at \in {"poll", "delay"}
  PROVE  /\ IOStack(stack') /\ ~IsAt("wait", "reset")'
         /\ IOResting(stack') => ~b /\ IOResting(stack)
<1> DEFINE r == Popped(stack, b)
<1>1. stack' = r /\ stack # << >> /\ Top = Last(stack)
  BY DEF Return, Running, Top
<1>2. /\ Len(stack) \in Nat \ {0} /\ Last(stack) = stack[Len(stack)]
      /\ Last(stack).what = "wait" /\ Last(stack).at \in {"poll", "delay"} => Len(stack) = 2
      /\ Last(stack).what = "destroy" => Len(stack) > 2
  BY <1>1, TopOfStack
<1>3. /\ IOStack(r) /\ Len(r) = Len(stack) - 1
      /\ \A k \in 1..Len(stack) - 1 :
           /\ r[k].what = stack[k].what /\ r[k].at = stack[k].at
           /\ r[k].more = (stack[k].more \/ (b /\ k = Len(stack) - 1))
  BY <1>1, IOPopping
<1> HIDE DEF r
<1>4. \A k \in 1..Len(stack) - 1 : k \in 1..Len(stack) /\ k # Len(stack) /\ stack[k].what # "wait"
  BY <1>2 DEF IOStack
<1>5. ~IsAt("wait", "reset")'
  <2>1. CASE r = << >>
    BY <1>1, <2>1 DEF IsAt, Running
  <2>2. CASE r # << >>
    <3>1. Len(r) \in 1..Len(stack) - 1 /\ Last(r) = r[Len(r)]
      BY <1>2, <1>3, <2>2, TopOfStack
    <3>2. QED BY <1>1, <1>3, <1>4, <3>1 DEF IsAt, Top
  <2>3. QED BY <2>1, <2>2
<1>6. ASSUME IOResting(r) PROVE ~b /\ IOResting(stack)
  <2>1. CASE Len(r) = 1
    <3>1. Len(stack) = 2 /\ 1 \in 1..Len(stack) - 1 /\ stack[1].at # "sleep"
      <4>1. \A n \in Nat \ {0} : n - 1 = 1 => n = 2 /\ 1 \in 1..n - 1 /\ n > 1
        OBVIOUS
      <4>2. Len(stack) \in Nat \ {0} /\ Len(stack) - 1 = 1
        BY <1>2, <1>3, <2>1
      <4>3. Len(stack) > 1 => stack[1].at # "sleep"
        BY DEF IOStack
      <4>4. QED BY <4>1, <4>2, <4>3
    <3>2. r[1].at = stack[1].at /\ r[1].more = (stack[1].more \/ b)
      BY <1>3, <3>1
    <3>3. ~b /\ ~stack[1].more
      <4>1. r[1].at # "sleep"
        BY <3>1, <3>2
      <4>2. ~r[1].more
        BY <1>6, <2>1, <4>1 DEF IOResting
      <4>3. QED BY <3>2, <4>2
    <3>4. Top = stack[2] /\ stack[2].what = "wait" /\ stack[2].at \in {"poll", "delay"}
      BY <1>1, <1>2, <3>1, <3>3
    <3>5. QED BY <3>1, <3>3, <3>4 DEF IOResting
  <2>2. CASE Len(r) = 2
    <3>1. 2 \in 1..Len(stack) - 1
      <4>1. \A n \in Nat \ {0} : n - 1 = 2 => 2 \in 1..n - 1
        OBVIOUS
      <4>2. Len(stack) \in Nat \ {0} /\ Len(stack) - 1 = 2
        BY <1>2, <1>3, <2>2
      <4>3. QED BY <4>1, <4>2
    <3>2. r[2].what # "wait"
      BY <1>3, <1>4, <3>1
    <3>3. QED BY <1>6, <2>2, <3>2 DEF IOResting
  <2>3. QED BY <1>6, <2>1, <2>2 DEF IOResting
<1>7. QED BY <1>1, <1>3, <1>5, <1>6

(* A step that changes nothing but the stack.                                 *)
StackMoves ==
  /\ IOStack(stack') /\ ~IsAt("wait", "reset") /\ ~IsAt("wait", "reset")'
  /\ IOResting(stack') => IOResting(stack)

LEMMA StackOnly ==
  ASSUME IOInv, StackMoves, UNCHANGED <<port, haveWork, delayedTime, poster, queueVars>>
  PROVE  IOInv'
<1>1. UNCHANGED <<port, haveWork, delayedTime, poster, incoming, workQueue, waiting, due>>
  BY DEF queueVars
<1>2. IOQueues' /\ DelayKnown'
  BY <1>1 DEF IOInv, IOQueues, QueuesOK, PosterTypes, DelayKnown
<1>3. IOWakeup'
  <2>1. OneSign(haveWork, Internal, port, poster, FALSE)
    BY DEF IOInv, IOWakeup, StackMoves, OneSign
  <2>2. OneSign(haveWork', Internal, port', poster', FALSE)
    BY <1>1, <2>1
  <2>3. QED BY <2>2 DEF IOWakeup, StackMoves, Internal, OneSign
<1>4. IOAlert'
  BY <1>1 DEF IOInv, IOAlert, WakesUp, StackMoves
<1>5. QED BY <1>2, <1>3, <1>4 DEF IOInv, StackMoves

LEMMA LoopStackSteps ==
  ASSUME IOStack(stack), \/ IORun \/ LoopPollIO \/ LoopDecides \/ IOWaitForWork \/ IORunReturns
  PROVE  StackMoves
<1>1. ASSUME IORun PROVE StackMoves
  <2>1. stack = << >> /\ stack' = <<IOFrame("run", "work", NoFile)>> /\ ~IsAt("wait", "reset")
    BY <1>1 DEF IORun, Running, IsAt
  <2>2. IOFrame("run", "work", NoFile) \in IOFrames /\ IOFrame("run", "work", NoFile).what = "run"
        /\ IOFrame("run", "work", NoFile).at = "work"
    BY IOFrameType DEF IOPlaces
  <2> DEFINE e == IOFrame("run", "work", NoFile)
             r == <<e>>
  <2>3. stack' = r /\ e \in IOFrames /\ e.what = "run" /\ e.at = "work"
    BY <2>1, <2>2
  <2> HIDE DEF e
  <2>4. r \in Seq(IOFrames) /\ Len(r) = 1 /\ r[1] = e /\ r # << >> /\ Last(r) = e
    BY <2>3 DEF Last
  <2> HIDE DEF r
  <2>5. IOStack(r) /\ ~IOResting(r)
    BY <2>3, <2>4 DEF IOStack, IOResting
  <2>6. ~IsAt("wait", "reset")'
    BY <2>3, <2>4 DEF IsAt, Top
  <2>7. QED BY <2>1, <2>3, <2>5, <2>6 DEF StackMoves
<1>2. ASSUME LoopPollIO PROVE StackMoves
  <2>1. Running /\ Top.what = "run" /\ Top.at = "io" /\ Call("delayed", IOFrame("wait", "poll", NoFile))
    BY <1>2 DEF LoopPollIO, IsAt
  <2> DEFINE f == IOFrame("wait", "poll", NoFile)
  <2>2. f \in IOFrames /\ f.what = "wait" /\ f.at = "poll" /\ "delayed" \in IOPlaces
    BY IOFrameType DEF IOPlaces
  <2> HIDE DEF f
  <2>3. Call("delayed", f)
    BY <2>1 DEF f
  <2>4. /\ IOStack(stack') /\ ~IsAt("wait", "reset")'
        /\ IOResting(stack') => f.what = "wait" /\ (f.at = "poll" => ~Top.more)
    BY <2>1, <2>2, <2>3, IOCalls
  <2>5. ~Top.more => IOResting(stack)
    BY <2>1, TopOfStack DEF IOResting, Running, Top
  <2>6. ~IsAt("wait", "reset")
    BY <2>1 DEF IsAt
  <2>7. QED BY <2>2, <2>4, <2>5, <2>6 DEF StackMoves
<1>3. ASSUME LoopDecides PROVE StackMoves
  <2> DEFINE at == IF Top.more THEN "work" ELSE "sleep"
  <2>1. Running /\ Top.what = "run" /\ Top.at = "decide" /\ GoTo(at)
    BY <1>3 DEF LoopDecides, IsAt
  <2>2. at \in IOPlaces /\ at # "reset" /\ at \notin {"io", "delayed", "decide"} /\ (at = "sleep" <=> ~Top.more)
    BY DEF IOPlaces
  <2> HIDE DEF at
  <2>3. /\ IOStack(stack') /\ (IsAt("wait", "reset")' <=> Top.what = "wait" /\ at = "reset")
        /\ IOResting(stack') =>
              Top.what = "run" /\ ((at \in {"io", "delayed", "decide"} /\ ~Top.more) \/ at = "sleep")
    BY <2>1, <2>2, IOGoesOn
  <2>4. ~Top.more => IOResting(stack)
    BY <2>1, TopOfStack DEF IOResting, Running, Top
  <2>5. ~IsAt("wait", "reset")
    BY <2>1 DEF IsAt
  <2>6. QED BY <2>1, <2>2, <2>3, <2>4, <2>5 DEF StackMoves
<1>4. ASSUME IOWaitForWork PROVE StackMoves
  <2>1. Running /\ Top.what = "run" /\ Top.at = "sleep" /\ Call("work", IOFrame("wait", "delay", NoFile))
    BY <1>4 DEF IOWaitForWork, IsAt
  <2> DEFINE f == IOFrame("wait", "delay", NoFile)
  <2>2. f \in IOFrames /\ f.what = "wait" /\ f.at = "delay" /\ "work" \in IOPlaces
    BY IOFrameType DEF IOPlaces
  <2> HIDE DEF f
  <2>3. Call("work", f)
    BY <2>1 DEF f
  <2>4. IOStack(stack') /\ ~IsAt("wait", "reset")'
    BY <2>1, <2>2, <2>3, IOCalls
  <2>5. IOResting(stack)
    BY <2>1, TopOfStack DEF IOResting, Running, Top
  <2>6. ~IsAt("wait", "reset")
    BY <2>1 DEF IsAt
  <2>7. QED BY <2>4, <2>5, <2>6 DEF StackMoves
<1>5. ASSUME IORunReturns PROVE StackMoves
  <2>1. Running /\ Top.what = "run" /\ GoTo("over")
    BY <1>5 DEF IORunReturns, In
  <2>2. "over" \in IOPlaces
    BY DEF IOPlaces
  <2>3. /\ IOStack(stack') /\ (IsAt("wait", "reset")' <=> Top.what = "wait" /\ "over" = "reset")
        /\ IOResting(stack') =>
              Top.what = "run" /\ (("over" \in {"io", "delayed", "decide"} /\ ~Top.more) \/ "over" = "sleep")
    BY <2>1, <2>2, IOGoesOn
  <2>4. ~IsAt("wait", "reset")
    BY <2>1 DEF IsAt
  <2>5. QED BY <2>3, <2>4 DEF StackMoves
<1>6. QED BY <1>1, <1>2, <1>3, <1>4, <1>5

(* A wait that returns, or whose frame becomes that of a callback.            *)
LEMMA DeliverMoves ==
  ASSUME IOStack(stack), In("wait"), Top.at # "reset",
         NEW item \in Completions, NEW rest, Deliver(item, rest)
  PROVE  StackMoves
<1>1. Running /\ Top.what = "wait" /\ ~IsAt("wait", "reset")
  BY DEF In, IsAt
<1>2. ASSUME Return(TRUE) PROVE StackMoves
  <2>1. IOStack(stack') /\ ~IsAt("wait", "reset")' /\ ~IOResting(stack')
    BY <1>1, <1>2, IOReturning
  <2>2. QED BY <1>1, <2>1 DEF StackMoves
<1>3. ASSUME Called(item.of) PROVE StackMoves
  <2> DEFINE f == IOFrame("callback", "on", item.of)
             r == Append(Front(stack), f)
  <2>1. f \in IOFrames /\ f.what = "callback" /\ stack' = r /\ stack # << >> /\ Last(stack).what = "wait"
    BY <1>1, <1>3, IOFrameType DEF IOPlaces, Called, Running, Top, Completions
  <2> HIDE DEF f
  <2>2. IOStack(r) /\ Len(r) = Len(stack) /\ Len(stack) > 1 /\ r[Len(r)] = f
    BY <2>1, IOReplacing
  <2> HIDE DEF r
  <2>3. Last(r).what = "callback"
    BY <2>1, <2>2 DEF Last
  <2>4. ~IsAt("wait", "reset")'
    BY <2>1, <2>3 DEF IsAt, Top
  <2>5. ~IOResting(r)
    <3>1. Len(stack) \in Nat
      BY <2>1, TopOfStack
    <3>2. Len(r) # 1
      BY <2>2, <3>1
    <3>3. Len(r) = 2 => r[2].what = "callback"
      BY <2>1, <2>2
    <3>4. QED BY <3>2, <3>3 DEF IOResting
  <2>6. QED BY <1>1, <2>1, <2>2, <2>4, <2>5 DEF StackMoves
<1>4. Return(TRUE) \/ Called(item.of)
  BY DEF Deliver
<1>5. QED BY <1>2, <1>3, <1>4

LEMMA ReturnMoves ==
  ASSUME IOStack(stack), Running, NEW b \in BOOLEAN, Return(b), ~IsAt("wait", "reset"),
         ~b => \/ Top.what = "destroy"
               \/ Top.what = "wait" /\ Top.at \in {"poll", "delay"}
  PROVE  StackMoves
<1>1. /\ IOStack(stack') /\ ~IsAt("wait", "reset")'
      /\ IOResting(stack') => ~b /\ IOResting(stack)
  BY IOReturning
<1>2. QED BY <1>1 DEF StackMoves

LEMMA MatchingPlace ==
  ASSUME saved \in Seq(Completions), NEW f, Matching(f) # {}
  PROVE  /\ Min(Matching(f)) \in Matching(f) /\ Matching(f) \subseteq 1..Len(saved)
         /\ \A k \in Matching(f) : Min(Matching(f)) <= k
<1>1. Matching(f) \subseteq 1..Len(saved)
  BY DEF Matching
<1> DEFINE M == Matching(f)
<1>2. M \subseteq Nat /\ M # {}
  BY <1>1
<1> HIDE DEF M
<1>3. \E x \in M : \A y \in M : x <= y
  BY <1>2, NatMin
<1>4. Min(M) \in M /\ \A y \in M : Min(M) <= y
  BY <1>3 DEF Min
<1>5. QED BY <1>1, <1>4 DEF M

LEMMA WaitStackSteps ==
  ASSUME IOStack(stack), ItemTypes, \/ WaitMatches \/ WaitTimesOut \/ DestructorWaits \/ DestructorEnds
  PROVE  StackMoves
<1>1. ASSUME WaitMatches PROVE StackMoves
  <2> DEFINE k == Min(Matching(Top.of))
  <2>1. In("wait") /\ Top.at # "reset" /\ Matching(Top.of) # {} /\ Deliver(saved[k], RemoveAt(saved, k))
    BY <1>1 DEF WaitMatches
  <2>2. k \in 1..Len(saved)
    BY <2>1, MatchingPlace DEF ItemTypes
  <2> HIDE DEF k
  <2>3. saved[k] \in Completions
    BY <2>2 DEF ItemTypes
  <2>4. QED BY <2>1, <2>3, DeliverMoves
<1>2. ASSUME WaitTimesOut PROVE StackMoves
  BY <1>2, ReturnMoves DEF WaitTimesOut, IsAt
<1>3. ASSUME DestructorWaits PROVE StackMoves
  <2> DEFINE f == IOFrame("wait", "forever", Top.of)
  <2>1. Running /\ Top.what = "destroy" /\ Call("on", f)
    BY <1>3 DEF DestructorWaits, In
  <2>2. Top.of \in WaitingFiles
    BY <2>1, TopOfStack DEF Running, Top
  <2>3. f \in IOFrames /\ f.what = "wait" /\ f.at = "forever" /\ "on" \in IOPlaces
    BY <2>2, IOFrameType, IOPumpAssumption DEF IOPlaces
  <2> HIDE DEF f
  <2>4. IOStack(stack') /\ ~IsAt("wait", "reset")'
    BY <2>1, <2>3, IOCalls
  <2>5. ~IOResting(stack')
    <3>1. stack' = Append(Goes(stack, "on"), f) /\ stack # << >> /\ Last(stack).what = "destroy"
      BY <2>1 DEF Call, Running, Top
    <3>2. Len(stack) \in Nat /\ Len(stack) > 2
      BY <3>1, TopOfStack
    <3>3. Len(stack') = Len(stack) + 1
      BY <2>3, <3>1, <3>2, IOCalling
    <3>4. QED BY <3>2, <3>3 DEF IOResting
  <2>6. QED BY <2>1, <2>4, <2>5 DEF StackMoves, IsAt
<1>4. ASSUME DestructorEnds PROVE StackMoves
  BY <1>4, ReturnMoves DEF DestructorEnds, In, IsAt
<1>5. QED BY <1>1, <1>2, <1>3, <1>4

LEMMA UserStackSteps ==
  ASSUME IOStack(stack), \/ IOUserReturns \/ IOUserQuits \/ \E f \in Files : StartDestructor(f)
  PROVE  StackMoves
<1>1. ASSUME IOUserReturns PROVE StackMoves
  BY <1>1, ReturnMoves DEF IOUserReturns, InIOUserCode, In, IsAt
<1>2. ASSUME IOUserQuits PROVE StackMoves
  <2> DEFINE e == [stack[1] EXCEPT !.quit = TRUE]
             r == [stack EXCEPT ![1] = e]
  <2>1. stack # << >> /\ (Top.what = "task" \/ Top.what = "callback")
    BY <1>2 DEF IOUserQuits, InIOUserCode, In, Running
  <2>2. stack \in Seq(IOFrames) /\ Len(stack) \in Nat \ {0} /\ 1 \in 1..Len(stack)
    BY <2>1, TopOfStack DEF IOStack
  <2>3. stack[1] \in IOFrames
    BY <2>2
  <2>4. /\ e \in IOFrames /\ e.what = stack[1].what /\ e.at = stack[1].at
        /\ e.of = stack[1].of /\ e.more = stack[1].more
    BY <2>3 DEF IOFrames
  <2>5. stack' = r
    BY <1>2 DEF IOUserQuits
  <2> HIDE DEF e
  <2>6. /\ r \in Seq(IOFrames) /\ Len(r) = Len(stack)
        /\ \A k \in 1..Len(stack) : r[k] = IF k = 1 THEN e ELSE stack[k]
    BY <2>2, <2>4, ExceptSeq
  <2> HIDE DEF r
  <2>7. \A k \in 1..Len(stack) : /\ r[k].what = stack[k].what /\ r[k].at = stack[k].at
                                 /\ r[k].of = stack[k].of /\ r[k].more = stack[k].more
    BY <2>4, <2>6
  <2>8. IOStack(r)
    <3>1. /\ \A k \in 1..Len(stack) :
             /\ stack[k].what = "run" <=> k = 1
             /\ stack[k].what = "wait" => k = Len(stack)
             /\ stack[k].what = "wait" /\ stack[k].at \in {"poll", "delay"} => k = 2
             /\ stack[k].what = "destroy" => k > 2 /\ stack[k].of \in WaitingFiles
          /\ Len(stack) > 1 => stack[1].at # "sleep"
      BY DEF IOStack
    <3>2. /\ \A k \in 1..Len(r) :
             /\ r[k].what = "run" <=> k = 1
             /\ r[k].what = "wait" => k = Len(r)
             /\ r[k].what = "wait" /\ r[k].at \in {"poll", "delay"} => k = 2
             /\ r[k].what = "destroy" => k > 2 /\ r[k].of \in WaitingFiles
          /\ Len(r) > 1 => r[1].at # "sleep"
      BY <2>2, <2>6, <2>7, <3>1
    <3>3. QED BY <2>6, <3>2 DEF IOStack
  <2>9. IOResting(r) => IOResting(stack)
    <3>1. Len(stack) = 2 => 2 \in 1..Len(stack)
      OBVIOUS
    <3>2. QED BY <2>2, <2>6, <2>7, <3>1 DEF IOResting
  <2>10. ~IsAt("wait", "reset") /\ ~IsAt("wait", "reset")'
    <3>1. Last(r).what = Last(stack).what
      <4>1. Len(stack) \in 1..Len(stack)
        BY <2>2
      <4>2. QED BY <2>6, <2>7, <4>1 DEF Last
    <3>2. QED BY <2>1, <2>5, <3>1 DEF IsAt, Top
  <2>11. QED BY <2>5, <2>8, <2>9, <2>10 DEF StackMoves
<1>3. ASSUME NEW g \in Files, StartDestructor(g) PROVE StackMoves
  <2> DEFINE f == IOFrame("destroy", "on", g)
  <2>1. Running /\ Top.what \in {"task", "callback"} /\ Call("on", f) /\ g \in WaitingFiles
    BY <1>3 DEF StartDestructor, InIOUserCode, In
  <2>2. f \in IOFrames /\ f.what = "destroy" /\ f.at = "on" /\ f.of = g /\ "on" \in IOPlaces
    BY IOFrameType DEF IOPlaces
  <2> HIDE DEF f
  <2>3. /\ IOStack(stack') /\ ~IsAt("wait", "reset")'
        /\ IOResting(stack') => f.what = "wait" /\ (f.at = "poll" => ~Top.more)
    BY <2>1, <2>2, IOCalls
  <2>4. QED BY <2>1, <2>2, <2>3 DEF StackMoves, IsAt
<1>4. QED BY <1>1, <1>2, <1>3

(* The steps that change the queues or the wake-up.                           *)
LEMMA DoWorkStack ==
  ASSUME IOStack(stack), IODoWork
  PROVE  /\ IOStack(stack') /\ ~IsAt("wait", "reset")'
         /\ IOResting(stack') => ~Worked.ran
<1> DEFINE g == Goes(stack, "io")
           e == [g[1] EXCEPT !.more = FALSE]
           s == [stack EXCEPT ![Len(stack)].at = "io", ![Len(stack)].more = FALSE]
           f == IOFrame("task", "on", NoFile)
<1>1. /\ stack # << >> /\ Last(stack).what = "run"
      /\ stack' = IF Worked.ran THEN Append(s, f) ELSE s
  BY DEF IODoWork, IsAt, Running, Top
<1>2. Len(stack) = 1 /\ Last(stack) = stack[1] /\ 1 \in 1..Len(stack)
  BY <1>1, TopOfStack
<1>3. s = [g EXCEPT ![1].more = FALSE]
  <2>1. g = [stack EXCEPT ![1].at = "io"]
    BY <1>2 DEF Goes
  <2>2. s = [[stack EXCEPT ![1].at = "io"] EXCEPT ![1].more = FALSE]
    BY <1>2
  <2>3. QED BY <2>1, <2>2
<1>4. /\ IOStack(g) /\ Len(g) = 1 /\ g[1].what = "run" /\ g[1].at = "io"
      /\ g \in Seq(IOFrames) /\ g[1] \in IOFrames
  <2>1. "io" \in IOPlaces
    BY DEF IOPlaces
  <2>2. /\ IOStack(g) /\ Len(g) = Len(stack)
        /\ \A k \in 1..Len(stack) : /\ g[k].what = stack[k].what
                                    /\ g[k].at = IF k = Len(stack) THEN "io" ELSE stack[k].at
    BY <1>1, <2>1, IOGoing
  <2> HIDE DEF g
  <2>3. g \in Seq(IOFrames) /\ Len(g) = 1
    BY <1>2, <2>2 DEF IOStack
  <2>4. QED BY <1>1, <1>2, <2>2, <2>3
<1> HIDE DEF g
<1>5. e \in IOFrames /\ e.what = "run" /\ e.at = "io"
  BY <1>4 DEF IOFrames
<1>6. s \in Seq(IOFrames) /\ Len(s) = 1 /\ s[1] = e
  <2> HIDE DEF s
  <2>1. s = [g EXCEPT ![1] = e] /\ 1 \in 1..Len(g)
    BY <1>3, <1>4
  <2> HIDE DEF e
  <2>2. QED BY <1>4, <1>5, <2>1, ExceptSeq
<1>9. f \in IOFrames /\ f.what = "task"
  BY IOFrameType DEF IOPlaces
<1> HIDE DEF e, f, s
<1>7. CASE Worked.ran
  <2> DEFINE r == Append(s, f)
  <2>1. r \in Seq(IOFrames) /\ Len(r) = 2 /\ r[1] = e /\ r[2] = f /\ stack' = r /\ r # << >>
    <3>1. /\ r \in Seq(IOFrames) /\ Len(r) = Len(s) + 1 /\ r[Len(s) + 1] = f
          /\ \A k \in 1..Len(s) : r[k] = s[k]
      BY <1>6, <1>9
    <3>2. stack' = r
      BY <1>1, <1>7
    <3> HIDE DEF r
    <3>3. 1 \in 1..Len(s)
      BY <1>6
    <3>4. QED BY <1>6, <3>1, <3>2, <3>3
  <2> HIDE DEF r
  <2>2. Last(r) = f
    BY <2>1 DEF Last
  <2>3. IOStack(r)
    BY <1>5, <1>9, <2>1 DEF IOStack
  <2>4. ~IOResting(r)
    BY <1>9, <2>1 DEF IOResting
  <2>5. ~IsAt("wait", "reset")'
    BY <1>9, <2>1, <2>2 DEF IsAt, Top
  <2>6. QED BY <2>1, <2>3, <2>4, <2>5
<1>8. CASE ~Worked.ran
  <2>1. stack' = s /\ s # << >> /\ Last(s) = e
    BY <1>1, <1>6, <1>8 DEF Last
  <2>2. IOStack(s)
    BY <1>5, <1>6 DEF IOStack
  <2>3. ~IsAt("wait", "reset")'
    BY <1>5, <2>1 DEF IsAt, Top
  <2>4. QED BY <1>8, <2>1, <2>2, <2>3
<1>10. QED BY <1>7, <1>8

LEMMA DoWorkStep ==
  ASSUME IOInv, IODoWork
  PROVE  IOInv'
<1>1. /\ workQueue' = Worked.work /\ incoming' = Worked.arrived /\ waiting' = waiting + Worked.moved
      /\ delayedTime' = IF Worked.moved > 0 /\ waiting + due = 0 THEN "future" ELSE delayedTime
      /\ UNCHANGED <<port, haveWork, poster, due>> /\ ~IsAt("wait", "reset")
  BY DEF IODoWork, IsAt
<1>2. QueuesOK /\ IOStack(stack)
  BY DEF IOInv, IOQueues
<1>3. /\ Worked.work \in Seq(Kinds) /\ Worked.arrived \in Seq(Kinds)
      /\ Worked.moved \in Nat
      /\ ~Worked.ran => Worked.work = << >> /\ Worked.arrived = << >>
  BY <1>2, WorkedLeaves
<1>4. /\ IOStack(stack') /\ ~IsAt("wait", "reset")'
      /\ IOResting(stack') => ~Worked.ran
  BY <1>2, DoWorkStack
<1>5. IOQueues'
  <2>1. QueuesOK'
    BY <1>1, <1>2, <1>3 DEF QueuesOK
  <2>2. QED BY <1>1, <2>1 DEF IOInv, IOQueues, PosterTypes
<1>6. IOWakeup'
  BY <1>1, <1>4 DEF IOInv, IOWakeup, OneSign, Places, Posting, Internal
<1>7. DelayKnown'
  <2>1. waiting \in Nat /\ due \in Nat /\ (waiting + due > 0 => delayedTime # "null")
    BY <1>2 DEF QueuesOK, IOInv, DelayKnown
  <2>2. QED BY <1>1, <1>3, <2>1 DEF DelayKnown
<1>8. IOAlert'
  BY <1>1, <1>3, <1>4 DEF IOAlert, WakesUp
<1>9. QED BY <1>4, <1>5, <1>6, <1>7, <1>8 DEF IOInv

LEMMA DoDelayedWorkStep ==
  ASSUME IOInv, IODoDelayedWork
  PROVE  IOInv'
<1>1. /\ Running /\ Top.what = "run" /\ Top.at = "delayed" /\ ~IsAt("wait", "reset")
      /\ delayedTime' = NextDelay
      /\ UNCHANGED <<port, haveWork, poster, incoming, workQueue, waiting>>
  BY DEF IODoDelayedWork, IsAt
<1>2. QueuesOK /\ IOStack(stack) /\ waiting \in Nat /\ due \in Nat
      /\ (waiting + due > 0 => delayedTime # "null")
  BY DEF IOInv, IOQueues, QueuesOK, DelayKnown
<1>3. /\ due' = (IF due > 0 THEN due - 1 ELSE due)
      /\ IF due > 0 THEN Call("decide", IOFrame("task", "on", NoFile)) ELSE GoTo("decide")
  BY DEF IODoDelayedWork
<1>4. StackMoves
  <2>1. CASE due > 0
    <3> DEFINE f == IOFrame("task", "on", NoFile)
    <3>1. f \in IOFrames /\ f.what = "task" /\ f.at = "on" /\ "decide" \in IOPlaces /\ Call("decide", f)
      BY <1>3, <2>1, IOFrameType DEF IOPlaces
    <3> HIDE DEF f
    <3>2. /\ IOStack(stack') /\ ~IsAt("wait", "reset")'
          /\ IOResting(stack') => f.what = "wait" /\ (f.at = "poll" => ~Top.more)
      BY <1>1, <1>2, <3>1, IOCalls
    <3>3. QED BY <1>1, <3>1, <3>2 DEF StackMoves
  <2>2. CASE ~(due > 0)
    <3>1. "decide" \in IOPlaces /\ GoTo("decide")
      BY <1>3, <2>2 DEF IOPlaces
    <3>2. /\ IOStack(stack') /\ (IsAt("wait", "reset")' <=> Top.what = "wait" /\ "decide" = "reset")
          /\ IOResting(stack') =>
              Top.what = "run" /\ (("decide" \in {"io", "delayed", "decide"} /\ ~Top.more) \/ "decide" = "sleep")
      BY <1>1, <1>2, <3>1, IOGoesOn
    <3>3. ~Top.more => IOResting(stack)
      BY <1>1, <1>2, TopOfStack DEF IOResting, Running, Top
    <3>4. QED BY <1>1, <3>2, <3>3 DEF StackMoves
  <2>3. QED BY <2>1, <2>2
<1>5. IOQueues'
  <2>1. QueuesOK'
    BY <1>1, <1>2, <1>3 DEF QueuesOK
  <2>2. QED BY <1>1, <2>1 DEF IOInv, IOQueues, PosterTypes
<1>6. IOWakeup'
  BY <1>1, <1>4 DEF IOInv, IOWakeup, StackMoves, OneSign, Places, Posting, Internal
<1>7. DelayKnown'
  <2>1. waiting + due > 0 => NextDelay # "null"
    BY <1>2 DEF NextDelay
  <2>2. waiting' + due' > 0 => waiting + due > 0
    BY <1>1, <1>2, <1>3
  <2>3. QED BY <1>1, <2>1, <2>2 DEF DelayKnown
<1>8. IOAlert'
  BY <1>1, <1>4 DEF IOInv, IOAlert, WakesUp, StackMoves
<1>9. QED BY <1>4, <1>5, <1>6, <1>7, <1>8 DEF IOInv, StackMoves

LEMMA WaitGetsStep ==
  ASSUME IOInv, ItemTypes, WaitGets
  PROVE  IOInv'
<1>1. /\ In("wait") /\ Top.at # "reset" /\ port # << >> /\ port' = Tail(port)
      /\ IF Head(port) = Internal THEN GoTo("reset") ELSE Deliver(Head(port), saved)
      /\ UNCHANGED <<haveWork, delayedTime, poster, incoming, workQueue, waiting, due>>
  BY DEF WaitGets, queueVars
<1>2. Running /\ Top.what = "wait" /\ ~IsAt("wait", "reset") /\ IOStack(stack)
  BY <1>1 DEF In, IsAt, IOInv
<1>3. port \in Seq(Completions \cup {Internal}) /\ Head(port) \in Completions \cup {Internal}
  BY <1>1 DEF ItemTypes
<1>4. OneSign(haveWork, Internal, port, poster, FALSE)
  BY <1>2 DEF IOInv, IOWakeup, OneSign
<1>5. IOQueues' /\ DelayKnown'
  BY <1>1 DEF IOInv, IOQueues, QueuesOK, PosterTypes, DelayKnown
<1>6. CASE Head(port) = Internal
  <2>1. "reset" \in IOPlaces /\ GoTo("reset")
    BY <1>1, <1>6 DEF IOPlaces
  <2>2. /\ IOStack(stack') /\ IsAt("wait", "reset")' /\ ~IOResting(stack')
    BY <1>2, <2>1, IOGoesOn
  <2>3. OneSign(haveWork, Internal, Tail(port), poster, TRUE)
    BY <1>1, <1>3, <1>4, <1>6, SignTaken
  <2>4. IOWakeup'
    BY <1>1, <2>2, <2>3 DEF IOWakeup, OneSign, Places, Posting, Internal
  <2>5. QED BY <1>5, <2>2, <2>4 DEF IOInv, IOAlert
<1>7. CASE Head(port) # Internal
  <2>1. Deliver(Head(port), saved) /\ Head(port) \in Completions
    BY <1>1, <1>3, <1>7
  <2>2. StackMoves
    BY <1>1, <1>2, <2>1, DeliverMoves
  <2>3. OneSign(haveWork, Internal, Tail(port), poster, FALSE)
    BY <1>1, <1>3, <1>4, <1>7, OtherTaken
  <2>4. IOWakeup'
    BY <1>1, <2>2, <2>3 DEF IOWakeup, StackMoves, OneSign, Places, Posting, Internal
  <2>5. IOAlert'
    BY <1>1, <2>2 DEF IOInv, IOAlert, WakesUp, StackMoves
  <2>6. QED BY <1>5, <2>2, <2>4, <2>5 DEF IOInv, StackMoves
<1>8. QED BY <1>6, <1>7

LEMMA ProcessInternalStep ==
  ASSUME IOInv, ProcessInternalIOItem
  PROVE  IOInv'
<1>1. /\ Running /\ Top.what = "wait" /\ IsAt("wait", "reset") /\ Return(TRUE) /\ haveWork' = FALSE
      /\ UNCHANGED <<port, delayedTime, poster, incoming, workQueue, waiting, due>>
  BY DEF ProcessInternalIOItem, IsAt, queueVars
<1>2. IOStack(stack') /\ ~IsAt("wait", "reset")' /\ ~IOResting(stack')
  BY <1>1, IOReturning DEF IOInv
<1>3. IOQueues' /\ DelayKnown'
  BY <1>1 DEF IOInv, IOQueues, QueuesOK, PosterTypes, DelayKnown
<1>4. OneSign(FALSE, Internal, port, poster, FALSE)
  BY <1>1 DEF IOInv, IOWakeup, OneSign
<1>5. IOWakeup'
  BY <1>1, <1>2, <1>4 DEF IOWakeup, OneSign, Places, Posting, Internal
<1>6. QED BY <1>2, <1>3, <1>5 DEF IOInv, IOAlert

(* The steps of the other threads, of the system, and posting a task: the     *)
(* stack stays, and nobody forgets a wake-up.                                *)
LEMMA PosterSteps ==
  ASSUME IOInv, ItemTypes, NEW t \in Posters,
         \/ SetHaveWork(t) /\ UNCHANGED port
         \/ PostItem(t)
         \/ (\E kind \in Kinds : PostTask(t, kind)) /\ UNCHANGED port
  PROVE  IOInv'
<1>1. /\ IOStack(stack) /\ QueuesOK /\ haveWork \in BOOLEAN
      /\ poster \in [Posters -> {"idle", "schedule", "post"}] /\ port \in Seq(Completions \cup {Internal})
  BY DEF IOInv, IOQueues, PosterTypes, ItemTypes
<1> DEFINE taken == IsAt("wait", "reset")
<1>2. taken \in BOOLEAN /\ OneSign(haveWork, Internal, port, poster, taken)
  BY DEF IOInv, IOWakeup, IsAt
<1>3. UNCHANGED stack => (taken' <=> taken)
  BY DEF IsAt, Running, Top
<1> HIDE DEF taken
<1>4. ASSUME SetHaveWork(t), UNCHANGED port PROVE IOInv'
  <2>1. /\ UNCHANGED <<stack, port, delayedTime, incoming, workQueue, waiting, due>>
        /\ poster[t] = "schedule" /\ haveWork' = TRUE
        /\ poster' = [poster EXCEPT ![t] = IF haveWork THEN "idle" ELSE "post"]
    BY <1>4 DEF SetHaveWork, queueVars
  <2>2. /\ poster' \in [Posters -> {"idle", "schedule", "post"}]
        /\ (poster'[t] = "post" <=> ~haveWork) /\ \A u \in Posters : u # t => poster'[u] = poster[u]
    BY <1>1, <2>1
  <2>3. OneSign(TRUE, Internal, port, poster', taken)
    <3> DEFINE q == poster'
    <3>1. poster[t] # "post" /\ (q[t] = "post" <=> ~haveWork) /\ \A u \in Posters : u # t => q[u] = poster[u]
      BY <2>1, <2>2
    <3> HIDE DEF q
    <3>2. OneSign(TRUE, Internal, port, q, taken)
      BY <1>1, <1>2, <3>1, PosterSigns
    <3>3. QED BY <3>2 DEF q
  <2>4. IOWakeup'
    BY <1>3, <2>1, <2>3 DEF IOWakeup, OneSign, Places, Posting, Internal, taken
  <2>5. IOQueues'
    BY <1>1, <2>1, <2>2 DEF IOQueues, QueuesOK, PosterTypes
  <2>6. QED BY <1>1, <2>1, <2>4, <2>5 DEF IOInv, IOAlert, WakesUp, DelayKnown
<1>5. ASSUME PostItem(t) PROVE IOInv'
  <2>1. /\ UNCHANGED <<stack, haveWork, delayedTime, incoming, workQueue, waiting, due>>
        /\ poster[t] = "post" /\ poster' = [poster EXCEPT ![t] = "idle"] /\ port' = Append(port, Internal)
    BY <1>5 DEF PostItem, queueVars
  <2>2. /\ poster' \in [Posters -> {"idle", "schedule", "post"}]
        /\ poster'[t] # "post" /\ \A u \in Posters : u # t => poster'[u] = poster[u]
    BY <1>1, <2>1
  <2>3. Internal \in Completions \cup {Internal}
    OBVIOUS
  <2>4. OneSign(haveWork, Internal, Append(port, Internal), poster', taken)
    BY <1>1, <1>2, <2>1, <2>2, <2>3, PosterSends
  <2>5. IOWakeup'
    BY <1>3, <2>1, <2>4 DEF IOWakeup, OneSign, Places, Posting, Internal, taken
  <2>6. IOQueues'
    BY <1>1, <2>1, <2>2 DEF IOQueues, QueuesOK, PosterTypes
  <2>7. WakesUp => WakesUp'
    BY <1>1, <2>1 DEF WakesUp
  <2>8. QED BY <1>1, <2>1, <2>5, <2>6, <2>7 DEF IOInv, IOAlert, DelayKnown
<1>6. ASSUME NEW kind \in Kinds, PostTask(t, kind), UNCHANGED port PROVE IOInv'
  <2>1. /\ UNCHANGED <<stack, port, haveWork, delayedTime, workQueue, waiting, due>>
        /\ poster[t] = "idle" /\ incoming' = Append(incoming, kind)
        /\ poster' = [poster EXCEPT ![t] = IF incoming = << >> THEN "schedule" ELSE "idle"]
    BY <1>6 DEF PostTask, Post
  <2>2. /\ poster' \in [Posters -> {"idle", "schedule", "post"}]
        /\ poster'[t] # "post" /\ \A u \in Posters : u # t => poster'[u] = poster[u]
    BY <1>1, <2>1
  <2>3. OneSign(haveWork, Internal, port, poster', taken)
    BY <1>2, <2>1, <2>2, PosterElsewhere
  <2>4. IOWakeup'
    BY <1>3, <2>1, <2>3 DEF IOWakeup, OneSign, Places, Posting, Internal, taken
  <2>5. IOQueues'
    BY <1>1, <2>1, <2>2 DEF IOQueues, QueuesOK, PosterTypes
  <2>6. WakesUp => WakesUp'
    <3>1. CASE incoming = << >>
      BY <1>1, <2>1, <3>1 DEF WakesUp
    <3>2. CASE incoming # << >>
      BY <1>1, <2>1, <3>2 DEF WakesUp
    <3>3. QED BY <3>1, <3>2
  <2>7. QED BY <1>1, <2>1, <2>4, <2>5, <2>6 DEF IOInv, IOAlert, DelayKnown
<1>7. QED BY <1>4, <1>5, <1>6

LEMMA UserPostsStep ==
  ASSUME IOInv, ItemTypes, NEW kind \in Kinds, IOUserPosts(kind)
  PROVE  IOInv'
<1>1. /\ IOStack(stack) /\ QueuesOK /\ haveWork \in BOOLEAN
      /\ port \in Seq(Completions \cup {Internal})
  BY DEF IOInv, IOQueues, ItemTypes
<1> DEFINE taken == IsAt("wait", "reset")
<1>2. taken \in BOOLEAN /\ OneSign(haveWork, Internal, port, poster, taken)
  BY DEF IOInv, IOWakeup, IsAt
<1>3. /\ UNCHANGED <<stack, delayedTime, poster, workQueue, waiting, due>>
      /\ incoming' = Append(incoming, kind)
      /\ IF incoming = << >>
         THEN haveWork' = TRUE /\ port' = (IF haveWork THEN port ELSE Append(port, Internal))
         ELSE UNCHANGED <<haveWork, port>>
  BY DEF IOUserPosts, Post
<1>4. taken' <=> taken
  BY <1>3 DEF IsAt, Running, Top
<1> HIDE DEF taken
<1>5. IOWakeup'
  <2>1. CASE incoming = << >>
    <3>1. OneSign(TRUE, Internal, IF haveWork THEN port ELSE Append(port, Internal), poster, taken)
      <4>1. Internal \in Completions \cup {Internal}
        OBVIOUS
      <4>2. QED BY <1>1, <1>2, <4>1, SignSentNow
    <3>2. OneSign(haveWork', Internal, port', poster, taken)
      BY <1>3, <2>1, <3>1
    <3>3. QED BY <1>3, <1>4, <3>2 DEF IOWakeup, OneSign, Places, Posting, Internal, taken
  <2>2. CASE incoming # << >>
    BY <1>2, <1>3, <1>4, <2>2 DEF IOWakeup, OneSign, Places, Posting, Internal, taken
  <2>3. QED BY <2>1, <2>2
<1>6. IOQueues'
  <2>1. haveWork' \in BOOLEAN
    BY <1>1, <1>3
  <2>2. QED BY <1>1, <1>3, <2>1 DEF IOInv, IOQueues, QueuesOK, PosterTypes
<1>7. WakesUp => WakesUp'
  <2>1. CASE incoming = << >>
    BY <1>3, <2>1 DEF WakesUp
  <2>2. CASE incoming # << >>
    BY <1>3, <2>2 DEF WakesUp
  <2>3. QED BY <2>1, <2>2
<1>8. QED BY <1>1, <1>3, <1>5, <1>6, <1>7 DEF IOInv, IOAlert, DelayKnown

LEMMA SystemSteps ==
  ASSUME IOInv, ItemTypes, (TimePasses /\ UNCHANGED port) \/ \E f \in Files : Completes(f), ItemTypes'
  PROVE  IOInv'
<1>1. /\ IOStack(stack) /\ QueuesOK
      /\ port \in Seq(Completions \cup {Internal})
      /\ OneSign(haveWork, Internal, port, poster, IsAt("wait", "reset"))
  BY DEF IOInv, IOQueues, ItemTypes, IOWakeup
<1>2. ASSUME TimePasses, UNCHANGED port PROVE IOInv'
  <2>1. /\ UNCHANGED <<stack, port, haveWork, poster, incoming, workQueue>>
        /\ waiting > 0 /\ waiting' = waiting - 1 /\ due' = due + 1
        /\ delayedTime' = IF delayedTime = "future" THEN "past" ELSE delayedTime
    BY <1>2 DEF TimePasses
  <2>2. IOQueues'
    BY <1>1, <2>1 DEF IOInv, IOQueues, QueuesOK, PosterTypes
  <2>3. DelayKnown'
    BY <1>1, <2>1 DEF IOInv, QueuesOK, DelayKnown
  <2>4. IOWakeup'
    BY <2>1 DEF IOInv, IOWakeup, OneSign, Places, Posting, Internal, IsAt, Running, Top
  <2>5. QED BY <1>1, <2>1, <2>2, <2>3, <2>4 DEF IOInv, IOAlert, WakesUp
<1>3. ASSUME NEW f \in Files, Completes(f) PROVE IOInv'
  <2> DEFINE e == [of |-> f, n |-> file[f].completed + 1]
  <2>1. /\ UNCHANGED <<stack, haveWork, delayedTime, poster, incoming, workQueue, waiting, due>>
        /\ port' = Append(port, e)
    BY <1>3 DEF Completes, queueVars
  <2>2. e \in Completions
    <3>1. e.of = f /\ e # Internal
      BY IOPumpAssumption DEF Internal
    <3> HIDE DEF e
    <3>2. Append(port, e) \in Seq(Completions \cup {Internal})
      BY <2>1 DEF ItemTypes
    <3>3. \E T : port \in Seq(T)
      BY <1>1
    <3>4. e \in Completions \cup {Internal}
      <4>1. /\ Append(port, e)[Len(port) + 1] = e /\ Len(Append(port, e)) = Len(port) + 1 /\ Len(port) \in Nat
        BY <1>1
      <4>2. Len(port) + 1 \in 1..Len(Append(port, e))
        BY <4>1
      <4>3. QED BY <3>2, <4>1, <4>2, ElementOfSeq
    <3>5. QED BY <3>1, <3>4
  <2>3. e # Internal
    BY IOPumpAssumption DEF Internal
  <2> HIDE DEF e
  <2>4. e \in Completions \cup {Internal}
    BY <2>2
  <2>5. OneSign(haveWork, Internal, Append(port, e), poster, IsAt("wait", "reset"))
    BY <1>1, <2>3, <2>4, OtherSent
  <2>6. IOWakeup'
    BY <2>1, <2>5 DEF IOWakeup, OneSign, Places, Posting, Internal, IsAt, Running, Top
  <2>7. IOQueues'
    BY <2>1 DEF IOInv, IOQueues, QueuesOK, PosterTypes
  <2>8. QED BY <1>1, <2>1, <2>6, <2>7 DEF IOInv, IOAlert, WakesUp, DelayKnown
<1>4. QED BY <1>2, <1>3

-----------------------------------------------------------------------------
(* The files and their completions, wherever they are: each completion that   *)
(* was not delivered is among the items once, in order.                      *)
FileTypes ==
  [life : {"alive", "dying", "gone"}, started : Nat, inFlight : Nat, completed : Nat,
   done : Nat, contexts : Int, orphan : BOOLEAN]

FileOK(f, r) ==
  /\ r.started = r.inFlight + r.completed /\ r.done <= r.completed
  /\ f \in WaitingFiles =>
       /\ ~r.orphan /\ r.contexts = r.started - r.done
       /\ r.life = "gone" => r.started = r.done
  /\ f \notin WaitingFiles =>
       /\ r.started - r.done <= 1 /\ r.life # "dying"
       /\ r.contexts = IF r.started - r.done = 1 \/ r.life = "alive" THEN 1 ELSE 0
       /\ r.orphan => r.life = "gone"
       /\ r.started - r.done = 1 /\ r.life = "gone" => r.orphan

CompletionOf(f, n) == [of |-> f, n |-> n]
ItemsOf(q, g) ==
  /\ \A f \in Files, n \in Nat : Within(CompletionOf(f, n), q) <=> n \in g[f].done + 1 .. g[f].completed
  /\ \A f \in Files, m, n \in Nat : Precedes(q, CompletionOf(f, m), CompletionOf(f, n)) => m < n

IOFiles ==
  /\ file \in [Files -> FileTypes] /\ \A f \in Files : FileOK(f, file[f])
  /\ ItemTypes /\ ItemsOf(Items, file)

LEMMA CompletionFields ==
  ASSUME NEW f \in Files, NEW n \in Nat \ {0}
  PROVE  /\ CompletionOf(f, n) \in Completions
         /\ CompletionOf(f, n).of = f /\ CompletionOf(f, n).n = n
         /\ CompletionOf(f, n) # Internal /\ CompletionOf(f, n) \in Completions \cup {Internal}
  BY IOPumpAssumption DEF CompletionOf, Completions, Internal

LEMMA CompletionEquality ==
  ASSUME NEW f, NEW g, NEW m, NEW n, CompletionOf(f, m) = CompletionOf(g, n)
  PROVE  f = g /\ m = n
<1>1. CompletionOf(f, m).of = f /\ CompletionOf(f, m).n = m /\ CompletionOf(g, n).of = g /\ CompletionOf(g, n).n = n
  BY DEF CompletionOf
<1>2. QED BY <1>1

LEMMA CompletionShape ==
  ASSUME NEW x \in Completions
  PROVE  x.of \in Files /\ x.n \in Nat \ {0} /\ x = CompletionOf(x.of, x.n) /\ x # Internal
  BY IOPumpAssumption DEF CompletionOf, Completions, Internal

(* r is s without what is at k.                                               *)
Without(r, s, k) ==
  /\ Len(r) = Len(s) - 1
  /\ \A j \in 1..Len(s) - 1 : r[j] = IF j < k THEN s[j] ELSE s[j + 1]

LEMMA WithoutElements ==
  ASSUME NEW S, NEW s \in Seq(S), NEW r \in Seq(S), NEW k \in 1..Len(s), Without(r, s, k)
  PROVE  /\ \A x : Within(x, r) => Within(x, s)
         /\ \A x : Within(x, s) /\ x # s[k] => Within(x, r)
         /\ \A x, y : Precedes(r, x, y) => Precedes(s, x, y)
         /\ Within(s[k], r) => Precedes(s, s[k], s[k])
<1>1. /\ DOMAIN s = 1..Len(s) /\ Len(s) \in Nat /\ DOMAIN r = 1..Len(s) - 1
      /\ \A j \in 1..Len(s) - 1 : r[j] = IF j < k THEN s[j] ELSE s[j + 1]
  <2>1. DOMAIN s = 1..Len(s) /\ Len(s) \in Nat /\ DOMAIN r = 1..Len(r)
    OBVIOUS
  <2>2. QED BY <2>1 DEF Without
<1> DEFINE at(j) == IF j < k THEN j ELSE j + 1
<1>2. \A j \in 1..Len(s) - 1 : at(j) \in 1..Len(s) /\ at(j) # k /\ r[j] = s[at(j)]
  BY <1>1
<1>3. \A i, j \in 1..Len(s) - 1 : i < j => at(i) < at(j)
  BY <1>1
<1>4. \A j \in 1..Len(s) : j # k => \E i \in 1..Len(s) - 1 : at(i) = j
  <2>1. SUFFICES ASSUME NEW j \in 1..Len(s), j # k PROVE \E i \in 1..Len(s) - 1 : at(i) = j
    OBVIOUS
  <2>2. CASE j < k
    <3>1. j \in 1..Len(s) - 1 /\ at(j) = j
      BY <1>1, <2>2
    <3>2. QED BY <3>1
  <2>3. CASE ~(j < k)
    <3>1. j - 1 \in 1..Len(s) - 1 /\ at(j - 1) = j
      BY <1>1, <2>1, <2>3
    <3>2. QED BY <3>1
  <2>4. QED BY <2>2, <2>3
<1> HIDE DEF at
<1>5. ASSUME NEW x, Within(x, r) PROVE Within(x, s)
  BY <1>1, <1>2, <1>5 DEF Within
<1>6. ASSUME NEW x, Within(x, s), x # s[k] PROVE Within(x, r)
  <2>1. PICK j \in 1..Len(s) : s[j] = x
    BY <1>1, <1>6 DEF Within
  <2>2. PICK i \in 1..Len(s) - 1 : at(i) = j
    BY <1>4, <1>6, <2>1
  <2>3. QED BY <1>1, <1>2, <2>1, <2>2 DEF Within
<1>7. ASSUME NEW x, NEW y, Precedes(r, x, y) PROVE Precedes(s, x, y)
  <2>1. PICK i, j \in 1..Len(s) - 1 : i < j /\ r[i] = x /\ r[j] = y
    BY <1>1, <1>7 DEF Precedes
  <2>2. at(i) \in DOMAIN s /\ at(j) \in DOMAIN s /\ at(i) < at(j) /\ s[at(i)] = x /\ s[at(j)] = y
    BY <1>1, <1>2, <1>3, <2>1
  <2>3. QED BY <2>2 DEF Precedes
<1>8. ASSUME Within(s[k], r) PROVE Precedes(s, s[k], s[k])
  <2>1. PICK j \in 1..Len(s) - 1 : r[j] = s[k]
    BY <1>1, <1>8 DEF Within
  <2>2. at(j) \in 1..Len(s) /\ at(j) # k /\ s[at(j)] = s[k]
    BY <1>2, <2>1
  <2>3. at(j) < k \/ k < at(j)
    BY <1>1, <2>2
  <2>4. QED BY <1>1, <2>2, <2>3 DEF Precedes
<1>9. QED BY <1>5, <1>6, <1>7, <1>8

(* An item is taken out of those put aside, or from the head of the port, or  *)
(* goes from the one to the other.                                           *)
LEMMA TakenAside ==
  ASSUME NEW S, NEW s \in Seq(S), NEW p \in Seq(S), NEW k \in 1..Len(s)
  PROVE  /\ RemoveAt(s, k) \in Seq(S) /\ RemoveAt(s, k) \o p \in Seq(S)
         /\ Without(RemoveAt(s, k) \o p, s \o p, k)
         /\ (s \o p)[k] = s[k] /\ k \in 1..Len(s \o p)
<1> DEFINE front == SubSeq(s, 1, k - 1)
           back == SubSeq(s, k + 1, Len(s))
           a == k - 1
           b == Len(s) - k
<1>1. Len(s) \in Nat /\ k \in Nat \ {0} /\ k <= Len(s) /\ \A j \in 1..Len(s) : s[j] \in S
  OBVIOUS
<1>2. a \in Nat /\ b \in Nat /\ a + b = Len(s) - 1 /\ a = k - 1 /\ b = Len(s) - k
  BY <1>1
<1>3. /\ 1 \in Int /\ k - 1 \in Int /\ k + 1 \in Int /\ Len(s) \in Int
      /\ (\A j \in 1..k - 1 : s[j] \in S) /\ (\A j \in k + 1..Len(s) : s[j] \in S)
  BY <1>1
<1>4. /\ front \in Seq(S)
      /\ Len(front) = IF 1 <= k - 1 THEN k - 1 - 1 + 1 ELSE 0
      /\ \A j \in 1..k - 1 - 1 + 1 : front[j] = s[1 + j - 1]
  BY <1>3, SubSeqProperties
<1>5. /\ back \in Seq(S)
      /\ Len(back) = IF k + 1 <= Len(s) THEN Len(s) - (k + 1) + 1 ELSE 0
      /\ \A j \in 1..Len(s) - (k + 1) + 1 : back[j] = s[k + 1 + j - 1]
  BY <1>3, SubSeqProperties
<1>6. RemoveAt(s, k) = front \o back
  BY DEF RemoveAt
<1> HIDE DEF front, back, a, b
<1>7. Len(front) = a /\ Len(back) = b
  <2>1. (IF 1 <= k - 1 THEN k - 1 - 1 + 1 ELSE 0) = a
    BY <1>1, <1>2
  <2>2. (IF k + 1 <= Len(s) THEN Len(s) - (k + 1) + 1 ELSE 0) = b
    <3>1. \A l \in Nat : \A i \in 1..l : (IF i + 1 <= l THEN l - (i + 1) + 1 ELSE 0) = l - i
      OBVIOUS
    <3>2. QED BY <1>1, <1>2, <3>1
  <2>3. Len(front) = a
    BY <1>4, <2>1
  <2>4. Len(back) = b
    BY <1>5, <2>2
  <2>5. QED BY <2>3, <2>4
<1>8. \A j \in 1..a : front[j] = s[j]
  <2>1. ASSUME NEW j \in 1..a PROVE j \in 1..k - 1 - 1 + 1 /\ 1 + j - 1 = j
    BY <1>1, <1>2
  <2>2. QED BY <1>4, <2>1
<1>9. \A j \in 1..b : back[j] = s[k + j]
  <2>1. ASSUME NEW j \in 1..b PROVE j \in 1..Len(s) - (k + 1) + 1 /\ k + 1 + j - 1 = k + j
    BY <1>1, <1>2
  <2>2. QED BY <1>5, <2>1
<1> DEFINE m == front \o back
           r == m \o p
           q == s \o p
<1>10. /\ m \in Seq(S) /\ Len(m) = a + b
       /\ \A j \in 1..a + b : m[j] = IF j <= a THEN front[j] ELSE back[j - a]
  BY <1>4, <1>5, <1>7, ConcatProperties
<1> HIDE DEF m
<1>11. /\ r \in Seq(S) /\ Len(r) = a + b + Len(p)
       /\ \A j \in 1..a + b + Len(p) : r[j] = IF j <= a + b THEN m[j] ELSE p[j - (a + b)]
  BY <1>10, ConcatProperties
<1>12. /\ q \in Seq(S) /\ Len(q) = Len(s) + Len(p) /\ Len(p) \in Nat
       /\ \A j \in 1..Len(s) + Len(p) : q[j] = IF j <= Len(s) THEN s[j] ELSE p[j - Len(s)]
  BY ConcatProperties
<1> HIDE DEF r, q
<1>13. ASSUME NEW j \in 1..Len(q) - 1 PROVE r[j] = IF j < k THEN q[j] ELSE q[j + 1]
  <2>1. j \in 1..a + b + Len(p) /\ j \in 1..Len(s) + Len(p) /\ j + 1 \in 1..Len(s) + Len(p)
    BY <1>2, <1>1, <1>12
  <2>2. CASE j <= a
    <3>1. j < k /\ j <= a + b /\ j <= Len(s) /\ j \in 1..a /\ j \in 1..a + b
      BY <1>1, <1>2, <2>1, <2>2
    <3>2. QED BY <1>8, <1>10, <1>11, <1>12, <2>1, <2>2, <3>1
  <2>3. CASE ~(j <= a) /\ j <= a + b
    <3>1. ~(j < k) /\ j + 1 <= Len(s) /\ j - a \in 1..b /\ k + (j - a) = j + 1 /\ j \in 1..a + b
      BY <1>1, <1>2, <2>1, <2>3
    <3>2. m[j] = s[j + 1]
      BY <1>9, <1>10, <2>3, <3>1
    <3>3. QED BY <1>11, <1>12, <2>1, <2>3, <3>1, <3>2
  <2>4. CASE ~(j <= a + b)
    <3>1. ~(j < k) /\ ~(j + 1 <= Len(s)) /\ j - (a + b) = j + 1 - Len(s)
      BY <1>1, <1>2, <2>1, <2>4
    <3>2. QED BY <1>11, <1>12, <2>1, <2>4, <3>1
  <2>5. QED BY <1>2, <2>1, <2>2, <2>3, <2>4
<1>14. Len(r) = Len(q) - 1
  BY <1>2, <1>11, <1>12
<1>15. q[k] = s[k] /\ k \in 1..Len(q)
  BY <1>1, <1>12
<1>16. QED BY <1>6, <1>10, <1>11, <1>13, <1>14, <1>15 DEF Without, m, r, q

LEMMA TakenFromPort ==
  ASSUME NEW S, NEW s \in Seq(S), NEW p \in Seq(S), p # << >>
  PROVE  /\ Tail(p) \in Seq(S) /\ s \o Tail(p) \in Seq(S)
         /\ Without(s \o Tail(p), s \o p, Len(s) + 1)
         /\ (s \o p)[Len(s) + 1] = Head(p) /\ Len(s) + 1 \in 1..Len(s \o p)
         /\ Append(s, Head(p)) \o Tail(p) = s \o p
<1> DEFINE t == Tail(p)
           h == Head(p)
           r == s \o t
           q == s \o p
<1>1. /\ t \in Seq(S) /\ Len(t) = Len(p) - 1 /\ \A j \in 1..Len(p) - 1 : t[j] = p[j + 1]
      /\ h \in S /\ h = p[1] /\ Len(p) \in Nat \ {0} /\ Len(s) \in Nat
  BY HeadTailProperties
<1> HIDE DEF t, h
<1>2. /\ r \in Seq(S) /\ Len(r) = Len(s) + Len(t)
      /\ \A j \in 1..Len(s) + Len(t) : r[j] = IF j <= Len(s) THEN s[j] ELSE t[j - Len(s)]
  BY <1>1, ConcatProperties
<1>3. /\ q \in Seq(S) /\ Len(q) = Len(s) + Len(p)
      /\ \A j \in 1..Len(s) + Len(p) : q[j] = IF j <= Len(s) THEN s[j] ELSE p[j - Len(s)]
  BY ConcatProperties
<1> HIDE DEF r, q
<1>4. Len(r) = Len(q) - 1
  BY <1>1, <1>2, <1>3
<1>5. ASSUME NEW j \in 1..Len(q) - 1 PROVE r[j] = IF j < Len(s) + 1 THEN q[j] ELSE q[j + 1]
  <2>1. j \in 1..Len(s) + Len(t) /\ j \in 1..Len(s) + Len(p) /\ j + 1 \in 1..Len(s) + Len(p)
    BY <1>1, <1>3
  <2>2. CASE j <= Len(s)
    BY <1>1, <1>2, <1>3, <2>1, <2>2
  <2>3. CASE ~(j <= Len(s))
    <3>1. ~(j < Len(s) + 1) /\ ~(j + 1 <= Len(s)) /\ j - Len(s) \in 1..Len(p) - 1 /\ j - Len(s) + 1 = j + 1 - Len(s)
      BY <1>1, <2>1, <2>3
    <3>2. r[j] = t[j - Len(s)] /\ q[j + 1] = p[j + 1 - Len(s)]
      BY <1>2, <1>3, <2>1, <2>3, <3>1
    <3>3. t[j - Len(s)] = p[j - Len(s) + 1]
      BY <1>1, <3>1
    <3>4. QED BY <3>1, <3>2, <3>3
  <2>4. QED BY <2>2, <2>3
<1>6. q[Len(s) + 1] = h /\ Len(s) + 1 \in 1..Len(q)
  <2>1. \A m \in Nat, n \in Nat \ {0} : m + 1 \in 1..m + n /\ ~(m + 1 <= m) /\ m + 1 - m = 1
    OBVIOUS
  <2>2. Len(s) \in Nat /\ Len(p) \in Nat \ {0}
    BY <1>1
  <2>3. Len(s) + 1 \in 1..Len(s) + Len(p) /\ ~(Len(s) + 1 <= Len(s)) /\ Len(s) + 1 - Len(s) = 1
    BY <2>1, <2>2
  <2>4. q[Len(s) + 1] = p[1]
    BY <1>3, <2>3
  <2>5. QED BY <1>1, <1>3, <2>3, <2>4
<1>7. Append(s, h) \o t = q
  <2> DEFINE m == Append(s, h)
  <2>1. /\ m \in Seq(S) /\ Len(m) = Len(s) + 1 /\ m[Len(s) + 1] = h
        /\ \A j \in 1..Len(s) : m[j] = s[j]
    BY <1>1
  <2> HIDE DEF m
  <2> DEFINE u == m \o t
  <2>2. /\ u \in Seq(S) /\ Len(u) = Len(m) + Len(t)
        /\ \A j \in 1..Len(m) + Len(t) : u[j] = IF j <= Len(m) THEN m[j] ELSE t[j - Len(m)]
    BY <1>1, <2>1, ConcatProperties
  <2> HIDE DEF u
  <2>3. Len(u) = Len(q)
    BY <1>1, <1>3, <2>1, <2>2
  <2>4. ASSUME NEW j \in 1..Len(u) PROVE u[j] = q[j]
    <3>1. j \in 1..Len(m) + Len(t) /\ j \in 1..Len(s) + Len(p)
      BY <1>3, <2>2, <2>3
    <3>2. CASE j <= Len(s)
      <4>1. j \in 1..Len(s) /\ j <= Len(m)
        BY <1>1, <2>1, <3>1, <3>2
      <4>2. u[j] = m[j] /\ m[j] = s[j]
        BY <2>1, <2>2, <3>1, <4>1
      <4>3. QED BY <1>3, <3>1, <3>2, <4>2
    <3>3. CASE j = Len(s) + 1
      BY <1>1, <1>6, <2>1, <2>2, <3>1, <3>3
    <3>4. CASE j > Len(s) + 1
      <4>1. ~(j <= Len(s)) /\ ~(j <= Len(m)) /\ j - Len(m) \in 1..Len(p) - 1 /\ j - Len(m) + 1 = j - Len(s)
        BY <1>1, <2>1, <3>1, <3>4
      <4>2. QED BY <1>1, <1>3, <2>2, <3>1, <4>1
    <3>5. QED BY <1>1, <3>1, <3>2, <3>3, <3>4
  <2>5. u = q
    BY <1>3, <2>2, <2>3, <2>4, SeqEqual
  <2>6. QED BY <2>5 DEF u, m
<1>8. QED BY <1>1, <1>2, <1>4, <1>5, <1>6, <1>7 DEF Without, t, h, r, q

LEMMA PutAtTheEnd ==
  ASSUME NEW S, NEW s \in Seq(S), NEW p \in Seq(S), NEW e \in S
  PROVE  s \o Append(p, e) = Append(s \o p, e)
<1>1. Append(p, e) = p \o <<e>> /\ <<e>> \in Seq(S)
  OBVIOUS
<1>2. (s \o p) \o <<e>> = s \o (p \o <<e>>) /\ s \o p \in Seq(S)
  BY <1>1, ConcatAssociative, ConcatProperties
<1> DEFINE q == s \o p
<1>3. q \in Seq(S)
  BY <1>2
<1> HIDE DEF q
<1>4. Append(q, e) = q \o <<e>>
  BY <1>3
<1>5. QED BY <1>1, <1>2, <1>4 DEF q

(* The items when one is added or taken.  A count is what it was for every    *)
(* file but one.                                                             *)
Counted(g) == \A f \in Files : g[f].done \in Nat /\ g[f].completed \in Nat /\ g[f].done <= g[f].completed
SameCounts(g, h, f) ==
  \A i \in Files : i # f => h[i].done = g[i].done /\ h[i].completed = g[i].completed

LEMMA SignInItems ==
  ASSUME NEW q \in Seq(Completions \cup {Internal}), NEW g, ItemsOf(q, g)
  PROVE  ItemsOf(Append(q, Internal), g)
<1>1. Internal \in Completions \cup {Internal}
  OBVIOUS
<1>2. \A f \in Files, n \in Nat : CompletionOf(f, n) # Internal
  BY IOPumpAssumption DEF CompletionOf, Internal
<1>3. \A x : Within(x, Append(q, Internal)) <=> Within(x, q) \/ x = Internal
  BY <1>1, Appending
<1>4. \A x, y : Precedes(Append(q, Internal), x, y) <=> Precedes(q, x, y) \/ (Within(x, q) /\ y = Internal)
  BY <1>1, PrecedesAppending
<1>5. QED BY <1>2, <1>3, <1>4 DEF ItemsOf

LEMMA CompletionInItems ==
  ASSUME NEW q \in Seq(Completions \cup {Internal}), NEW g, NEW h, ItemsOf(q, g), Counted(g),
         NEW f \in Files, SameCounts(g, h, f), h[f].done = g[f].done, h[f].completed = g[f].completed + 1
  PROVE  ItemsOf(Append(q, CompletionOf(f, g[f].completed + 1)), h)
<1> DEFINE e == CompletionOf(f, g[f].completed + 1)
           r == Append(q, e)
           d == g[f].done
           c == g[f].completed
<1>1. d \in Nat /\ c \in Nat /\ d <= c /\ c + 1 \in Nat \ {0}
  BY DEF Counted
<1>2. e \in Completions \cup {Internal}
  BY <1>1, CompletionFields
<1>3. /\ \A x : Within(x, r) <=> Within(x, q) \/ x = e
      /\ \A x, y : Precedes(r, x, y) <=> Precedes(q, x, y) \/ (Within(x, q) /\ y = e)
  BY <1>2, Appending, PrecedesAppending
<1>4. \A i \in Files, n \in Nat : CompletionOf(i, n) = e <=> i = f /\ n = c + 1
  BY CompletionEquality
<1> HIDE DEF e, r
<1>5. ASSUME NEW i \in Files, NEW n \in Nat
      PROVE  Within(CompletionOf(i, n), r) <=> n \in h[i].done + 1 .. h[i].completed
  <2>1. Within(CompletionOf(i, n), q) <=> n \in g[i].done + 1 .. g[i].completed
    BY DEF ItemsOf
  <2>2. CASE i = f
    <3>1. h[f].done = d /\ h[f].completed = c + 1
      OBVIOUS
    <3> HIDE DEF d, c
    <3>2. n \in d + 1 .. c + 1 <=> n \in d + 1 .. c \/ n = c + 1
      BY <1>1
    <3>3. QED BY <1>3, <1>4, <2>1, <2>2, <3>1, <3>2 DEF d, c
  <2>3. CASE i # f
    BY <1>3, <1>4, <2>1, <2>3 DEF SameCounts
  <2>4. QED BY <2>2, <2>3
<1>6. ASSUME NEW i \in Files, NEW m \in Nat, NEW n \in Nat,
             Precedes(r, CompletionOf(i, m), CompletionOf(i, n))
      PROVE  m < n
  <2>1. CASE Precedes(q, CompletionOf(i, m), CompletionOf(i, n))
    BY <2>1 DEF ItemsOf
  <2>2. CASE Within(CompletionOf(i, m), q) /\ CompletionOf(i, n) = e
    <3>1. i = f /\ n = c + 1
      BY <1>4, <2>2
    <3>2. m \in d + 1 .. c
      BY <2>2, <3>1 DEF ItemsOf
    <3> HIDE DEF d, c
    <3>3. QED BY <1>1, <3>1, <3>2
  <2>3. QED BY <1>3, <1>6, <2>1, <2>2
<1>7. QED BY <1>5, <1>6 DEF ItemsOf, r, e

LEMMA SignTakenFromItems ==
  ASSUME NEW q \in Seq(Completions \cup {Internal}), NEW r \in Seq(Completions \cup {Internal}),
         NEW g, ItemsOf(q, g), NEW k \in 1..Len(q), Without(r, q, k), q[k] = Internal
  PROVE  ItemsOf(r, g)
<1>1. \A f \in Files, n \in Nat : CompletionOf(f, n) # Internal
  BY IOPumpAssumption DEF CompletionOf, Internal
<1>2. /\ \A x : Within(x, r) => Within(x, q)
      /\ \A x : Within(x, q) /\ x # Internal => Within(x, r)
      /\ \A x, y : Precedes(r, x, y) => Precedes(q, x, y)
  BY WithoutElements
<1>3. QED BY <1>1, <1>2 DEF ItemsOf

LEMMA CompletionTaken ==
  ASSUME NEW q \in Seq(Completions \cup {Internal}), NEW r \in Seq(Completions \cup {Internal}),
         NEW g, NEW h, ItemsOf(q, g), Counted(g), NEW k \in 1..Len(q), Without(r, q, k),
         NEW f \in Files, SameCounts(g, h, f), h[f].done = g[f].done + 1, h[f].completed = g[f].completed,
         q[k] = CompletionOf(f, g[f].done + 1)
  PROVE  ItemsOf(r, h)
<1> DEFINE d == g[f].done
           c == g[f].completed
           e == CompletionOf(f, d + 1)
<1>1. d \in Nat /\ c \in Nat /\ d <= c /\ d + 1 \in Nat
  BY DEF Counted
<1>2. /\ \A x : Within(x, r) => Within(x, q)
      /\ \A x : Within(x, q) /\ x # e => Within(x, r)
      /\ \A x, y : Precedes(r, x, y) => Precedes(q, x, y)
      /\ Within(e, r) => Precedes(q, e, e)
  BY WithoutElements
<1>3. \A i \in Files, n \in Nat : CompletionOf(i, n) = e <=> i = f /\ n = d + 1
  BY CompletionEquality
<1>4. ~Within(e, r)
  <2>1. Precedes(q, e, e) => d + 1 < d + 1
    BY <1>1 DEF ItemsOf
  <2>2. ~(d + 1 < d + 1)
    BY <1>1
  <2>3. QED BY <1>2, <2>1, <2>2
<1> HIDE DEF e
<1>5. ASSUME NEW i \in Files, NEW n \in Nat
      PROVE  Within(CompletionOf(i, n), r) <=> n \in h[i].done + 1 .. h[i].completed
  <2>1. Within(CompletionOf(i, n), q) <=> n \in g[i].done + 1 .. g[i].completed
    BY DEF ItemsOf
  <2>2. Within(CompletionOf(i, n), r) <=> Within(CompletionOf(i, n), q) /\ CompletionOf(i, n) # e
    BY <1>2, <1>4
  <2>3. CASE i = f
    <3>1. h[f].done = d + 1 /\ h[f].completed = c
      OBVIOUS
    <3> HIDE DEF d, c
    <3>2. n \in d + 1 + 1 .. c <=> n \in d + 1 .. c /\ n # d + 1
      BY <1>1
    <3>3. QED BY <1>3, <2>1, <2>2, <2>3, <3>1, <3>2 DEF d, c
  <2>4. CASE i # f
    BY <1>3, <2>1, <2>2, <2>4 DEF SameCounts
  <2>5. QED BY <2>3, <2>4
<1>6. \A i \in Files, m, n \in Nat : Precedes(r, CompletionOf(i, m), CompletionOf(i, n)) => m < n
  BY <1>2 DEF ItemsOf
<1>7. QED BY <1>5, <1>6 DEF ItemsOf

(* The first item of a file is the completion that is due.  So is its only    *)
(* one.                                                                      *)
LEMMA FirstItem ==
  ASSUME NEW q \in Seq(Completions \cup {Internal}), NEW g, ItemsOf(q, g), Counted(g),
         NEW k \in 1..Len(q), q[k] \in Completions,
         \/ \A j \in 1..Len(q) : j < k => q[j].of # q[k].of
         \/ g[q[k].of].completed <= g[q[k].of].done + 1
  PROVE  LET f == q[k].of
         IN  /\ f \in Files /\ g[f].done < g[f].completed
             /\ q[k] = CompletionOf(f, g[f].done + 1)
<1> DEFINE f == q[k].of
           n == q[k].n
           d == g[f].done
           c == g[f].completed
<1>1. f \in Files /\ n \in Nat \ {0} /\ q[k] = CompletionOf(f, n)
  BY CompletionShape
<1>2. d \in Nat /\ c \in Nat /\ DOMAIN q = 1..Len(q) /\ Len(q) \in Nat
  BY <1>1 DEF Counted
<1>3. n \in d + 1 .. c
  BY <1>1, <1>2 DEF ItemsOf, Within
<1> HIDE DEF n
<1>4. CASE c <= d + 1
  <2> HIDE DEF d, c
  <2>1. n = d + 1 /\ d < c
    BY <1>1, <1>2, <1>3, <1>4
  <2>2. QED BY <1>1, <2>1 DEF d, c
<1>5. CASE \A j \in 1..Len(q) : j < k => q[j].of # f
  <2>1. d + 1 \in d + 1 .. c /\ d + 1 \in Nat /\ d < c
    <3> HIDE DEF d, c
    <3>1. QED BY <1>1, <1>2, <1>3
  <2>2. Within(CompletionOf(f, d + 1), q)
    BY <1>1, <2>1 DEF ItemsOf
  <2>3. PICK j \in 1..Len(q) : q[j] = CompletionOf(f, d + 1)
    BY <1>2, <2>2 DEF Within
  <2>4. q[j].of = f
    BY <2>3 DEF CompletionOf
  <2>5. ~(j < k)
    BY <1>5, <2>4
  <2>6. CASE j = k
    BY <1>1, <2>1, <2>3, <2>6
  <2>7. CASE k < j
    <3>1. Precedes(q, CompletionOf(f, n), CompletionOf(f, d + 1))
      BY <1>1, <1>2, <2>3, <2>7 DEF Precedes
    <3>2. n < d + 1
      BY <1>1, <2>1, <3>1 DEF ItemsOf
    <3> HIDE DEF d, c
    <3>3. QED BY <1>1, <1>2, <1>3, <3>2
  <2>8. QED BY <1>2, <2>5, <2>6, <2>7
<1>6. QED BY <1>4, <1>5

(* A step of one file, and steps of none.                                     *)
LEMMA OneFileMoves ==
  ASSUME IOFiles, NEW f \in Files, NEW r \in FileTypes, file' = [file EXCEPT ![f] = r], FileOK(f, r),
         ItemTypes', ItemsOf(Items', file')
  PROVE  IOFiles'
<1>1. file \in [Files -> FileTypes] /\ \A g \in Files : FileOK(g, file[g])
  BY DEF IOFiles
<1>2. file' \in [Files -> FileTypes] /\ file'[f] = r /\ \A g \in Files : g # f => file'[g] = file[g]
  BY <1>1
<1>3. \A g \in Files : FileOK(g, file'[g])
  BY <1>1, <1>2, Zenon
<1>4. QED BY <1>2, <1>3 DEF IOFiles, FileOK

LEMMA NoFileMoves ==
  ASSUME IOFiles, UNCHANGED file, ItemTypes', ItemsOf(Items', file)
  PROVE  IOFiles'
  BY DEF IOFiles, FileOK

LEMMA ItemsKept ==
  ASSUME IOFiles, UNCHANGED <<file, saved, port>>
  PROVE  IOFiles'
  BY DEF IOFiles, ItemTypes, Items, FileOK

LEMMA Counts ==
  ASSUME IOFiles
  PROVE  /\ Counted(file) /\ Items \in Seq(Completions \cup {Internal})
         /\ saved \in Seq(Completions \cup {Internal}) /\ saved \in Seq(Completions)
         /\ port \in Seq(Completions \cup {Internal})
         /\ ItemsOf(Items, file)
         /\ \A f \in Files : /\ file[f] \in FileTypes /\ FileOK(f, file[f])
                             /\ file[f].done \in Nat /\ file[f].completed \in Nat
<1>1. /\ file \in [Files -> FileTypes] /\ \A f \in Files : FileOK(f, file[f])
      /\ ItemTypes /\ ItemsOf(Items, file)
  BY DEF IOFiles
<1>2. \A f \in Files : file[f] \in FileTypes /\ file[f].done \in Nat /\ file[f].completed \in Nat
  BY <1>1 DEF FileTypes
<1>3. \A f \in Files : file[f].done <= file[f].completed
  BY <1>1 DEF FileOK
<1>4. saved \in Seq(Completions) /\ port \in Seq(Completions \cup {Internal})
  BY <1>1 DEF ItemTypes
<1>5. saved \in Seq(Completions \cup {Internal})
  BY <1>4
<1>6. Items \in Seq(Completions \cup {Internal})
  BY <1>4, <1>5, ConcatProperties DEF Items
<1>7. QED BY <1>1, <1>2, <1>3, <1>4, <1>5, <1>6 DEF Counted

LEMMA PortGrows ==
  ASSUME IOFiles, UNCHANGED <<file, saved>>, port' = Append(port, Internal)
  PROVE  IOFiles'
<1>1. Internal \in Completions \cup {Internal}
  OBVIOUS
<1>2. ItemTypes'
  BY <1>1, Counts DEF ItemTypes
<1>3. Items' = Append(Items, Internal)
  BY <1>1, Counts, PutAtTheEnd DEF Items
<1>4. ItemsOf(Items', file)
  BY <1>3, Counts, SignInItems
<1>5. QED BY <1>2, <1>4, NoFileMoves

LEMMA CompletesFiles ==
  ASSUME IOFiles, NEW f \in Files, Completes(f)
  PROVE  IOFiles'
<1> DEFINE o == file[f]
           r == [o EXCEPT !.inFlight = @ - 1, !.completed = @ + 1]
           e == CompletionOf(f, o.completed + 1)
<1>1. o \in FileTypes /\ FileOK(f, o) /\ o.inFlight > 0 /\ o.completed \in Nat
  BY Counts DEF Completes
<1>2. /\ r \in FileTypes /\ r.inFlight = o.inFlight - 1 /\ r.completed = o.completed + 1 /\ r.done = o.done
      /\ r.started = o.started /\ r.contexts = o.contexts /\ r.life = o.life /\ r.orphan = o.orphan
  <2>1. o.inFlight \in Nat /\ o.completed \in Nat
    BY <1>1 DEF FileTypes
  <2> DEFINE a == o.inFlight - 1
             b == o.completed + 1
  <2>2. a \in Nat /\ b \in Nat /\ r = [o EXCEPT !.inFlight = a, !.completed = b]
    BY <1>1, <2>1
  <2> HIDE DEF o, r, a, b
  <2>3. /\ r \in FileTypes /\ r.inFlight = a /\ r.completed = b /\ r.done = o.done
        /\ r.started = o.started /\ r.contexts = o.contexts /\ r.life = o.life /\ r.orphan = o.orphan
    BY <1>1, <2>2 DEF FileTypes
  <2>4. QED BY <2>3 DEF a, b
<1>3. FileOK(f, r)
  <2>1. o.started \in Nat /\ o.inFlight \in Nat /\ o.completed \in Nat /\ o.done \in Nat
    BY <1>1 DEF FileTypes
  <2> HIDE DEF o, r
  <2>2. r.started = r.inFlight + r.completed /\ r.done <= r.completed
    BY <1>1, <1>2, <2>1 DEF FileOK
  <2>3. QED BY <1>1, <1>2, <2>2 DEF FileOK
<1>4. file' = [file EXCEPT ![f] = r]
  <2>1. file \in [Files -> FileTypes]
    BY DEF IOFiles
  <2>2. QED BY <2>1 DEF Completes
<1>5. e \in Completions \cup {Internal}
  BY <1>1, CompletionFields
<1>6. port' = Append(port, e) /\ UNCHANGED saved
  BY DEF Completes, CompletionOf
<1>7. ItemTypes'
  BY <1>5, <1>6, Counts DEF ItemTypes
<1>8. Items' = Append(Items, e)
  BY <1>5, <1>6, Counts, PutAtTheEnd DEF Items
<1>9. /\ SameCounts(file, file', f)
      /\ file'[f].done = o.done /\ file'[f].completed = o.completed + 1
  <2>1. file'[f] = r /\ \A g \in Files : g # f => file'[g] = file[g]
    BY <1>4 DEF IOFiles
  <2>2. QED BY <1>2, <2>1 DEF SameCounts
<1>10. ItemsOf(Items', file')
  <2>1. ItemsOf(Append(Items, CompletionOf(f, file[f].completed + 1)), file')
    BY <1>9, Counts, CompletionInItems
  <2>2. QED BY <1>8, <2>1
<1>11. QED BY <1>2, <1>3, <1>4, <1>7, <1>10, OneFileMoves

(* A file of which an item was delivered, or just its context deleted.        *)
Received(f, o) ==
  [o EXCEPT !.done = @ + 1, !.contexts = IF o.orphan \/ f \in WaitingFiles THEN @ - 1 ELSE @]

LEMMA DeliveredFile ==
  ASSUME NEW f \in Files, NEW o \in FileTypes, FileOK(f, o), o.done < o.completed
  PROVE  /\ Received(f, o) \in FileTypes /\ FileOK(f, Received(f, o))
         /\ Received(f, o).done = o.done + 1 /\ Received(f, o).completed = o.completed
<1> DEFINE r == Received(f, o)
<1>1. /\ o.started \in Nat /\ o.inFlight \in Nat /\ o.completed \in Nat /\ o.done \in Nat
      /\ o.contexts \in Int /\ o.orphan \in BOOLEAN
  BY DEF FileTypes
<1> DEFINE a == o.done + 1
           b == IF o.orphan \/ f \in WaitingFiles THEN o.contexts - 1 ELSE o.contexts
<1>2. a \in Nat /\ b \in Int /\ r = [o EXCEPT !.done = a, !.contexts = b]
  BY <1>1 DEF Received
<1>3. b = IF o.orphan \/ f \in WaitingFiles THEN o.contexts - 1 ELSE o.contexts
  OBVIOUS
<1>4. a = o.done + 1
  OBVIOUS
<1> HIDE DEF a, b, r
<1>5. /\ r \in FileTypes /\ r.done = a /\ r.contexts = b /\ r.inFlight = o.inFlight
      /\ r.started = o.started /\ r.completed = o.completed /\ r.life = o.life /\ r.orphan = o.orphan
  BY <1>2 DEF FileTypes
<1>6. r.started = r.inFlight + r.completed /\ r.done <= r.completed
  BY <1>1, <1>4, <1>5 DEF FileOK
<1>7. f \in WaitingFiles =>
        /\ ~r.orphan /\ r.contexts = r.started - r.done
        /\ r.life = "gone" => r.started = r.done
  BY <1>1, <1>3, <1>4, <1>5 DEF FileOK
<1>8. f \notin WaitingFiles =>
        /\ r.started - r.done <= 1 /\ r.life # "dying"
        /\ r.contexts = IF r.started - r.done = 1 \/ r.life = "alive" THEN 1 ELSE 0
        /\ r.orphan => r.life = "gone"
        /\ r.started - r.done = 1 /\ r.life = "gone" => r.orphan
  <2>1. SUFFICES ASSUME f \notin WaitingFiles
                 PROVE  /\ r.started - r.done <= 1 /\ r.life # "dying"
                        /\ r.contexts = IF r.started - r.done = 1 \/ r.life = "alive" THEN 1 ELSE 0
                        /\ r.orphan => r.life = "gone"
                        /\ r.started - r.done = 1 /\ r.life = "gone" => r.orphan
    OBVIOUS
  <2>2. /\ o.started - o.done <= 1 /\ o.life # "dying" /\ o.started = o.inFlight + o.completed
        /\ o.contexts = IF o.started - o.done = 1 \/ o.life = "alive" THEN 1 ELSE 0
        /\ o.orphan => o.life = "gone"
        /\ o.started - o.done = 1 /\ o.life = "gone" => o.orphan
    BY <2>1 DEF FileOK
  <2>3. o.started = o.done + 1
    BY <1>1, <2>2
  <2>4. r.started - r.done = 0 /\ o.contexts = 1 /\ o.started - o.done = 1
    BY <1>1, <1>4, <1>5, <2>2, <2>3
  <2>5. o.life \in {"alive", "dying", "gone"}
    BY DEF FileTypes
  <2>6. r.contexts = IF o.orphan THEN 0 ELSE 1
    BY <1>3, <1>5, <2>1, <2>4
  <2>7. o.orphan <=> o.life # "alive"
    BY <2>2, <2>4, <2>5
  <2>8. QED BY <1>5, <2>2, <2>4, <2>6, <2>7
<1>9. FileOK(f, r)
  BY <1>6, <1>7, <1>8 DEF FileOK
<1>10. QED BY <1>4, <1>5, <1>9 DEF r

(* An item goes to its handler, or its context is deleted.                    *)
LEMMA ItemTaken ==
  ASSUME IOFiles, NEW k \in 1..Len(Items), Items[k] \in Completions,
         \/ \A j \in 1..Len(Items) : j < k => Items[j].of # Items[k].of
         \/ file[Items[k].of].orphan,
         ItemTypes', Without(Items', Items, k), Items' \in Seq(Completions \cup {Internal}),
         NEW f, f = Items[k].of,
         file' = [file EXCEPT ![f] = Received(f, file[f])]
  PROVE  IOFiles'
<1> DEFINE o == file[f]
           q == Items
           p == Items'
           g == file'
           r == Received(f, o)
<1>1. f \in Files /\ file \in [Files -> FileTypes] /\ o \in FileTypes /\ FileOK(f, o)
  <2>1. f \in Files
    BY CompletionShape
  <2>2. QED BY <2>1, Counts DEF IOFiles
<1>2. o.orphan => o.completed <= o.done + 1
  <2>1. /\ o.started \in Nat /\ o.inFlight \in Nat /\ o.completed \in Nat /\ o.done \in Nat
    BY <1>1 DEF FileTypes
  <2>2. o.orphan => o.started - o.done <= 1
    BY <1>1 DEF FileOK
  <2>3. o.started = o.inFlight + o.completed
    BY <1>1 DEF FileOK
  <2> HIDE DEF o
  <2>4. QED BY <2>1, <2>2, <2>3
<1>3. q \in Seq(Completions \cup {Internal}) /\ ItemsOf(q, file) /\ Counted(file)
  BY Counts
<1>4. o.done < o.completed /\ q[k] = CompletionOf(f, o.done + 1)
  <2>1. \/ \A j \in 1..Len(q) : j < k => q[j].of # q[k].of
        \/ file[q[k].of].completed <= file[q[k].of].done + 1
    BY <1>2
  <2>2. k \in 1..Len(q) /\ q[k] \in Completions
    OBVIOUS
  <2>3. f = q[k].of
    OBVIOUS
  <2> HIDE DEF q, o, r
  <2>4. /\ file[q[k].of].done < file[q[k].of].completed
        /\ q[k] = CompletionOf(q[k].of, file[q[k].of].done + 1)
    BY <1>3, <2>1, <2>2, FirstItem
  <2>5. QED BY <2>3, <2>4 DEF o
<1>5. r \in FileTypes /\ FileOK(f, r) /\ r.done = o.done + 1 /\ r.completed = o.completed
  <2> HIDE DEF o, q, p, g
  <2>1. QED BY <1>1, <1>4, DeliveredFile
<1>6. g = [file EXCEPT ![f] = r]
  OBVIOUS
<1> HIDE DEF r
<1>7. g[f] = r /\ \A i \in Files : i # f => g[i] = file[i]
  BY <1>1, <1>6
<1>8. SameCounts(file, g, f) /\ g[f].done = file[f].done + 1 /\ g[f].completed = file[f].completed
  BY <1>5, <1>7 DEF SameCounts
<1>9. ItemsOf(p, g)
  <2>1. p \in Seq(Completions \cup {Internal}) /\ k \in 1..Len(q) /\ Without(p, q, k)
    OBVIOUS
  <2> HIDE DEF p, q, g, o
  <2>2. q[k] = CompletionOf(f, file[f].done + 1)
    BY <1>4 DEF o
  <2>3. QED BY <1>1, <1>3, <1>8, <2>1, <2>2, CompletionTaken
<1>10. QED BY <1>1, <1>5, <1>6, <1>9, OneFileMoves

LEMMA DeliverEffect ==
  ASSUME IOFiles, NEW item \in Completions, NEW rest, Deliver(item, rest), NEW f, f = item.of
  PROVE  \/ /\ file' = [file EXCEPT ![f] = Received(f, file[f])] /\ saved' = rest
            /\ file[f].orphan \/ Top.of \in {NoFile, f}
         \/ UNCHANGED file /\ saved' = Append(rest, item) /\ Top.of \notin {NoFile, f}
<1>1. f \in Files /\ file \in [Files -> FileTypes]
  BY CompletionShape DEF IOFiles
<1>2. CASE file[f].orphan
  <2>1. /\ file' = [file EXCEPT ![f].done = @ + 1, ![f].contexts = @ - 1]
        /\ saved' = rest
    BY <1>2 DEF Deliver
  <2>2. file' = [file EXCEPT ![f] = Received(f, file[f])]
    BY <1>1, <1>2, <2>1 DEF Received
  <2>3. QED BY <1>2, <2>1, <2>2
<1>3. CASE ~file[f].orphan /\ Top.of \in {NoFile, f}
  <2>1. /\ file' = [file EXCEPT ![f].done = @ + 1,
                                ![f].contexts = IF f \in WaitingFiles THEN @ - 1 ELSE @]
        /\ saved' = rest
    BY <1>3 DEF Deliver, Called
  <2>2. file' = [file EXCEPT ![f] = Received(f, file[f])]
    BY <1>1, <1>3, <2>1 DEF Received
  <2>3. QED BY <1>3, <2>1, <2>2
<1>4. CASE ~file[f].orphan /\ Top.of \notin {NoFile, f}
  BY <1>4 DEF Deliver
<1>5. QED BY <1>2, <1>3, <1>4

LEMMA WaitMatchesFiles ==
  ASSUME IOFiles, WaitMatches
  PROVE  IOFiles'
<1> DEFINE k == Min(Matching(Top.of))
           item == saved[k]
           rest == RemoveAt(saved, k)
<1>1. Matching(Top.of) # {} /\ Deliver(item, rest) /\ UNCHANGED port
  BY DEF WaitMatches
<1>2. saved \in Seq(Completions) /\ port \in Seq(Completions \cup {Internal}) /\ Items \in Seq(Completions \cup {Internal})
  BY Counts
<1>3. /\ k \in Matching(Top.of) /\ Matching(Top.of) \subseteq 1..Len(saved)
      /\ \A j \in Matching(Top.of) : k <= j
  BY <1>1, <1>2, MatchingPlace
<1>4. k \in 1..Len(saved) /\ DOMAIN saved = 1..Len(saved) /\ Len(saved) \in Nat
  BY <1>2, <1>3
<1> HIDE DEF k
<1>5. item \in Completions
  BY <1>2, <1>4
<1>6. Top.of \in {NoFile, item.of}
  BY <1>3 DEF Matching
<1>7. \A j \in 1..Len(saved) : j < k => saved[j].of # item.of
  <2>1. ASSUME NEW j \in 1..Len(saved), j < k, saved[j].of = item.of
        PROVE  FALSE
    <3>1. j \in Matching(Top.of)
      BY <1>4, <1>6, <2>1 DEF Matching
    <3>2. k <= j
      BY <1>3, <3>1
    <3>3. QED BY <1>4, <2>1, <3>2
  <2>2. QED BY <2>1
<1>8. /\ rest \in Seq(Completions) /\ rest \o port \in Seq(Completions \cup {Internal})
      /\ Without(rest \o port, Items, k) /\ Items[k] = item /\ k \in 1..Len(Items)
  <2>1. saved \in Seq(Completions \cup {Internal})
    BY <1>2
  <2>2. /\ rest \o port \in Seq(Completions \cup {Internal})
        /\ Without(rest \o port, Items, k) /\ Items[k] = item /\ k \in 1..Len(Items)
    BY <1>2, <1>4, <2>1, TakenAside DEF Items
  <2>3. rest \in Seq(Completions)
    BY <1>2, <1>4, TakenAside
  <2>4. QED BY <2>2, <2>3
<1>9. \A j \in 1..Len(Items) : j < k => Items[j].of # Items[k].of
  <2>1. \A j \in 1..Len(saved) : Items[j] = saved[j]
    BY <1>2 DEF Items
  <2>2. \A j \in 1..Len(Items) : j < k => j \in 1..Len(saved)
    BY <1>2, <1>4
  <2>3. QED BY <1>7, <1>8, <2>1, <2>2
<1> HIDE DEF item, rest
<1>10. file' = [file EXCEPT ![item.of] = Received(item.of, file[item.of])] /\ saved' = rest
  BY <1>1, <1>5, <1>6, DeliverEffect
<1>11. ItemTypes' /\ Items' = rest \o port
  BY <1>1, <1>2, <1>8, <1>10 DEF ItemTypes, Items
<1>12. Without(Items', Items, k) /\ Items' \in Seq(Completions \cup {Internal}) /\ item.of = Items[k].of
  BY <1>8, <1>11
<1>13. k \in 1..Len(Items) /\ Items[k] \in Completions
  BY <1>5, <1>8
<1>14. QED BY <1>9, <1>10, <1>11, <1>12, <1>13, ItemTaken

LEMMA WaitGetsFiles ==
  ASSUME IOFiles, WaitGets
  PROVE  IOFiles'
<1> DEFINE k == Len(saved) + 1
           item == Head(port)
<1>1. /\ Matching(Top.of) = {} /\ port # << >> /\ port' = Tail(port)
      /\ IF item = Internal THEN UNCHANGED <<saved, file>> ELSE Deliver(item, saved)
  BY DEF WaitGets
<1>2. /\ saved \in Seq(Completions) /\ saved \in Seq(Completions \cup {Internal})
      /\ port \in Seq(Completions \cup {Internal}) /\ Items \in Seq(Completions \cup {Internal})
      /\ ItemsOf(Items, file)
  BY Counts
<1>3. /\ Tail(port) \in Seq(Completions \cup {Internal})
      /\ saved \o Tail(port) \in Seq(Completions \cup {Internal})
      /\ Without(saved \o Tail(port), Items, k)
      /\ Items[k] = item /\ k \in 1..Len(Items)
      /\ Append(saved, item) \o Tail(port) = Items
  BY <1>1, <1>2, TakenFromPort DEF Items
<1>4. item \in Completions \cup {Internal}
  BY <1>1, <1>2
<1>5. Len(saved) \in Nat /\ Len(Items) \in Nat /\ k = Len(saved) + 1
  BY <1>2
<1> HIDE DEF item, k
<1>6. CASE item = Internal
  <2>1. saved' = saved /\ file' = file /\ port' = Tail(port)
    BY <1>1, <1>6
  <2>2. ItemTypes' /\ Items' = saved \o Tail(port)
    BY <1>2, <1>3, <2>1 DEF ItemTypes, Items
  <2>3. ItemsOf(Items', file)
    BY <1>2, <1>3, <1>6, <2>2, SignTakenFromItems
  <2>4. QED BY <2>1, <2>2, <2>3, NoFileMoves
<1>7. CASE item # Internal
  <2> DEFINE f == item.of
  <2>1. item \in Completions /\ Deliver(item, saved)
    BY <1>1, <1>4, <1>7
  <2>2. \/ /\ file' = [file EXCEPT ![f] = Received(f, file[f])] /\ saved' = saved
           /\ file[f].orphan \/ Top.of \in {NoFile, f}
        \/ UNCHANGED file /\ saved' = Append(saved, item)
    BY <2>1, DeliverEffect
  <2>3. CASE UNCHANGED file /\ saved' = Append(saved, item)
    <3>1. ItemTypes' /\ Items' = Items
      BY <1>1, <1>2, <1>3, <2>1, <2>3 DEF ItemTypes, Items
    <3>2. QED BY <1>2, <2>3, <3>1, NoFileMoves
  <2>4. CASE /\ file' = [file EXCEPT ![f] = Received(f, file[f])] /\ saved' = saved
             /\ file[f].orphan \/ Top.of \in {NoFile, f}
    <3>1. ItemTypes' /\ Items' = saved \o Tail(port)
      BY <1>1, <1>2, <1>3, <2>4 DEF ItemTypes, Items
    <3>2. Without(Items', Items, k) /\ Items' \in Seq(Completions \cup {Internal}) /\ f = Items[k].of
          /\ Items[k] \in Completions
      BY <1>3, <2>1, <3>1
    <3>3. \/ \A j \in 1..Len(Items) : j < k => Items[j].of # Items[k].of
          \/ file[Items[k].of].orphan
      <4>1. CASE file[f].orphan
        BY <3>2, <4>1
      <4>2. CASE Top.of \in {NoFile, f}
        <5>1. \A j \in 1..Len(saved) : saved[j].of # f
          BY <1>1, <1>2, <4>2 DEF Matching
        <5>2. \A j \in 1..Len(saved) : Items[j] = saved[j]
          BY <1>2 DEF Items
        <5>3. \A j \in 1..Len(Items) : j < k => j \in 1..Len(saved)
          BY <1>5
        <5>4. QED BY <3>2, <5>1, <5>2, <5>3
      <4>3. QED BY <2>4, <4>1, <4>2
    <3>4. k \in 1..Len(Items)
      BY <1>3
    <3> HIDE DEF f
    <3>5. QED BY <2>4, <3>1, <3>2, <3>3, <3>4, ItemTaken
  <2>5. QED BY <2>2, <2>3, <2>4
<1>8. QED BY <1>6, <1>7

(* Steps of a file's owner: no item moves, and none is delivered.             *)
LEMMA OwnerMoves ==
  ASSUME IOFiles, NEW f \in Files, NEW r \in FileTypes, file' = [file EXCEPT ![f] = r], FileOK(f, r),
         r.done = file[f].done, r.completed = file[f].completed, UNCHANGED <<saved, port>>
  PROVE  IOFiles'
<1>1. file \in [Files -> FileTypes] /\ ItemTypes /\ ItemsOf(Items, file)
  BY DEF IOFiles
<1>2. file'[f] = r /\ \A g \in Files : g # f => file'[g] = file[g]
  BY <1>1
<1>3. \A g \in Files : file'[g].done = file[g].done /\ file'[g].completed = file[g].completed
  BY <1>2
<1>4. ItemTypes' /\ Items' = Items
  BY <1>1 DEF ItemTypes, Items
<1>5. ItemsOf(Items', file')
  BY <1>1, <1>3, <1>4 DEF ItemsOf
<1>6. QED BY <1>4, <1>5, OneFileMoves

LEMMA StartOperationFiles ==
  ASSUME IOFiles, NEW f \in Files, StartOperation(f)
  PROVE  IOFiles'
<1> DEFINE o == file[f]
           a == o.started + 1
           b == o.inFlight + 1
           c == IF f \in WaitingFiles THEN o.contexts + 1 ELSE o.contexts
           r == [o EXCEPT !.started = a, !.inFlight = b, !.contexts = c]
<1>1. o \in FileTypes /\ FileOK(f, o) /\ o.life = "alive"
  BY Counts DEF StartOperation
<1>2. /\ o.started \in Nat /\ o.inFlight \in Nat /\ o.completed \in Nat /\ o.done \in Nat
      /\ o.contexts \in Int /\ o.orphan \in BOOLEAN
  BY <1>1 DEF FileTypes
<1>3. /\ a \in Nat /\ b \in Nat /\ c \in Int /\ a = o.started + 1 /\ b = o.inFlight + 1
      /\ c = IF f \in WaitingFiles THEN o.contexts + 1 ELSE o.contexts
  BY <1>2
<1>4. f \notin WaitingFiles => o.started - o.done = 0
  BY DEF StartOperation, Outstanding
<1>5. file' = [file EXCEPT ![f] = r] /\ UNCHANGED <<saved, port>>
  <2>1. file \in [Files -> FileTypes]
    BY DEF IOFiles
  <2>2. QED BY <2>1 DEF StartOperation
<1> HIDE DEF o, a, b, c
<1>6. /\ r \in FileTypes /\ r.started = a /\ r.inFlight = b /\ r.contexts = c
      /\ r.done = o.done /\ r.completed = o.completed /\ r.life = o.life /\ r.orphan = o.orphan
  BY <1>1, <1>3 DEF FileTypes
<1> HIDE DEF r
<1>7. FileOK(f, r)
  <2>1. r.started = r.inFlight + r.completed /\ r.done <= r.completed
    BY <1>1, <1>2, <1>3, <1>6 DEF FileOK
  <2>2. f \in WaitingFiles => ~r.orphan /\ r.contexts = r.started - r.done /\ r.life # "gone"
    BY <1>1, <1>2, <1>3, <1>6 DEF FileOK
  <2>3. f \notin WaitingFiles => r.started - r.done = 1 /\ r.contexts = 1 /\ ~r.orphan
    BY <1>1, <1>2, <1>3, <1>4, <1>6 DEF FileOK
  <2>4. QED BY <1>1, <1>6, <2>1, <2>2, <2>3 DEF FileOK
<1>8. QED BY <1>5, <1>6, <1>7, OwnerMoves DEF o

LEMMA DestroyFileFiles ==
  ASSUME IOFiles, NEW f \in Files, DestroyFile(f)
  PROVE  IOFiles'
<1> DEFINE o == file[f]
           a == Outstanding(f) > 0
           c == IF Outstanding(f) > 0 THEN o.contexts ELSE o.contexts - 1
           r == [o EXCEPT !.life = "gone", !.orphan = a, !.contexts = c]
<1>1. o \in FileTypes /\ FileOK(f, o) /\ o.life = "alive" /\ f \notin WaitingFiles
  BY Counts DEF DestroyFile
<1>2. /\ o.started \in Nat /\ o.inFlight \in Nat /\ o.completed \in Nat /\ o.done \in Nat
      /\ o.contexts \in Int
  BY <1>1 DEF FileTypes
<1>3. /\ a \in BOOLEAN /\ c \in Int /\ (a <=> o.started - o.done > 0)
      /\ c = IF a THEN o.contexts ELSE o.contexts - 1
  BY <1>2 DEF Outstanding
<1>4. file' = [file EXCEPT ![f] = r] /\ UNCHANGED <<saved, port>>
  <2>1. file \in [Files -> FileTypes]
    BY DEF IOFiles
  <2>2. QED BY <2>1 DEF DestroyFile
<1> HIDE DEF o, a, c
<1>5. /\ r \in FileTypes /\ r.life = "gone" /\ r.orphan = a /\ r.contexts = c
      /\ r.done = o.done /\ r.completed = o.completed /\ r.started = o.started /\ r.inFlight = o.inFlight
  BY <1>1, <1>3 DEF FileTypes
<1> HIDE DEF r
<1>6. FileOK(f, r)
  <2>1. r.started = r.inFlight + r.completed /\ r.done <= r.completed
    BY <1>1, <1>5 DEF FileOK
  <2>2. o.started = o.inFlight + o.completed /\ o.done <= o.completed /\ o.contexts = 1 /\ o.started - o.done <= 1
    BY <1>1 DEF FileOK
  <2>3. /\ o.started - o.done \in {0, 1}
        /\ a <=> o.started - o.done = 1
        /\ c = IF o.started - o.done = 1 THEN 1 ELSE 0
    BY <1>2, <1>3, <2>2
  <2>4. QED BY <1>1, <1>5, <2>1, <2>2, <2>3 DEF FileOK
<1>7. QED BY <1>4, <1>5, <1>6, OwnerMoves DEF o

LEMMA DestructorFiles ==
  ASSUME IOFiles, IOStack(stack), DestructorEnds \/ \E f \in Files : StartDestructor(f)
  PROVE  IOFiles'
<1>1. PICK f \in WaitingFiles, life \in {"dying", "gone"} :
        /\ file' = [file EXCEPT ![f].life = life] /\ UNCHANGED <<saved, port>>
        /\ life = "gone" => Outstanding(f) = 0
  <2>1. CASE DestructorEnds
    <3>1. Running /\ Top.what = "destroy" /\ Outstanding(Top.of) = 0
      BY <2>1 DEF DestructorEnds, In
    <3>2. Top.of \in WaitingFiles
      BY <3>1, TopOfStack DEF Running, Top
    <3>3. file' = [file EXCEPT ![Top.of].life = "gone"] /\ UNCHANGED <<saved, port>>
      BY <2>1 DEF DestructorEnds
    <3>4. QED BY <3>1, <3>2, <3>3
  <2>2. CASE \E f \in Files : StartDestructor(f)
    <3>1. PICK f \in Files : StartDestructor(f)
      BY <2>2
    <3>2. f \in WaitingFiles /\ file' = [file EXCEPT ![f].life = "dying"] /\ UNCHANGED <<saved, port>>
      BY <3>1 DEF StartDestructor
    <3>3. QED BY <3>2
  <2>3. QED BY <2>1, <2>2
<1> DEFINE o == file[f]
           r == [o EXCEPT !.life = life]
<1>2. f \in Files
  BY IOPumpAssumption
<1>3. o \in FileTypes /\ FileOK(f, o)
  BY <1>2, Counts
<1>4. life = "gone" => o.started - o.done = 0
  BY <1>1 DEF Outstanding
<1>5. o.started \in Nat /\ o.done \in Nat
  BY <1>3 DEF FileTypes
<1>6. file' = [file EXCEPT ![f] = r] /\ UNCHANGED <<saved, port>>
  BY <1>1, <1>2 DEF IOFiles
<1> HIDE DEF o
<1>7. /\ r \in FileTypes /\ r.life = life /\ r.orphan = o.orphan /\ r.contexts = o.contexts
      /\ r.done = o.done /\ r.completed = o.completed /\ r.started = o.started /\ r.inFlight = o.inFlight
  BY <1>3 DEF FileTypes
<1> HIDE DEF r
<1>8. FileOK(f, r)
  <2>1. life = "gone" => o.started = o.done
    BY <1>4, <1>5
  <2>2. QED BY <1>3, <1>7, <2>1 DEF FileOK
<1>9. QED BY <1>2, <1>6, <1>7, <1>8, OwnerMoves DEF o

(* The first step of everything.                                              *)
LEMMA IOInitInvariant ==
  ASSUME IOInit
  PROVE  IOInv /\ IOFiles
<1>1. /\ stack = << >> /\ haveWork = FALSE /\ delayedTime = "null"
      /\ poster = [t \in Posters |-> "idle"]
      /\ incoming = << >> /\ workQueue = << >> /\ waiting = 0 /\ due = 0
      /\ port = << >> /\ saved = << >> /\ file = [f \in Files |-> NewFile(f)]
  BY DEF IOInit, PumpInit
<1>2. IOStack(stack) /\ ~IOResting(stack) /\ ~IsAt("wait", "reset")
  BY <1>1 DEF IOStack, IOResting, IsAt, Running
<1>3. IOQueues /\ DelayKnown
  <2>1. << >> \in Seq(Kinds) /\ poster \in [Posters -> {"idle", "schedule", "post"}]
    BY <1>1
  <2>2. ~(waiting + due > 0)
    BY <1>1
  <2>3. QED BY <1>1, <2>1, <2>2 DEF IOQueues, QueuesOK, PosterTypes, DelayKnown
<1>4. Places(Internal, port) = {} /\ Posting(poster) = {}
  BY <1>1 DEF Places, Posting
<1>5. IOWakeup
  BY <1>1, <1>2, <1>4 DEF IOWakeup, OneSign
<1>6. \A f \in Files : NewFile(f) \in FileTypes /\ FileOK(f, NewFile(f))
                       /\ NewFile(f).done = 0 /\ NewFile(f).completed = 0
  <2>1. ASSUME NEW f \in Files
        PROVE  NewFile(f) \in FileTypes /\ FileOK(f, NewFile(f))
               /\ NewFile(f).done = 0 /\ NewFile(f).completed = 0
    BY DEF NewFile, FileTypes, FileOK
  <2>2. QED BY <2>1
<1>7. \A f \in Files : file[f] = NewFile(f)
  BY <1>1
<1>8. file \in [Files -> FileTypes] /\ \A f \in Files : FileOK(f, file[f])
  BY <1>1, <1>6, <1>7
<1>9. Items = << >> /\ ItemTypes
  BY <1>1 DEF Items, ItemTypes
<1>10. ItemsOf(Items, file)
  <2>1. \A x, y : ~Precedes(<< >>, x, y) /\ ~Within(x, << >>)
    BY DEF Precedes, Within
  <2>2. QED BY <1>6, <1>7, <1>9, <2>1 DEF ItemsOf
<1>11. QED BY <1>2, <1>3, <1>5, <1>8, <1>9, <1>10 DEF IOInv, IOAlert, IOFiles

(* Every step keeps both parts of the invariant.                              *)
LEMMA IOInvKept ==
  ASSUME IOInv, UNCHANGED <<stack, port, haveWork, delayedTime, poster, queueVars>>
  PROVE  IOInv'
<1>1. /\ stack' = stack /\ port' = port /\ haveWork' = haveWork /\ delayedTime' = delayedTime
      /\ poster' = poster /\ incoming' = incoming /\ workQueue' = workQueue
      /\ waiting' = waiting /\ due' = due
  BY DEF queueVars
<1>2. IOStack(stack') /\ IOQueues' /\ DelayKnown'
  BY <1>1 DEF IOInv, IOQueues, QueuesOK, PosterTypes, DelayKnown
<1>3. IOWakeup'
  BY <1>1 DEF IOInv, IOWakeup, OneSign, Places, Posting, Internal, IsAt, Running, Top
<1>4. IOAlert'
  BY <1>1 DEF IOInv, IOAlert, WakesUp
<1>5. QED BY <1>2, <1>3, <1>4 DEF IOInv

LEMMA FilesStep ==
  ASSUME IOStack(stack), IOFiles, [IONext]_ioVars
  PROVE  IOFiles'
<1>1. CASE UNCHANGED ioVars
  BY <1>1, ItemsKept DEF ioVars
<1>2. CASE \/ IORun \/ IODoWork \/ LoopPollIO \/ IODoDelayedWork \/ LoopDecides \/ IOWaitForWork
           \/ IORunReturns \/ WaitTimesOut \/ ProcessInternalIOItem \/ DestructorWaits
           \/ IOUserReturns \/ IOUserQuits
  <2>1. UNCHANGED <<file, saved, port>>
    BY <1>2 DEF IORun, IODoWork, LoopPollIO, IODoDelayedWork, LoopDecides, IOWaitForWork, IORunReturns,
                WaitTimesOut, ProcessInternalIOItem, DestructorWaits, IOUserReturns, IOUserQuits
  <2>2. QED BY <2>1, ItemsKept
<1>3. CASE WaitMatches \/ WaitGets
  BY <1>3, WaitMatchesFiles, WaitGetsFiles
<1>4. CASE DestructorEnds \/ \E f \in Files : StartDestructor(f)
  BY <1>4, DestructorFiles
<1>5. CASE \E f \in Files : StartOperation(f) \/ DestroyFile(f) \/ Completes(f)
  BY <1>5, StartOperationFiles, DestroyFileFiles, CompletesFiles
<1>6. CASE \E kind \in {"now", "later"} : IOUserPosts(kind)
  <2>1. UNCHANGED <<file, saved>> /\ (UNCHANGED port \/ port' = Append(port, Internal))
    BY <1>6 DEF IOUserPosts
  <2>2. QED BY <2>1, ItemsKept, PortGrows
<1>7. CASE \E t \in Posters : IOPosterStep(t)
  <2>1. UNCHANGED <<file, saved>> /\ (UNCHANGED port \/ port' = Append(port, Internal))
    BY <1>7 DEF IOPosterStep, PostItem
  <2>2. QED BY <2>1, ItemsKept, PortGrows
<1>8. CASE UNCHANGED <<port, saved, file>>
  BY <1>8, ItemsKept
<1>9. QED BY <1>1, <1>2, <1>3, <1>4, <1>5, <1>6, <1>7, <1>8 DEF IONext, IOPumpStep, IOUserStep

LEMMA IOInvStep ==
  ASSUME IOInv, IOFiles, [IONext]_ioVars
  PROVE  IOInv'
<1>1. IOStack(stack) /\ ItemTypes /\ ItemTypes'
  <2>1. IOStack(stack)
    BY DEF IOInv
  <2>2. IOFiles'
    BY <2>1, FilesStep
  <2>3. QED BY <2>1, <2>2 DEF IOFiles
<1>2. CASE UNCHANGED ioVars
  BY <1>2, IOInvKept DEF ioVars
<1>3. CASE IORun \/ LoopPollIO \/ LoopDecides \/ IOWaitForWork \/ IORunReturns
  <2>1. UNCHANGED <<port, haveWork, delayedTime, poster, queueVars>>
    BY <1>3 DEF IORun, LoopPollIO, LoopDecides, IOWaitForWork, IORunReturns
  <2>2. QED BY <1>1, <1>3, <2>1, LoopStackSteps, StackOnly
<1>4. CASE WaitMatches \/ WaitTimesOut \/ DestructorWaits \/ DestructorEnds
  <2>1. UNCHANGED <<port, haveWork, delayedTime, poster, queueVars>>
    BY <1>4 DEF WaitMatches, WaitTimesOut, DestructorWaits, DestructorEnds
  <2>2. QED BY <1>1, <1>4, <2>1, WaitStackSteps, StackOnly
<1>5. CASE IOUserReturns \/ IOUserQuits \/ \E f \in Files : StartDestructor(f)
  <2>1. UNCHANGED <<port, haveWork, delayedTime, poster, queueVars>>
    BY <1>5 DEF IOUserReturns, IOUserQuits, StartDestructor
  <2>2. QED BY <1>1, <1>5, <2>1, UserStackSteps, StackOnly
<1>6. CASE IODoWork \/ IODoDelayedWork \/ WaitGets \/ ProcessInternalIOItem
  BY <1>1, <1>6, DoWorkStep, DoDelayedWorkStep, WaitGetsStep, ProcessInternalStep
<1>7. CASE \E f \in Files : StartOperation(f) \/ DestroyFile(f)
  <2>1. UNCHANGED <<stack, port, haveWork, delayedTime, poster, queueVars>>
    BY <1>7 DEF StartOperation, DestroyFile
  <2>2. QED BY <2>1, IOInvKept
<1>8. CASE \E kind \in {"now", "later"} : IOUserPosts(kind)
  BY <1>1, <1>8, UserPostsStep DEF Kinds
<1>9. CASE \E t \in Posters : IOPosterStep(t) \/ ((\E kind \in {"now", "later"} : PostTask(t, kind)) /\ UNCHANGED port)
  BY <1>1, <1>9, PosterSteps DEF Kinds, IOPosterStep
<1>10. CASE (TimePasses /\ UNCHANGED port) \/ \E f \in Files : Completes(f)
  BY <1>1, <1>10, SystemSteps
<1>11. QED BY <1>2, <1>3, <1>4, <1>5, <1>6, <1>7, <1>8, <1>9, <1>10 DEF IONext, IOPumpStep, IOUserStep

(* The invariant says what the properties say.                                *)
LEMMA FilesSound ==
  ASSUME IOFiles
  PROVE  CompletionsSound
<1>1. /\ Counted(file) /\ Items \in Seq(Completions \cup {Internal}) /\ ItemsOf(Items, file)
      /\ \A f \in Files : file[f] \in FileTypes /\ FileOK(f, file[f])
      /\ DOMAIN Items = 1..Len(Items)
  BY Counts
<1>2. \A k \in DOMAIN Items : Items[k] # Internal =>
         /\ Items[k].of \in Files /\ Items[k].n \in Nat \ {0}
         /\ Items[k] = CompletionOf(Items[k].of, Items[k].n)
  BY <1>1, CompletionShape
<1>3. ASSUME NEW f \in Files
      PROVE  Undelivered(f) = file[f].done + 1 .. file[f].completed
  <2>1. Internal.of \notin Files
    BY IOPumpAssumption DEF Internal
  <2>2. file[f].done \in Nat /\ file[f].completed \in Nat
    BY <1>1 DEF Counted
  <2>3. ASSUME NEW n \in Undelivered(f) PROVE n \in file[f].done + 1 .. file[f].completed
    <3>1. PICK k \in DOMAIN Items : Items[k].of = f /\ n = Items[k].n
      BY <2>3 DEF Undelivered
    <3>2. Items[k] = CompletionOf(f, n) /\ n \in Nat
      BY <1>2, <2>1, <3>1
    <3>3. Within(CompletionOf(f, n), Items)
      BY <3>1, <3>2 DEF Within
    <3>4. QED BY <1>1, <3>2, <3>3 DEF ItemsOf
  <2>4. ASSUME NEW n \in file[f].done + 1 .. file[f].completed PROVE n \in Undelivered(f)
    <3>1. n \in Nat
      BY <2>2
    <3>2. Within(CompletionOf(f, n), Items)
      BY <1>1, <3>1 DEF ItemsOf
    <3>3. PICK k \in DOMAIN Items : Items[k] = CompletionOf(f, n)
      BY <3>2 DEF Within
    <3>4. Items[k].of = f /\ Items[k].n = n
      BY <3>3 DEF CompletionOf
    <3>5. QED BY <3>4 DEF Undelivered
  <2>5. QED BY <2>3, <2>4
<1>4. ASSUME NEW j \in DOMAIN Items, NEW k \in DOMAIN Items,
             j < k, Items[j].of = Items[k].of, Items[j] # Internal
      PROVE  Items[j].n < Items[k].n
  <2> DEFINE f == Items[j].of
             m == Items[j].n
             n == Items[k].n
  <2>1. f \in Files /\ m \in Nat /\ Items[j] = CompletionOf(f, m)
    BY <1>2, <1>4
  <2>2. Items[k] # Internal
    BY <1>4, <2>1, IOPumpAssumption DEF Internal
  <2>3. n \in Nat /\ Items[k] = CompletionOf(f, n)
    BY <1>2, <1>4, <2>2
  <2>4. Precedes(Items, CompletionOf(f, m), CompletionOf(f, n))
    BY <1>4, <2>1, <2>3 DEF Precedes
  <2>5. QED BY <1>1, <2>1, <2>3, <2>4 DEF ItemsOf
<1>5. CompletionsInOrder
  BY <1>3, <1>4 DEF CompletionsInOrder
<1>6. ASSUME NEW f \in Files
      PROVE  LET held == file[f].inFlight + Cardinality(Undelivered(f))
             IN  /\ file[f].contexts = IF f \in WaitingFiles THEN held
                                       ELSE IF held > 0 \/ file[f].life = "alive" THEN 1 ELSE 0
                 /\ held > 0 => file[f].life # "gone" \/ file[f].orphan
  <2> DEFINE o == file[f]
             held == o.inFlight + Cardinality(Undelivered(f))
             l == o.done + 1
             c == o.completed
  <2>1. o \in FileTypes /\ FileOK(f, o)
    BY <1>1
  <2>2. /\ o.started \in Nat /\ o.inFlight \in Nat /\ o.completed \in Nat /\ o.done \in Nat
        /\ o.contexts \in Int
    BY <2>1 DEF FileTypes
  <2>3. l \in Int /\ c \in Int
    BY <2>2
  <2>4. Undelivered(f) = l..c
    BY <1>3
  <2> HIDE DEF l, c
  <2>5. Cardinality(Undelivered(f)) = IF l > c THEN 0 ELSE c - l + 1
    BY <2>3, <2>4, FS_Interval
  <2>6. l = o.done + 1 /\ c = o.completed
    BY DEF l, c
  <2> DEFINE u == Cardinality(Undelivered(f))
  <2>7. held = o.inFlight + u /\ u = IF l > c THEN 0 ELSE c - l + 1
    BY <2>5
  <2> HIDE DEF o, held, u
  <2>8. held = o.started - o.done
    BY <2>1, <2>2, <2>6, <2>7 DEF FileOK
  <2>9. /\ o.contexts = IF f \in WaitingFiles THEN held
                        ELSE IF held > 0 \/ o.life = "alive" THEN 1 ELSE 0
        /\ held > 0 => o.life # "gone" \/ o.orphan
    <3>1. CASE f \in WaitingFiles
      BY <2>1, <2>2, <2>8, <3>1 DEF FileOK
    <3>2. CASE f \notin WaitingFiles
      <4>1. held > 0 <=> held = 1
        BY <2>1, <2>2, <2>8, <3>2 DEF FileOK
      <4>2. QED BY <2>1, <2>8, <3>2, <4>1 DEF FileOK
    <3>3. QED BY <3>1, <3>2
  <2>10. QED BY <2>9 DEF o, held
<1>7. ContextsValid
  BY <1>6, Zenon DEF ContextsValid
<1>8. QED BY <1>5, <1>7 DEF CompletionsSound

LEMMA NobodySleeps ==
  ASSUME IOInv
  PROVE  NoTaskSleptOn
<1>1. /\ haveWork \in BOOLEAN /\ IsAt("wait", "reset") \in BOOLEAN
      /\ OneSign(haveWork, Internal, port, poster, IsAt("wait", "reset"))
      /\ IOStack(stack) /\ DelayKnown /\ IOAlert
  BY DEF IOInv, IOQueues, IOWakeup, IsAt
<1>2. WorkItems = IF haveWork THEN 1 ELSE 0
  <2> DEFINE taken == IsAt("wait", "reset")
             sign == Internal
  <2>1. taken \in BOOLEAN /\ OneSign(haveWork, sign, port, poster, taken)
    BY <1>1
  <2>2. WorkItems = Cardinality({k \in DOMAIN port : port[k] = sign})
                     + Cardinality({t \in Posters : poster[t] = "post"}) + (IF taken THEN 1 ELSE 0)
    BY DEF WorkItems
  <2> HIDE DEF taken, sign
  <2>3. WorkItems = Cardinality(Places(sign, port)) + Cardinality(Posting(poster)) + (IF taken THEN 1 ELSE 0)
    BY <2>2 DEF Places, Posting
  <2>4. QED BY <1>1, <2>1, <2>3, SignCounted
<1>3. ASSUME IsAt("wait", "delay")
      PROVE  /\ incoming # << >> => WorkItems > 0 \/ \E t \in Posters : poster[t] = "schedule"
             /\ workQueue = << >>
             /\ waiting + due > 0 => delayedTime # "null"
  <2>1. stack # << >> /\ Last(stack).what = "wait" /\ Last(stack).at = "delay"
    BY <1>3 DEF IsAt, Running, Top
  <2>2. Len(stack) = 2 /\ Last(stack) = stack[2]
    BY <1>1, <2>1, TopOfStack
  <2>3. IOResting(stack)
    BY <2>1, <2>2 DEF IOResting
  <2>4. workQueue = << >> /\ (incoming # << >> => haveWork \/ \E t \in Posters : poster[t] = "schedule")
    BY <1>1, <2>3 DEF IOAlert, WakesUp
  <2>5. haveWork => WorkItems > 0
    BY <1>2
  <2>6. QED BY <1>1, <2>4, <2>5 DEF DelayKnown
<1>4. QED BY <1>2, <1>3 DEF NoTaskSleptOn

LEMMA IOInvariant == IOSpec => [](IOInv /\ IOFiles)
<1>1. IOInit => IOInv /\ IOFiles
  BY IOInitInvariant
<1>2. IOInv /\ IOFiles /\ [IONext]_ioVars => (IOInv /\ IOFiles)'
  <2>1. SUFFICES ASSUME IOInv, IOFiles, [IONext]_ioVars
                 PROVE  IOInv' /\ IOFiles'
    OBVIOUS
  <2>2. IOStack(stack)
    BY <2>1 DEF IOInv
  <2>3. QED BY <2>1, <2>2, FilesStep, IOInvStep
<1>3. QED BY <1>1, <1>2, PTL DEF IOSpec

(* Completions of a file are delivered in order and once, to a file whose     *)
(* contexts are there, and none is lost between the port, the list of those   *)
(* saved by WaitForIOCompletion with a filter, and the handler.              *)
THEOREM CompletionsStaySound == IOSpec => []CompletionsSound
<1>1. IOInv /\ IOFiles => CompletionsSound
  BY FilesSound
<1>2. QED BY <1>1, IOInvariant, PTL

(* DoRunLoop of MessagePumpForIO does not wait for an I/O completion while     *)
(* tasks can run and no wake-up is on its way, nor without a time-out while   *)
(* delayed tasks wait.                                                        *)
THEOREM NobodySleepsOnTasks == IOSpec => []NoTaskSleptOn
<1>1. IOInv /\ IOFiles => NoTaskSleptOn
  BY NobodySleeps
<1>2. QED BY <1>1, IOInvariant, PTL

-----------------------------------------------------------------------------
(* ObjectWatcher. *)
USE DEF watcherVars, memory

-----------------------------------------------------------------------------
(* The inductive invariant.  A Watch is held from RegisterWaitForSingleObject *)
(* until StopWatching lets go of it.                                         *)
Held(w)   == watch = w \/ (pc = "registered" /\ awaited = w)
Queued(w) == Within(w, queue)
InUse(w)  == Queued(w) \/ running = w

WatcherTypes ==
  /\ heap \in [Watches -> {"unused", "live", "freed"}]
  /\ watcher \in [Watches -> BOOLEAN] /\ did_signal \in [Watches -> BOOLEAN]
  /\ watch \in Watches \cup {None} /\ running \in Watches \cup {None}
  /\ awaited \in Watches \cup {None}
  /\ alive \in BOOLEAN /\ observing \in BOOLEAN
  /\ wait \in [Watches -> {"none", "registered", "called", "marked", "posted", "over"}]
  /\ queue \in Seq(Watches)
  /\ pc \in {"loop", "user", "registered", "stop", "notify", "gone"}
  /\ ret \in {"loop", "user", "notify", "gone"}

(* The origin thread: what it is doing, and whom its user waits for.         *)
OriginThread ==
  /\ observing <=> watch # None
  /\ watch # None => alive \/ pc = "stop"
  /\ pc \in {"loop", "gone"} => running = None
  /\ pc \in {"loop", "user", "gone"} => awaited = watch
  /\ pc = "gone" => watch = None
  /\ pc = "registered" => watch = None /\ awaited # None /\ alive
  /\ pc = "notify" => watch = None /\ awaited = running /\ running # None /\ alive
  /\ pc = "stop" => \/ /\ ret = "notify"
                       /\ watch = running /\ awaited = running /\ running # None /\ alive
                    \/ ret = "user" /\ awaited = None
                    \/ ret = "gone" /\ awaited = None /\ running = None

(* The life of one Watch, between the two threads.                           *)
Life(w) ==
  /\ heap[w] = "unused" => wait[w] = "none"
  /\ wait[w] \in {"registered", "called", "marked", "posted"} => Held(w)
  /\ Held(w) => heap[w] = "live"
  /\ InUse(w) => heap[w] = "live" /\ wait[w] \in {"posted", "over"}
  /\ running = w => ~Queued(w) /\ (Held(w) => pc = "stop" /\ ret = "notify")
  /\ heap[w] = "live" =>
       /\ wait[w] # "none"
       /\ watcher[w] <=> Held(w)
       /\ did_signal[w] <=> wait[w] \in {"marked", "posted", "over"}
       /\ wait[w] \in {"posted", "over"} => InUse(w)

WatcherInv == WatcherTypes /\ OriginThread /\ NoRepeats(queue) /\ \A w \in Watches : Life(w)
-----------------------------------------------------------------------------
LEMMA WatcherInitInv == WatcherInit => WatcherInv
<1> SUFFICES ASSUME WatcherInit PROVE WatcherInv
  OBVIOUS
<1>1. WatcherTypes
  <2>1. queue \in Seq(Watches)
    BY DEF WatcherInit
  <2>2. QED BY <2>1 DEF WatcherInit, WatcherTypes
<1>2. OriginThread
  BY DEF WatcherInit, OriginThread
<1>3. NoRepeats(queue) /\ \A w : ~Queued(w)
  BY WithinEmpty DEF WatcherInit, Queued
<1>4. \A w \in Watches : Life(w)
  BY <1>3, NoneAssumption DEF WatcherInit, Life, Held, InUse
<1>5. QED BY <1>1, <1>2, <1>3, <1>4 DEF WatcherInv

(* What the invariant implies.                                               *)
LEMMA WatcherInvSound == WatcherInv => WatchesSound
<1> SUFFICES ASSUME WatcherInv PROVE WatchesSound
  OBVIOUS
<1>1. TypeOK
  <2>1. Len(queue) <= Cardinality(Watches)
    BY WatchesAssumption, NoRepeatsLength DEF WatcherInv, WatcherTypes
  <2>2. QED BY <2>1 DEF WatcherInv, WatcherTypes, TypeOK
<1>2. NothingDangles
  <2>1. \A w : Within(w, Pending) <=> InUse(w) /\ w # None
    <3>1. queue \in Seq(Watches) /\ \A w : Within(w, queue) => w \in Watches
      BY WithinType DEF WatcherInv, WatcherTypes
    <3>2. CASE running = None
      BY <3>1, <3>2, NoneAssumption DEF Pending, InUse, Queued
    <3>3. CASE running # None
      <4>1. running \in Watches
        BY <3>3 DEF WatcherInv, WatcherTypes
      <4>2. \A w : Within(w, <<running>> \o queue) <=> Within(w, queue) \/ w = running
        BY <4>1, <3>1, Prefixing
      <4>3. QED BY <4>2, <3>1, <3>3, NoneAssumption DEF Pending, InUse, Queued
    <3>4. QED BY <3>2, <3>3
  <2>2. \A n \in DOMAIN Pending : Pending[n] \in Watches /\ heap[Pending[n]] = "live"
    <3>1. ASSUME NEW n \in DOMAIN Pending
          PROVE  Pending[n] \in Watches /\ InUse(Pending[n])
      <4>1. InUse(Pending[n]) /\ Pending[n] # None
        BY <2>1 DEF Within
      <4>2. \A w : Queued(w) => w \in Watches
        BY WithinType DEF WatcherInv, WatcherTypes, Queued
      <4>3. QED BY <4>1, <4>2 DEF InUse, WatcherInv, WatcherTypes
    <3>2. QED BY <3>1 DEF WatcherInv, Life
  <2>3. NoRepeats(Pending)
    <3>1. CASE running = None
      BY <3>1 DEF Pending, WatcherInv
    <3>2. CASE running # None
      <4>1. running \in Watches /\ ~Within(running, queue) /\ queue \in Seq(Watches)
        BY <3>2 DEF WatcherInv, WatcherTypes, Life, Queued
      <4>2. QED BY <4>1, <3>2, Prefixing DEF Pending, WatcherInv
    <3>3. QED BY <3>1, <3>2
  <2>4. \A w \in Watches : wait[w] \in {"called", "marked", "posted"} => heap[w] = "live" /\ pc # "gone"
    BY NoneAssumption DEF WatcherInv, Life, Held, OriginThread
  <2>5. observing => alive \/ pc = "stop"
    BY DEF WatcherInv, OriginThread
  <2>6. QED BY <2>2, <2>3, <2>4, <2>5 DEF NothingDangles, NoRepeats
<1>3. NoLeak
  BY DEF NoLeak, WatcherInv, WatcherTypes, Life, InUse, Held, Queued, Within
<1>4. QED BY <1>1, <1>2, <1>3 DEF WatchesSound

LEMMA WatcherInvAwaited == WatcherInv => NotifiesAwaited
  BY DEF WatcherInv, OriginThread, NotifiesAwaited
-----------------------------------------------------------------------------
(* Every action preserves the invariant.                                     *)
LEMMA WatcherInvStep == WatcherInv /\ [WatcherNext]_watcherVars => WatcherInv'
<1> SUFFICES ASSUME WatcherInv, [WatcherNext]_watcherVars PROVE WatcherInv'
  OBVIOUS
<1>1. ASSUME NEW w \in Watches, StartWatching(w) PROVE WatcherInv'
  <2>1. NoRepeats(queue') /\ \A v : Queued(v)' <=> Queued(v)
    BY <1>1 DEF StartWatching, WatcherInv, Queued
  <2>2. WatcherTypes'
    BY <1>1, <2>1 DEF StartWatching, WatcherInv, WatcherTypes
  <2>3. OriginThread'
    BY <1>1, <2>1, NoneAssumption DEF StartWatching, WatcherInv, WatcherTypes, OriginThread
  <2>4. ASSUME NEW v \in Watches PROVE Life(v)'
    BY <1>1, <2>1, NoneAssumption DEF StartWatching, WatcherInv, WatcherTypes, OriginThread, Life, Held, InUse
  <2>5. QED BY <2>1, <2>2, <2>3, <2>4 DEF WatcherInv
<1>2. ASSUME Watching PROVE WatcherInv'
  <2>1. NoRepeats(queue') /\ \A v : Queued(v)' <=> Queued(v)
    BY <1>2 DEF Watching, WatcherInv, Queued
  <2>2. WatcherTypes'
    BY <1>2, <2>1 DEF Watching, WatcherInv, WatcherTypes, OriginThread
  <2>3. OriginThread'
    BY <1>2, <2>1, NoneAssumption DEF Watching, WatcherInv, WatcherTypes, OriginThread
  <2>4. ASSUME NEW v \in Watches PROVE Life(v)'
    BY <1>2, <2>1, NoneAssumption DEF Watching, WatcherInv, WatcherTypes, OriginThread, Life, Held, InUse
  <2>5. QED BY <2>1, <2>2, <2>3, <2>4 DEF WatcherInv
<1>3. ASSUME StopReturns PROVE WatcherInv'
  <2>1. NoRepeats(queue') /\ \A v : Queued(v)' <=> Queued(v)
    BY <1>3 DEF StopReturns, Unregistered, WatcherInv, Queued
  <2>2. WatcherTypes'
    BY <1>3, <2>1 DEF StopReturns, Unregistered, WatcherInv, WatcherTypes, OriginThread
  <2>3. OriginThread'
    BY <1>3, <2>1, NoneAssumption DEF StopReturns, Unregistered, WatcherInv, WatcherTypes, OriginThread, Life, Held, InUse
  <2>4. ASSUME NEW v \in Watches PROVE Life(v)'
    BY <1>3, <2>1, NoneAssumption DEF StopReturns, Unregistered, WatcherInv, WatcherTypes, OriginThread, Life, Held, InUse
  <2>5. QED BY <2>1, <2>2, <2>3, <2>4 DEF WatcherInv
<1>4. ASSUME StopWatching PROVE WatcherInv'
  <2>1. NoRepeats(queue') /\ \A v : Queued(v)' <=> Queued(v)
    BY <1>4 DEF StopWatching, WatcherInv, Queued
  <2>2. WatcherTypes'
    BY <1>4, <2>1 DEF StopWatching, WatcherInv, WatcherTypes
  <2>3. OriginThread'
    BY <1>4, <2>1, NoneAssumption DEF StopWatching, WatcherInv, WatcherTypes, OriginThread
  <2>4. ASSUME NEW v \in Watches PROVE Life(v)'
    BY <1>4, <2>1, NoneAssumption DEF StopWatching, WatcherInv, WatcherTypes, OriginThread, Life, Held, InUse
  <2>5. QED BY <2>1, <2>2, <2>3, <2>4 DEF WatcherInv
<1>5. ASSUME Destroy PROVE WatcherInv'
  <2>1. NoRepeats(queue') /\ \A v : Queued(v)' <=> Queued(v)
    BY <1>5 DEF Destroy, WatcherInv, Queued
  <2>2. WatcherTypes'
    BY <1>5, <2>1 DEF Destroy, WatcherInv, WatcherTypes
  <2>3. OriginThread'
    BY <1>5, <2>1, NoneAssumption DEF Destroy, WatcherInv, WatcherTypes, OriginThread
  <2>4. ASSUME NEW v \in Watches PROVE Life(v)'
    BY <1>5, <2>1, NoneAssumption DEF Destroy, WatcherInv, WatcherTypes, OriginThread, Life, Held, InUse
  <2>5. QED BY <2>1, <2>2, <2>3, <2>4 DEF WatcherInv
<1>6. ASSUME RunUserTask PROVE WatcherInv'
  <2>1. NoRepeats(queue') /\ \A v : Queued(v)' <=> Queued(v)
    BY <1>6 DEF RunUserTask, WatcherInv, Queued
  <2>2. WatcherTypes'
    BY <1>6, <2>1 DEF RunUserTask, WatcherInv, WatcherTypes
  <2>3. OriginThread'
    BY <1>6, <2>1, NoneAssumption DEF RunUserTask, WatcherInv, WatcherTypes, OriginThread
  <2>4. ASSUME NEW v \in Watches PROVE Life(v)'
    BY <1>6, <2>1, NoneAssumption DEF RunUserTask, WatcherInv, WatcherTypes, OriginThread, Life, Held, InUse
  <2>5. QED BY <2>1, <2>2, <2>3, <2>4 DEF WatcherInv
<1>7. ASSUME RunWatch PROVE WatcherInv'
  <2>1. /\ queue' \in Seq(Watches) /\ NoRepeats(queue')
        /\ Head(queue) \in Watches
        /\ \A v : Queued(v)' <=> Queued(v) /\ v # Head(queue)
        /\ Queued(Head(queue))
    <3>1. queue \in Seq(Watches) /\ queue # << >> /\ queue' = Tail(queue)
      BY <1>7 DEF RunWatch, WatcherInv, WatcherTypes
    <3>2. QED BY <3>1, TakingHead DEF WatcherInv, Queued
  <2>2. WatcherTypes'
    BY <1>7, <2>1 DEF RunWatch, WatcherInv, WatcherTypes, OriginThread
  <2> DEFINE h == Head(queue)
  <2>3. /\ pc = "loop" /\ running = None /\ heap[h] = "live" /\ wait[h] \in {"posted", "over"}
        /\ watcher[h] <=> watch = h
        /\ watch = h => alive /\ awaited = h
    BY <1>7, <2>1, NoneAssumption DEF RunWatch, WatcherInv, WatcherTypes, OriginThread, Life, Held, InUse
  <2> HIDE DEF h
  <2>4. CASE watcher[h]
    <3>1. /\ running' = h /\ pc' = "stop" /\ ret' = "notify"
          /\ UNCHANGED <<heap, watcher, did_signal, watch, alive, observing, wait, awaited>>
      BY <1>7, <2>4 DEF RunWatch, h
    <3>2. OriginThread'
      BY <3>1, <2>1, <2>3, <2>4, NoneAssumption DEF WatcherInv, OriginThread, h
    <3>3. ASSUME NEW v \in Watches PROVE Life(v)'
      BY <3>1, <2>1, <2>3, <2>4, NoneAssumption DEF WatcherInv, WatcherTypes, Life, Held, InUse, h
    <3>4. QED BY <3>2, <3>3, <2>1, <2>2 DEF WatcherInv
  <2>5. CASE ~watcher[h]
    <3>1. /\ heap' = [heap EXCEPT ![h] = "freed"]
          /\ UNCHANGED <<running, pc, ret, watcher, did_signal, watch, alive, observing, wait, awaited>>
      BY <1>7, <2>5 DEF RunWatch, h
    <3>2. OriginThread'
      BY <3>1 DEF WatcherInv, OriginThread
    <3>3. ASSUME NEW v \in Watches PROVE Life(v)'
      BY <3>1, <2>1, <2>3, <2>5, NoneAssumption DEF WatcherInv, WatcherTypes, Life, Held, InUse, h
    <3>4. QED BY <3>2, <3>3, <2>1, <2>2 DEF WatcherInv
  <2>6. QED BY <2>4, <2>5
<1>8. ASSUME Notify PROVE WatcherInv'
  <2>1. NoRepeats(queue') /\ \A v : Queued(v)' <=> Queued(v)
    BY <1>8 DEF Notify, WatcherInv, Queued
  <2>2. WatcherTypes'
    BY <1>8, <2>1 DEF Notify, WatcherInv, WatcherTypes
  <2>3. OriginThread'
    BY <1>8, <2>1, NoneAssumption DEF Notify, WatcherInv, WatcherTypes, OriginThread
  <2>4. ASSUME NEW v \in Watches PROVE Life(v)'
    BY <1>8, <2>1, NoneAssumption DEF Notify, WatcherInv, WatcherTypes, OriginThread, Life, Held, InUse
  <2>5. QED BY <2>1, <2>2, <2>3, <2>4 DEF WatcherInv
<1>9. ASSUME TaskReturns PROVE WatcherInv'
  <2>1. NoRepeats(queue') /\ \A v : Queued(v)' <=> Queued(v)
    BY <1>9 DEF TaskReturns, WatcherInv, Queued
  <2>2. WatcherTypes'
    BY <1>9, <2>1 DEF TaskReturns, WatcherInv, WatcherTypes
  <2>3. OriginThread'
    BY <1>9, <2>1, NoneAssumption DEF TaskReturns, WatcherInv, WatcherTypes, OriginThread
  <2>4. ASSUME NEW v \in Watches PROVE Life(v)'
    BY <1>9, <2>1, NoneAssumption DEF TaskReturns, WatcherInv, WatcherTypes, OriginThread, Life, Held, InUse
  <2>5. QED BY <2>1, <2>2, <2>3, <2>4 DEF WatcherInv
<1>10. ASSUME DestroyLoop PROVE WatcherInv'
  <2>1. NoRepeats(queue') /\ \A v : Queued(v)' <=> Queued(v)
    BY <1>10 DEF DestroyLoop, WatcherInv, Queued
  <2>2. WatcherTypes'
    BY <1>10, <2>1 DEF DestroyLoop, WatcherInv, WatcherTypes
  <2>3. OriginThread'
    BY <1>10, <2>1, NoneAssumption DEF DestroyLoop, WatcherInv, WatcherTypes, OriginThread
  <2>4. ASSUME NEW v \in Watches PROVE Life(v)'
    BY <1>10, <2>1, NoneAssumption DEF DestroyLoop, WatcherInv, WatcherTypes, OriginThread, Life, Held, InUse
  <2>5. QED BY <2>1, <2>2, <2>3, <2>4 DEF WatcherInv
<1>11. ASSUME NEW w \in Watches, Signaled(w) PROVE WatcherInv'
  <2>1. NoRepeats(queue') /\ \A v : Queued(v)' <=> Queued(v)
    BY <1>11 DEF Signaled, WatcherInv, Queued
  <2>2. WatcherTypes'
    BY <1>11, <2>1 DEF Signaled, WatcherInv, WatcherTypes
  <2>3. OriginThread'
    BY <1>11, <2>1, NoneAssumption DEF Signaled, WatcherInv, WatcherTypes, OriginThread
  <2>4. ASSUME NEW v \in Watches PROVE Life(v)'
    BY <1>11, <2>1, NoneAssumption DEF Signaled, WatcherInv, WatcherTypes, OriginThread, Life, Held, InUse
  <2>5. QED BY <2>1, <2>2, <2>3, <2>4 DEF WatcherInv
<1>12. ASSUME NEW w \in Watches, DoneWaiting(w) PROVE WatcherInv'
  <2>1. NoRepeats(queue') /\ \A v : Queued(v)' <=> Queued(v)
    BY <1>12 DEF DoneWaiting, WatcherInv, Queued
  <2>2. WatcherTypes'
    BY <1>12, <2>1 DEF DoneWaiting, WatcherInv, WatcherTypes
  <2>3. OriginThread'
    BY <1>12, <2>1, NoneAssumption DEF DoneWaiting, WatcherInv, WatcherTypes, OriginThread
  <2>4. ASSUME NEW v \in Watches PROVE Life(v)'
    BY <1>12, <2>1, NoneAssumption DEF DoneWaiting, WatcherInv, WatcherTypes, OriginThread, Life, Held, InUse
  <2>5. QED BY <2>1, <2>2, <2>3, <2>4 DEF WatcherInv
<1>13. ASSUME NEW w \in Watches, PostWatch(w) PROVE WatcherInv'
  <2>1. /\ queue' \in Seq(Watches) /\ NoRepeats(queue')
        /\ \A v : Queued(v)' <=> Queued(v) \/ v = w
    <3>1. queue \in Seq(Watches) /\ ~Queued(w)
      BY <1>13 DEF PostWatch, WatcherInv, WatcherTypes, Life, InUse
    <3>2. queue' = Append(queue, w)
      BY <1>13 DEF PostWatch
    <3>3. QED BY <3>1, <3>2, Appending DEF WatcherInv, Queued
  <2>2. WatcherTypes'
    BY <1>13, <2>1 DEF PostWatch, WatcherInv, WatcherTypes
  <2>3. OriginThread'
    BY <1>13, <2>1, NoneAssumption DEF PostWatch, WatcherInv, WatcherTypes, OriginThread
  <2>4. ASSUME NEW v \in Watches PROVE Life(v)'
    BY <1>13, <2>1, NoneAssumption DEF PostWatch, WatcherInv, WatcherTypes, OriginThread, Life, Held, InUse
  <2>5. QED BY <2>1, <2>2, <2>3, <2>4 DEF WatcherInv
<1>14. ASSUME NEW w \in Watches, DoneReturns(w) PROVE WatcherInv'
  <2>1. NoRepeats(queue') /\ \A v : Queued(v)' <=> Queued(v)
    BY <1>14 DEF DoneReturns, WatcherInv, Queued
  <2>2. WatcherTypes'
    BY <1>14, <2>1 DEF DoneReturns, WatcherInv, WatcherTypes
  <2>3. OriginThread'
    BY <1>14, <2>1, NoneAssumption DEF DoneReturns, WatcherInv, WatcherTypes, OriginThread
  <2>4. ASSUME NEW v \in Watches PROVE Life(v)'
    BY <1>14, <2>1, NoneAssumption DEF DoneReturns, WatcherInv, WatcherTypes, OriginThread, Life, Held, InUse
  <2>5. QED BY <2>1, <2>2, <2>3, <2>4 DEF WatcherInv
<1>15. ASSUME UNCHANGED watcherVars PROVE WatcherInv'
  <2>1. NoRepeats(queue') /\ \A v : Queued(v)' <=> Queued(v)
    BY <1>15 DEF WatcherInv, Queued
  <2>2. WatcherTypes'
    BY <1>15, <2>1 DEF WatcherInv, WatcherTypes
  <2>3. OriginThread'
    BY <1>15, <2>1, NoneAssumption DEF WatcherInv, WatcherTypes, OriginThread
  <2>4. ASSUME NEW v \in Watches PROVE Life(v)'
    BY <1>15, <2>1, NoneAssumption DEF WatcherInv, WatcherTypes, OriginThread, Life, Held, InUse
  <2>5. QED BY <2>1, <2>2, <2>3, <2>4 DEF WatcherInv
<1>16. QED BY <1>1, <1>2, <1>3, <1>4, <1>5, <1>6, <1>7, <1>8, <1>9, <1>10, <1>11, <1>12, <1>13, <1>14, <1>15 DEF WatcherNext, Origin, User, WaitThread

-----------------------------------------------------------------------------
LEMMA WatcherInvariant == WatcherSpec => []WatcherInv
  BY WatcherInitInv, WatcherInvStep, PTL DEF WatcherSpec

(* Every Watch that is used is there and there once, DoneWaiting posts to a  *)
(* loop that is there, and no Watch is lost while the loop is (DoneWaiting,  *)
(* Watch::Run and StopWatching, from either thread, in every order).         *)
THEOREM WatchesStaySound == WatcherSpec => []WatchesSound
  BY WatcherInvariant, WatcherInvSound, PTL

(* OnObjectSignaled is called only for the Watch whose signal the user still *)
(* waits for, and only while the ObjectWatcher exists.                       *)
THEOREM OnlyAwaitedNotified == WatcherSpec => []NotifiesAwaited
  BY WatcherInvariant, WatcherInvAwaited, PTL
=============================================================================
