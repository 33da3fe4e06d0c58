------------------------------ MODULE DictProofs ------------------------------
(***************************************************************************)
(* Proofs about Dict, for any keys and any hash function, sizes and          *)
(* iterators.                                                                *)
(***************************************************************************)
EXTENDS Dict, SequenceFacts

-----------------------------------------------------------------------------
(* The inductive invariant, from the chains up.                              *)
Chains == Seq(Entries)

OnceEach(chain) == \A m, n \in DOMAIN chain : chain[m].key = chain[n].key => m = n

(* The value of key k in a chain and in a table, NoVal when it is not there. *)
Of(chain, k) == IF Chained(chain, k) THEN chain[Position(chain, k)].val ELSE NoVal
In(t, k)     == Of(Chain(t, k), k)
KeysIn(t)    == {k \in Keys : In(t, k) # NoVal}

Buckets == UNION {[0..n - 1 -> Chains] : n \in Nat}
Tables  == [size : Nat, table : Buckets, used : Nat]
Dicts   == [ht : [{0, 1} -> Tables], rehashidx : Int, iterators : Int]

(* A table: entries are in the chain their hash says, once, and used counts   *)
(* them.                                                                     *)
TableFits(t) ==
  /\ t \in Tables
  /\ t.table \in [0..t.size - 1 -> Chains]
  /\ \A b \in 0..t.size - 1 :
       /\ OnceEach(t.table[b])
       /\ \A n \in DOMAIN t.table[b] : Bucket(t, t.table[b][n].key) = b
  /\ IsFiniteSet(KeysIn(t)) /\ t.used = Cardinality(KeysIn(t))

(* The two tables have no key in common, and the first one none in a bucket   *)
(* that was moved.                                                           *)
DictFits(dd) ==
  /\ dd \in Dicts
  /\ TableFits(dd.ht[0]) /\ TableFits(dd.ht[1])
  /\ \A k \in Keys : In(dd.ht[0], k) = NoVal \/ In(dd.ht[1], k) = NoVal
  /\ dd.rehashidx \in -1..dd.ht[0].size
  /\ IsRehashing(dd) <=> dd.ht[1].size > 0
  /\ IsRehashing(dd) => dd.ht[0].size > 0
  /\ \A b \in 0..dd.rehashidx - 1 : dd.ht[0].table[b] = << >>

(* What an iterator has still to return: the saved entry and those chained   *)
(* after it, and all in later buckets.                                       *)
Follows(chain, x, k) ==
  \E m, n \in DOMAIN chain : m <= n /\ chain[m].key = x /\ chain[n].key = k

Saved(dd, it, k) == it.next # NoKey /\ Follows(dd.ht[it.table].table[it.index], it.next, k)

Later(dd, it, k) ==
  \E t \in {0, 1} : /\ In(dd.ht[t], k) # NoVal
                    /\ \/ t > it.table
                       \/ t = it.table /\ Bucket(dd.ht[t], k) > it.index

ToCome(dd, it, k) == Saved(dd, it, k) \/ Later(dd, it, k)

Iterators == [live : BOOLEAN, table : {0, 1}, index : Int,
              entry : Keys \cup {NoKey}, next : Keys \cup {NoKey}]
Cursors   == [open : BOOLEAN, stable : SUBSET Keys, returned : SUBSET Keys]

Under(it) == it.index # -1 /\ it.entry # NoKey

IterFits(dd, it, c) ==
  /\ it \in Iterators /\ c \in Cursors
  /\ it.index = -1 => /\ it.table = 0 /\ it.entry = NoKey /\ c = NoCursor
  /\ it.index # -1 => it.live /\ it.index >= 0 /\ c.open
  /\ it.entry = NoKey => it.next = NoKey
  /\ Under(it) =>
       /\ it.index < dd.ht[it.table].size
       /\ it.next # NoKey => Chained(dd.ht[it.table].table[it.index], it.next)
       /\ \A k \in c.returned : Value(dd, k) # NoVal
       /\ \A k \in Keys : ToCome(dd, it, k) => k \notin c.returned
       /\ \A k \in c.stable : k \in c.returned \/ ToCome(dd, it, k)

DictInv ==
  /\ DictFits(d) /\ canResize \in BOOLEAN
  /\ IsFiniteSet({i \in Iters : Started(i)}) /\ IteratorsCounted
  /\ iter \in [Iters -> Iterators] /\ cursor \in [Iters -> Cursors]
  /\ \A i \in Iters : IterFits(d, iter[i], cursor[i])

-----------------------------------------------------------------------------
(* Chains.                                                                   *)
LEMMA ChainType ==
  ASSUME NEW chain \in Chains
  PROVE  /\ Len(chain) \in Nat /\ DOMAIN chain = 1..Len(chain)
         /\ \A n \in 1..Len(chain) : /\ chain[n] \in Entries
                                      /\ chain[n].key \in Keys /\ chain[n].val \in Vals
<1>1. chain \in Seq(Entries)
  BY DEF Chains
<1>2. \A e \in Entries : e.key \in Keys /\ e.val \in Vals
  BY DEF Entries
<1>3. QED BY <1>1, <1>2, Domain

(* Position is the place of the key, when it is in the chain.                *)
LEMMA PositionFinds ==
  ASSUME NEW chain \in Chains, NEW k, Chained(chain, k)
  PROVE  Position(chain, k) \in DOMAIN chain /\ chain[Position(chain, k)].key = k
<1> DEFINE at == {n \in DOMAIN chain : chain[n].key = k}
<1>1. PICK p \in at : \A n \in at : p <= n
  <2>1. at \subseteq Nat /\ at # {}
    BY ChainType DEF Chained
  <2> HIDE DEF at
  <2>2. QED BY <2>1, NatMin
<1>2. p \in DOMAIN chain /\ chain[p].key = k /\ \A m \in 1..p - 1 : chain[m].key # k
  <2>1. ASSUME NEW m \in 1..p - 1, chain[m].key = k PROVE FALSE
    <3>1. m \in DOMAIN chain /\ m < p /\ p \in Nat /\ m \in Nat
      BY <1>1, ChainType
    <3>2. p <= m
      BY <1>1, <2>1, <3>1
    <3>3. QED BY <3>1, <3>2
  <2>2. QED BY <1>1, <2>1
<1>3. QED BY <1>2 DEF Position

LEMMA OnlyPosition ==
  ASSUME NEW chain \in Chains, OnceEach(chain), NEW n \in DOMAIN chain
  PROVE  /\ Chained(chain, chain[n].key) /\ Position(chain, chain[n].key) = n
         /\ Of(chain, chain[n].key) = chain[n].val
<1>1. Chained(chain, chain[n].key)
  BY DEF Chained
<1>2. Position(chain, chain[n].key) = n
  BY <1>1, PositionFinds DEF OnceEach
<1>3. QED BY <1>1, <1>2 DEF Of

(* NoVal is no value.                                                        *)
LEMMA OfType ==
  ASSUME NEW chain \in Chains, NEW k
  PROVE  /\ Of(chain, k) \in Vals \cup {NoVal}
         /\ Chained(chain, k) <=> Of(chain, k) # NoVal
         /\ Chained(chain, k) => k \in Keys
<1>1. CASE Chained(chain, k)
  <2>1. Of(chain, k) = chain[Position(chain, k)].val
    BY <1>1 DEF Of
  <2>2. Of(chain, k) \in Vals /\ k \in Keys
    BY <1>1, <2>1, PositionFinds, ChainType
  <2>3. QED BY <1>1, <2>2, NothingAssumption
<1>2. CASE ~Chained(chain, k)
  BY <1>2 DEF Of
<1>3. QED BY <1>1, <1>2

(* How a chain changes in the value of one key, which the entries that stay  *)
(* do not notice.                                                            *)
Becomes(chain, r, k, v) ==
  /\ r \in Chains /\ OnceEach(r)
  /\ \A x \in Keys : Of(r, x) = IF x = k THEN v ELSE Of(chain, x)
  /\ \A x, y \in Keys : x # k /\ y # k => (Follows(r, x, y) <=> Follows(chain, x, y))

(* An entry is put at the front.                                             *)
LEMMA Prefixed ==
  ASSUME NEW chain \in Chains, OnceEach(chain), NEW k \in Keys, NEW v \in Vals,
         Of(chain, k) = NoVal
  PROVE  Becomes(chain, <<[key |-> k, val |-> v]>> \o chain, k, v)
<1> DEFINE e == [key |-> k, val |-> v]
           r == <<e>> \o chain
<1>1. e \in Entries /\ e.key = k /\ e.val = v /\ v # NoVal
  BY NothingAssumption DEF Entries
<1> HIDE DEF e
<1>2. /\ r \in Chains /\ DOMAIN r = 1..Len(chain) + 1 /\ r[1] = e
      /\ \A n \in 1..Len(chain) : r[n + 1] = chain[n]
  BY <1>1 DEF Chains
<1> HIDE DEF r
<1>3. /\ Len(chain) \in Nat /\ DOMAIN chain = 1..Len(chain)
      /\ \A n \in 1..Len(chain) : chain[n].key # k
  BY ChainType, OfType DEF Chained
<1>4. ASSUME NEW n \in DOMAIN r, n # 1
      PROVE  n - 1 \in DOMAIN chain /\ r[n] = chain[n - 1] /\ n \in Int
  BY <1>2, <1>3, <1>4
<1>5. OnceEach(r)
  <2>1. SUFFICES ASSUME NEW m \in DOMAIN r, NEW n \in DOMAIN r, r[m].key = r[n].key
                 PROVE  m = n
    BY DEF OnceEach
  <2>2. CASE m = 1 /\ n # 1
    BY <1>1, <1>2, <1>3, <1>4, <2>1, <2>2
  <2>3. CASE m # 1 /\ n = 1
    BY <1>1, <1>2, <1>3, <1>4, <2>1, <2>3
  <2>4. CASE m # 1 /\ n # 1
    BY <1>4, <2>1, <2>4 DEF OnceEach
  <2>5. QED BY <2>2, <2>3, <2>4
<1>6. ASSUME NEW x \in Keys PROVE Of(r, x) = IF x = k THEN v ELSE Of(chain, x)
  <2>1. CASE x = k
    <3>1. r[1].key = k /\ r[1].val = v /\ 1 \in DOMAIN r
      BY <1>1, <1>2, <1>3
    <3>2. Of(r, r[1].key) = r[1].val
      BY <1>2, <1>5, <3>1, OnlyPosition
    <3>3. QED BY <2>1, <3>1, <3>2
  <2>2. CASE x # k /\ Chained(chain, x)
    <3>1. PICK n \in DOMAIN chain : chain[n].key = x
      BY <2>2 DEF Chained
    <3>2. Of(chain, x) = chain[n].val
      BY <3>1, OnlyPosition
    <3>3. n + 1 \in DOMAIN r /\ r[n + 1] = chain[n]
      BY <1>2, <1>3, <3>1
    <3>4. Of(r, x) = r[n + 1].val
      BY <1>2, <1>5, <3>1, <3>3, OnlyPosition
    <3>5. QED BY <2>2, <3>2, <3>3, <3>4
  <2>3. CASE x # k /\ ~Chained(chain, x)
    <3>1. \A n \in DOMAIN r : r[n].key # x
      BY <1>1, <1>2, <1>4, <2>3 DEF Chained
    <3>2. Of(chain, x) = NoVal /\ Of(r, x) = NoVal
      BY <3>1, <2>3 DEF Of, Chained
    <3>3. QED BY <2>3, <3>2
  <2>4. QED BY <2>1, <2>2, <2>3
<1>7. ASSUME NEW x \in Keys, NEW y \in Keys, x # k, y # k
      PROVE  Follows(r, x, y) <=> Follows(chain, x, y)
  <2>1. ASSUME Follows(r, x, y) PROVE Follows(chain, x, y)
    <3>1. PICK m, n \in DOMAIN r : m <= n /\ r[m].key = x /\ r[n].key = y
      BY <2>1 DEF Follows
    <3>2. m # 1 /\ n # 1
      BY <1>1, <1>2, <1>7, <3>1
    <3>3. m - 1 <= n - 1 /\ m - 1 \in DOMAIN chain /\ n - 1 \in DOMAIN chain
          /\ r[m] = chain[m - 1] /\ r[n] = chain[n - 1]
      BY <1>4, <3>1, <3>2
    <3>4. QED BY <3>1, <3>3 DEF Follows
  <2>2. ASSUME Follows(chain, x, y) PROVE Follows(r, x, y)
    <3>1. PICK m, n \in DOMAIN chain : m <= n /\ chain[m].key = x /\ chain[n].key = y
      BY <2>2 DEF Follows
    <3>2. m + 1 <= n + 1 /\ m + 1 \in DOMAIN r /\ n + 1 \in DOMAIN r
          /\ r[m + 1] = chain[m] /\ r[n + 1] = chain[n]
      BY <1>2, <1>3, <3>1
    <3>3. QED BY <3>1, <3>2 DEF Follows
  <2>3. QED BY <2>1, <2>2
<1>8. QED BY <1>2, <1>5, <1>6, <1>7 DEF Becomes, r, e

(* An entry is taken out.                                                    *)
LEMMA Removed ==
  ASSUME NEW chain \in Chains, OnceEach(chain), NEW k \in Keys, Chained(chain, k)
  PROVE  Becomes(chain, RemoveAt(chain, Position(chain, k)), k, NoVal)
<1> DEFINE p == Position(chain, k)
           r == RemoveAt(chain, p)
           From(n) == IF n < p THEN n ELSE n + 1
           To(n)   == IF n < p THEN n ELSE n - 1
<1>1. /\ Len(chain) \in Nat /\ DOMAIN chain = 1..Len(chain) /\ p \in 1..Len(chain)
      /\ chain[p].key = k /\ \A n \in DOMAIN chain : chain[n].key = k => n = p
  BY PositionFinds, ChainType DEF OnceEach
<1> HIDE DEF p
<1>2. /\ r \in Chains /\ DOMAIN r = 1..Len(chain) - 1
      /\ \A n \in 1..Len(chain) - 1 : r[n] = chain[From(n)]
  <2> DEFINE s == SubSeq(chain, 1, p - 1)
             q == SubSeq(chain, p + 1, Len(chain))
  <2>1. /\ 1 \in Int /\ p - 1 \in Nat /\ p + 1 \in Int /\ Len(chain) \in Int
        /\ \A n \in 1..Len(chain) : chain[n] \in Entries
    BY <1>1, ChainType
  <2>2. /\ s \in Seq(Entries) /\ Len(s) = IF 1 <= p - 1 THEN p - 1 - 1 + 1 ELSE 0
        /\ \A n \in 1..p - 1 - 1 + 1 : s[n] = chain[1 + n - 1]
    <3>1. \A n \in 1..p - 1 : chain[n] \in Entries
      BY <1>1, <2>1
    <3>2. QED BY <2>1, <3>1, SubSeqProperties
  <2>3. /\ q \in Seq(Entries)
        /\ Len(q) = IF p + 1 <= Len(chain) THEN Len(chain) - (p + 1) + 1 ELSE 0
        /\ \A n \in 1..Len(chain) - (p + 1) + 1 : q[n] = chain[p + 1 + n - 1]
    <3>1. \A n \in p + 1..Len(chain) : chain[n] \in Entries
      BY <1>1, <2>1
    <3>2. QED BY <2>1, <3>1, SubSeqProperties
  <2> HIDE DEF s, q
  <2>4. Len(s) = p - 1 /\ \A n \in 1..p - 1 : s[n] = chain[n]
    BY <1>1, <2>2
  <2>5. Len(q) = Len(chain) - p /\ \A n \in 1..Len(chain) - p : q[n] = chain[p + n]
    <3>1. Len(q) = Len(chain) - p /\ Len(chain) - (p + 1) + 1 = Len(chain) - p
      <4>0. p \in Int /\ Len(chain) \in Int /\ p <= Len(chain)
        BY <1>1
      <4>1. /\ Len(chain) - (p + 1) + 1 = Len(chain) - p
            /\ p + 1 <= Len(chain) \/ Len(chain) - p = 0
        BY <4>0
      <4>2. Len(q) = IF p + 1 <= Len(chain) THEN Len(chain) - (p + 1) + 1 ELSE 0
        BY <2>3
      <4>3. QED BY <1>1, <4>1, <4>2
    <3>2. ASSUME NEW n \in 1..Len(chain) - p PROVE q[n] = chain[p + n]
      <4>1. p + 1 + n - 1 = p + n
        BY <1>1
      <4>2. q[n] = chain[p + 1 + n - 1]
        BY <2>3, <3>1
      <4>3. QED BY <4>1, <4>2
    <3>3. QED BY <3>1, <3>2
  <2>6. /\ s \o q \in Seq(Entries) /\ Len(s \o q) = Len(s) + Len(q)
        /\ \A n \in 1..Len(s) + Len(q) : (s \o q)[n] = IF n <= Len(s) THEN s[n] ELSE q[n - Len(s)]
    BY <2>2, <2>3, ConcatProperties
  <2>7. r = s \o q
    BY DEF RemoveAt, s, q
  <2> HIDE DEF r
  <2>8. /\ r \in Seq(Entries) /\ Len(r) = Len(chain) - 1
        /\ \A n \in 1..Len(chain) - 1 : r[n] = IF n <= p - 1 THEN s[n] ELSE q[n - (p - 1)]
    <3>1. Len(s) + Len(q) = Len(chain) - 1
      BY <1>1, <2>4, <2>5
    <3>2. QED BY <2>4, <2>6, <2>7, <3>1
  <2>9. ASSUME NEW n \in 1..Len(chain) - 1 PROVE r[n] = chain[From(n)]
    <3>1. CASE n <= p - 1
      BY <1>1, <2>4, <2>8, <3>1
    <3>2. CASE n > p - 1
      <4>1. n - (p - 1) \in 1..Len(chain) - p /\ p + (n - (p - 1)) = n + 1
        BY <1>1, <3>2
      <4>2. r[n] = q[n - (p - 1)]
        BY <1>1, <2>8, <3>2
      <4>3. QED BY <1>1, <2>5, <3>2, <4>1, <4>2
    <3>3. QED BY <1>1, <3>1, <3>2
  <2>10. DOMAIN r = 1..Len(chain) - 1
    BY <2>8
  <2>11. QED BY <2>8, <2>9, <2>10 DEF Chains
<1> HIDE DEF r
<1>3. ASSUME NEW n \in DOMAIN r
      PROVE  /\ From(n) \in DOMAIN chain /\ r[n] = chain[From(n)] /\ r[n].key # k
             /\ \A m \in DOMAIN r : m <= n <=> From(m) <= From(n)
  <2>1. From(n) \in DOMAIN chain /\ From(n) # p /\ r[n] = chain[From(n)]
    BY <1>1, <1>2
  <2>2. \A m \in DOMAIN r : m <= n <=> From(m) <= From(n)
    BY <1>1, <1>2
  <2>3. QED BY <1>1, <2>1, <2>2
<1>4. ASSUME NEW n \in DOMAIN chain, chain[n].key # k
      PROVE  To(n) \in DOMAIN r /\ r[To(n)] = chain[n] /\ From(To(n)) = n
  <2>1. n # p /\ n \in 1..Len(chain)
    BY <1>1, <1>4
  <2>2. To(n) \in 1..Len(chain) - 1 /\ From(To(n)) = n
    BY <1>1, <2>1
  <2>3. QED BY <1>2, <2>2
<1> HIDE DEF To
<1>5. OnceEach(r)
  <2>1. SUFFICES ASSUME NEW m \in DOMAIN r, NEW n \in DOMAIN r, r[m].key = r[n].key
                 PROVE  m = n
    BY DEF OnceEach
  <2>2. From(m) = From(n)
    BY <1>3, <2>1 DEF OnceEach
  <2>3. QED BY <1>1, <1>2, <2>2
<1> HIDE DEF From
<1>6. ASSUME NEW x \in Keys PROVE Of(r, x) = IF x = k THEN NoVal ELSE Of(chain, x)
  <2>1. CASE x = k
    BY <1>3, <2>1 DEF Of, Chained
  <2>2. CASE x # k /\ Chained(chain, x)
    <3>1. PICK n \in DOMAIN chain : chain[n].key = x
      BY <2>2 DEF Chained
    <3>2. Of(chain, x) = chain[n].val
      BY <3>1, OnlyPosition
    <3>3. To(n) \in DOMAIN r /\ r[To(n)] = chain[n]
      BY <1>4, <2>2, <3>1
    <3>4. Of(r, x) = r[To(n)].val
      BY <1>2, <1>5, <3>1, <3>3, OnlyPosition
    <3>5. QED BY <2>2, <3>2, <3>3, <3>4
  <2>3. CASE x # k /\ ~Chained(chain, x)
    <3>1. \A n \in DOMAIN r : r[n].key # x
      BY <1>3, <2>3 DEF Chained
    <3>2. Of(chain, x) = NoVal /\ Of(r, x) = NoVal
      BY <3>1, <2>3 DEF Of, Chained
    <3>3. QED BY <2>3, <3>2
  <2>4. QED BY <2>1, <2>2, <2>3
<1>7. ASSUME NEW x \in Keys, NEW y \in Keys, x # k, y # k
      PROVE  Follows(r, x, y) <=> Follows(chain, x, y)
  <2>1. ASSUME Follows(r, x, y) PROVE Follows(chain, x, y)
    <3>1. PICK m, n \in DOMAIN r : m <= n /\ r[m].key = x /\ r[n].key = y
      BY <2>1 DEF Follows
    <3>2. QED BY <1>3, <3>1 DEF Follows
  <2>2. ASSUME Follows(chain, x, y) PROVE Follows(r, x, y)
    <3>1. PICK m, n \in DOMAIN chain : m <= n /\ chain[m].key = x /\ chain[n].key = y
      BY <2>2 DEF Follows
    <3>2. To(m) \in DOMAIN r /\ r[To(m)] = chain[m] /\ From(To(m)) = m
      BY <1>4, <1>7, <3>1
    <3>3. To(n) \in DOMAIN r /\ r[To(n)] = chain[n] /\ From(To(n)) = n
      BY <1>4, <1>7, <3>1
    <3>4. To(m) <= To(n)
      BY <1>3, <3>1, <3>2, <3>3
    <3>5. QED BY <3>1, <3>2, <3>3, <3>4 DEF Follows
  <2>3. QED BY <2>1, <2>2
<1>8. QED BY <1>2, <1>5, <1>6, <1>7 DEF Becomes, r, p

(* An entry gets another value: the keys stay where they are.                *)
SameKeys(chain, r) ==
  DOMAIN r = DOMAIN chain /\ \A n \in DOMAIN chain : r[n].key = chain[n].key

LEMMA SameFollows ==
  ASSUME NEW chain, NEW r, SameKeys(chain, r)
  PROVE  \A x, y : Follows(r, x, y) <=> Follows(chain, x, y)
  BY DEF SameKeys, Follows

LEMMA Reassigned ==
  ASSUME NEW chain \in Chains, OnceEach(chain), NEW k \in Keys, NEW v \in Vals,
         Chained(chain, k)
  PROVE  /\ Becomes(chain, [chain EXCEPT ![Position(chain, k)].val = v], k, v)
         /\ SameKeys(chain, [chain EXCEPT ![Position(chain, k)].val = v])
<1> DEFINE p == Position(chain, k)
           e == [chain[p] EXCEPT !.val = v]
           r == [chain EXCEPT ![p] = e]
<1>1. p \in DOMAIN chain /\ chain[p].key = k /\ chain[p] \in Entries
  BY PositionFinds, ChainType
<1> HIDE DEF p
<1>2. e \in Entries /\ e.key = k /\ e.val = v
  BY <1>1 DEF Entries
<1> HIDE DEF e
<1>3. /\ r \in Chains /\ DOMAIN r = DOMAIN chain /\ r[p] = e
      /\ \A n \in DOMAIN chain : n # p => r[n] = chain[n]
  BY <1>1, <1>2 DEF Chains
<1>4. r = [chain EXCEPT ![p].val = v]
  BY DEF e
<1> HIDE DEF r
<1>5. SameKeys(chain, r)
  BY <1>1, <1>2, <1>3 DEF SameKeys
<1>6. OnceEach(r)
  BY <1>5 DEF SameKeys, OnceEach
<1>7. ASSUME NEW x \in Keys PROVE Of(r, x) = IF x = k THEN v ELSE Of(chain, x)
  <2>1. CASE x = k
    BY <1>1, <1>2, <1>3, <1>6, <2>1, OnlyPosition
  <2>2. CASE x # k /\ Chained(chain, x)
    <3>1. PICK n \in DOMAIN chain : chain[n].key = x
      BY <2>2 DEF Chained
    <3>2. Of(chain, x) = chain[n].val
      BY <3>1, OnlyPosition
    <3>3. r[n] = chain[n] /\ n \in DOMAIN r
      BY <1>1, <1>3, <2>2, <3>1
    <3>4. Of(r, x) = r[n].val
      BY <1>3, <1>6, <3>1, <3>3, OnlyPosition
    <3>5. QED BY <2>2, <3>2, <3>3, <3>4
  <2>3. CASE x # k /\ ~Chained(chain, x)
    <3>1. ~Chained(r, x)
      BY <1>5, <2>3 DEF Chained, SameKeys
    <3>2. QED BY <2>3, <3>1 DEF Of
  <2>4. QED BY <2>1, <2>2, <2>3
<1>8. Becomes(chain, r, k, v)
  BY <1>3, <1>5, <1>6, <1>7, SameFollows DEF Becomes
<1>9. QED BY <1>4, <1>5, <1>8 DEF p

-----------------------------------------------------------------------------
(* Tables.                                                                   *)
LEMMA BucketIn ==
  ASSUME NEW t, t.size \in Nat \ {0}, NEW k \in Keys
  PROVE  Bucket(t, k) \in 0..t.size - 1
<1>1. Hash[k] \in Nat
  BY HashAssumption
<1>2. QED BY <1>1 DEF Bucket

LEMMA TableType ==
  ASSUME NEW t \in Tables
  PROVE  t.size \in Nat /\ t.used \in Nat /\ t.table \in Buckets
  BY DEF Tables

LEMMA ChainIn ==
  ASSUME NEW t, TableFits(t), NEW k \in Keys
  PROVE  /\ Chain(t, k) \in Chains /\ OnceEach(Chain(t, k))
         /\ t.size # 0 => /\ Bucket(t, k) \in 0..t.size - 1
                          /\ Chain(t, k) = t.table[Bucket(t, k)]
<1>1. t.size \in Nat
  BY TableType DEF TableFits
<1>2. CASE t.size = 0
  <2>1. Chain(t, k) = << >>
    BY <1>2 DEF Chain
  <2>2. QED BY <1>2, <2>1 DEF Chains, OnceEach
<1>3. CASE t.size # 0
  <2>1. Bucket(t, k) \in 0..t.size - 1
    BY <1>1, <1>3, BucketIn
  <2>2. Chain(t, k) = t.table[Bucket(t, k)]
    BY <1>3 DEF Chain
  <2>3. \A b \in 0..t.size - 1 : t.table[b] \in Chains /\ OnceEach(t.table[b])
    BY DEF TableFits
  <2>4. QED BY <1>3, <2>1, <2>2, <2>3
<1>4. QED BY <1>2, <1>3

LEMMA InType ==
  ASSUME NEW t, TableFits(t), NEW k \in Keys
  PROVE  In(t, k) \in Vals \cup {NoVal} /\ (Holds(t, k) <=> In(t, k) # NoVal)
         /\ (Holds(t, k) => t.size # 0)
<1>1. Chain(t, k) \in Chains
  BY ChainIn
<1>2. Holds(t, k) => t.size # 0
  BY DEF Holds, Chain, Chained
<1>3. QED BY <1>1, <1>2, OfType DEF In, Holds

(* An entry is where a lookup of its key finds it.                           *)
LEMMA EntryIn ==
  ASSUME NEW t, TableFits(t), NEW b \in 0..t.size - 1, NEW n \in DOMAIN t.table[b]
  PROVE  /\ t.table[b][n].key \in Keys /\ t.table[b][n].val \in Vals
         /\ Bucket(t, t.table[b][n].key) = b /\ Chain(t, t.table[b][n].key) = t.table[b]
         /\ Position(t.table[b], t.table[b][n].key) = n
         /\ In(t, t.table[b][n].key) = t.table[b][n].val
<1>1. t.table[b] \in Chains /\ OnceEach(t.table[b]) /\ Bucket(t, t.table[b][n].key) = b
  BY DEF TableFits
<1>2. t.table[b][n].key \in Keys /\ t.table[b][n].val \in Vals
  BY <1>1, ChainType
<1>3. t.size # 0
  OBVIOUS
<1>4. Chain(t, t.table[b][n].key) = t.table[b]
  BY <1>1, <1>3 DEF Chain
<1>5. QED BY <1>1, <1>2, <1>4, OnlyPosition DEF In

(* A table that is new.                                                      *)
LEMMA NewTableFits ==
  ASSUME NEW n \in Nat
  PROVE  /\ TableFits(NewTable(n)) /\ NewTable(n).size = n /\ NewTable(n).used = 0
         /\ \A k \in Keys : In(NewTable(n), k) = NoVal
         /\ \A b \in 0..n - 1 : NewTable(n).table[b] = << >>
<1> DEFINE f == [b \in 0..n - 1 |-> << >>]
           t == NewTable(n)
<1>1. f \in [0..n - 1 -> Chains] /\ f \in Buckets
  <2>1. << >> \in Chains
    BY DEF Chains
  <2>2. f \in [0..n - 1 -> Chains]
    BY <2>1
  <2>3. QED BY <2>2 DEF Buckets
<1>2. /\ t \in Tables /\ t.size = n /\ t.table = f /\ t.used = 0
  BY <1>1 DEF NewTable, Tables
<1>3. \A b \in 0..n - 1 : f[b] = << >>
  OBVIOUS
<1> HIDE DEF f, t
<1>4. ASSUME NEW k \in Keys PROVE In(t, k) = NoVal
  <2>1. Chain(t, k) = << >>
    <3>1. CASE n = 0
      BY <1>2, <3>1 DEF Chain
    <3>2. CASE n # 0
      <4>1. Bucket(t, k) \in 0..n - 1
        BY <1>2, <3>2, BucketIn
      <4>2. QED BY <1>2, <1>3, <3>2, <4>1 DEF Chain
    <3>3. QED BY <3>1, <3>2
  <2>2. QED BY <2>1 DEF In, Of, Chained
<1>5. KeysIn(t) = {}
  BY <1>4 DEF KeysIn
<1>6. IsFiniteSet(KeysIn(t)) /\ t.used = Cardinality(KeysIn(t))
  BY <1>2, <1>5, FS_EmptySet
<1>7. \A b \in 0..n - 1 : DOMAIN t.table[b] = {}
  BY <1>2, <1>3
<1>8. TableFits(t)
  BY <1>1, <1>2, <1>6, <1>7 DEF TableFits, OnceEach
<1>9. QED BY <1>2, <1>3, <1>4, <1>8 DEF t

LEMMA NoTableFits == NoTable = NewTable(0)
<1>1. << >> = [b \in 0..0 - 1 |-> << >>]
  OBVIOUS
<1>2. QED BY <1>1 DEF NoTable, NewTable

(* A chain is replaced, with one key added, taken out or given another       *)
(* value.                                                                    *)
Gains(t, k, v) ==
  IF v # NoVal /\ In(t, k) = NoVal THEN 1 ELSE IF v = NoVal /\ In(t, k) # NoVal THEN -1 ELSE 0

LEMMA RechainFits ==
  ASSUME NEW t, TableFits(t), t.size # 0, NEW k \in Keys, NEW v \in Vals \cup {NoVal},
         NEW c, Becomes(Chain(t, k), c, k, v)
  PROVE  LET r == Rechain(t, k, c, Gains(t, k, v))
         IN  /\ TableFits(r) /\ r.size = t.size
             /\ \A x \in Keys : In(r, x) = IF x = k THEN v ELSE In(t, x)
             /\ r.table[Bucket(t, k)] = c
             /\ \A b \in 0..t.size - 1 : b # Bucket(t, k) => r.table[b] = t.table[b]
<1> DEFINE b == Bucket(t, k)
           f == [t.table EXCEPT ![b] = c]
           n == Gains(t, k, v)
           r == Rechain(t, k, c, n)
<1>1. /\ t \in Tables /\ t.size \in Nat /\ t.used \in Nat /\ b \in 0..t.size - 1
      /\ t.table \in [0..t.size - 1 -> Chains]
      /\ Chain(t, k) \in Chains /\ OnceEach(Chain(t, k)) /\ Chain(t, k) = t.table[b]
  BY ChainIn, TableType DEF TableFits
<1>2. r = [t EXCEPT !.table = f, !.used = t.used + n]
  BY DEF Rechain
<1> HIDE DEF b
<1>3. c \in Chains /\ OnceEach(c) /\ \A x \in Keys : Of(c, x) = IF x = k THEN v ELSE Of(t.table[b], x)
  BY <1>1 DEF Becomes
<1>4. /\ f \in [0..t.size - 1 -> Chains] /\ f[b] = c
      /\ \A a \in 0..t.size - 1 : a # b => f[a] = t.table[a]
  BY <1>1, <1>3
<1>5. f \in Buckets
  BY <1>1, <1>4 DEF Buckets
<1> HIDE DEF f
<1>6. In(t, k) \in Vals \cup {NoVal} /\ (k \in KeysIn(t) <=> In(t, k) # NoVal)
  BY InType DEF KeysIn
<1> DEFINE keys == IF v = NoVal THEN KeysIn(t) \ {k} ELSE KeysIn(t) \cup {k}
<1>7. IsFiniteSet(keys) /\ t.used + n = Cardinality(keys) /\ t.used + n \in Nat
  <2>1. IsFiniteSet(KeysIn(t)) /\ t.used = Cardinality(KeysIn(t))
    BY DEF TableFits
  <2>2. CASE v = NoVal
    <3>1. keys = KeysIn(t) \ {k}
      BY <2>2
    <3>2. /\ IsFiniteSet(keys)
          /\ Cardinality(keys) = IF k \in KeysIn(t) THEN Cardinality(KeysIn(t)) - 1 ELSE Cardinality(KeysIn(t))
      BY <2>1, <3>1, FS_RemoveElement
    <3>3. n = IF k \in KeysIn(t) THEN -1 ELSE 0
      BY <1>6, <2>2 DEF Gains
    <3>4. Cardinality(keys) \in Nat
      BY <3>2, FS_CardinalityType
    <3> HIDE DEF keys, n
    <3>5. QED BY <1>1, <2>1, <3>2, <3>3, <3>4
  <2>3. CASE v # NoVal
    <3>1. keys = KeysIn(t) \cup {k}
      BY <2>3
    <3>2. /\ IsFiniteSet(keys)
          /\ Cardinality(keys) = IF k \in KeysIn(t) THEN Cardinality(KeysIn(t)) ELSE Cardinality(KeysIn(t)) + 1
      BY <2>1, <3>1, FS_AddElement
    <3>3. n = IF k \in KeysIn(t) THEN 0 ELSE 1
      BY <1>6, <2>3 DEF Gains
    <3>4. Cardinality(keys) \in Nat
      BY <3>2, FS_CardinalityType
    <3> HIDE DEF keys, n
    <3>5. QED BY <1>1, <2>1, <3>2, <3>3, <3>4
  <2>4. QED BY <2>2, <2>3
<1> HIDE DEF n, r
<1>8. r \in Tables /\ r.size = t.size /\ r.table = f /\ r.used = t.used + n
  BY <1>1, <1>2, <1>5, <1>7 DEF Tables
<1>9. \A x : Bucket(r, x) = Bucket(t, x)
  BY <1>8 DEF Bucket
<1>10. ASSUME NEW x \in Keys PROVE In(r, x) = IF x = k THEN v ELSE In(t, x)
  <2>1. Bucket(t, x) \in 0..t.size - 1 /\ Chain(t, x) = t.table[Bucket(t, x)]
    BY ChainIn
  <2>2. Chain(r, x) = f[Bucket(t, x)]
    BY <1>8, <1>9 DEF Chain
  <2>3. CASE Bucket(t, x) = b
    BY <1>3, <1>4, <2>1, <2>2, <2>3 DEF In
  <2>4. CASE Bucket(t, x) # b
    BY <1>4, <2>1, <2>2, <2>4 DEF In, b
  <2>5. QED BY <2>3, <2>4
<1>11. KeysIn(r) = keys
  BY <1>6, <1>10 DEF KeysIn
<1>12. ASSUME NEW a \in 0..t.size - 1
       PROVE  OnceEach(f[a]) /\ \A m \in DOMAIN f[a] : Bucket(t, f[a][m].key) = a
  <2>1. CASE a # b
    BY <1>4, <2>1 DEF TableFits
  <2>2. CASE a = b
    <3>1. ASSUME NEW m \in DOMAIN c PROVE Bucket(t, c[m].key) = b
      <4>1. c[m].key \in Keys /\ Of(c, c[m].key) # NoVal
        BY <1>3, ChainType, OnlyPosition, OfType
      <4>2. CASE c[m].key = k
        BY <4>2 DEF b
      <4>3. CASE c[m].key # k
        <5>1. Of(t.table[b], c[m].key) # NoVal
          BY <1>3, <4>1, <4>3
        <5>2. PICK j \in DOMAIN t.table[b] : t.table[b][j].key = c[m].key
          BY <1>1, <5>1, OfType DEF Chained
        <5>3. QED BY <1>1, <5>2 DEF TableFits
      <4>4. QED BY <4>2, <4>3
    <3>2. QED BY <1>3, <1>4, <2>2, <3>1
  <2>3. QED BY <2>1, <2>2
<1>13. TableFits(r)
  <2> HIDE DEF keys
  <2>1. IsFiniteSet(KeysIn(r)) /\ r.used = Cardinality(KeysIn(r))
    BY <1>7, <1>8, <1>11
  <2>2. QED BY <1>4, <1>8, <1>9, <1>12, <2>1 DEF TableFits
<1>14. QED BY <1>4, <1>8, <1>10, <1>13 DEF r, n, b

(* How a table changes in the value of one key.                              *)
Changes(t, r, k, v) ==
  /\ TableFits(r) /\ r.size = t.size
  /\ \A x \in Keys : In(r, x) = IF x = k THEN v ELSE In(t, x)
  /\ \A b \in 0..t.size - 1 : \A x, y \in Keys :
       x # k /\ y # k => (Follows(r.table[b], x, y) <=> Follows(t.table[b], x, y))

LEMMA RechainChanges ==
  ASSUME NEW t, TableFits(t), t.size # 0, NEW k \in Keys, NEW v \in Vals \cup {NoVal},
         NEW c, Becomes(Chain(t, k), c, k, v)
  PROVE  Changes(t, Rechain(t, k, c, Gains(t, k, v)), k, v)
<1> DEFINE r == Rechain(t, k, c, Gains(t, k, v))
<1>1. /\ TableFits(r) /\ r.size = t.size
      /\ \A x \in Keys : In(r, x) = IF x = k THEN v ELSE In(t, x)
      /\ r.table[Bucket(t, k)] = c
      /\ \A b \in 0..t.size - 1 : b # Bucket(t, k) => r.table[b] = t.table[b]
  BY RechainFits
<1> HIDE DEF r
<1>2. Chain(t, k) = t.table[Bucket(t, k)]
  BY ChainIn
<1>3. ASSUME NEW b \in 0..t.size - 1, NEW x \in Keys, NEW y \in Keys, x # k, y # k
      PROVE  Follows(r.table[b], x, y) <=> Follows(t.table[b], x, y)
  <2>1. CASE b = Bucket(t, k)
    BY <1>1, <1>2, <1>3, <2>1 DEF Becomes
  <2>2. CASE b # Bucket(t, k)
    BY <1>1, <2>2
  <2>3. QED BY <2>1, <2>2
<1>4. Changes(t, r, k, v)
  BY <1>1, <1>3 DEF Changes
<1>5. QED BY <1>4 DEF r

(* dictAdd and dictRehash put an entry in front of its chain.                *)
LEMMA PushedChanges ==
  ASSUME NEW t, TableFits(t), t.size # 0, NEW e \in Entries, In(t, e.key) = NoVal
  PROVE  Changes(t, Pushed(t, e), e.key, e.val)
<1>1. /\ e.key \in Keys /\ e.val \in Vals /\ e.val # NoVal
      /\ e = [key |-> e.key, val |-> e.val]
  BY NothingAssumption DEF Entries
<1>2. Chain(t, e.key) \in Chains /\ OnceEach(Chain(t, e.key)) /\ Of(Chain(t, e.key), e.key) = NoVal
  BY <1>1, ChainIn DEF In
<1>3. Becomes(Chain(t, e.key), <<e>> \o Chain(t, e.key), e.key, e.val)
  BY <1>1, <1>2, Prefixed
<1>4. Gains(t, e.key, e.val) = 1
  BY <1>1 DEF Gains
<1>5. Changes(t, Rechain(t, e.key, <<e>> \o Chain(t, e.key), Gains(t, e.key, e.val)), e.key, e.val)
  BY <1>1, <1>3, RechainChanges
<1>6. QED BY <1>4, <1>5 DEF Pushed

(* Filled is the function its recursion describes.                           *)
FilledUpTo(t, s, k, f) ==
  f = [n \in 0..k |-> IF n = 0 THEN t ELSE Pushed(f[n - 1], s[n])]

LEMMA FilledExists ==
  ASSUME NEW t, NEW s, NEW last \in Nat
  PROVE  \A k \in 0..last : \E f : FilledUpTo(t, s, k, f)
<1> DEFINE C == {k \in 0..last : ~ \E f : FilledUpTo(t, s, k, f)}
<1>1. SUFFICES ASSUME C # {} PROVE FALSE
  OBVIOUS
<1>2. PICK k \in C : \A n \in C : k <= n
  <2>1. C \subseteq Nat
    OBVIOUS
  <2> HIDE DEF C
  <2>2. QED BY <1>1, <2>1, NatMin
<1>3. CASE k = 0
  <2> DEFINE f == [n \in 0..0 |-> t]
  <2>1. f = [n \in 0..0 |-> IF n = 0 THEN t ELSE Pushed(f[n - 1], s[n])]
    OBVIOUS
  <2>2. QED BY <1>3, <2>1 DEF FilledUpTo
<1>4. CASE k # 0
  <2>1. k - 1 \in 0..last /\ k - 1 \notin C /\ k \in Nat
    BY <1>2, <1>4
  <2>2. PICK f : FilledUpTo(t, s, k - 1, f)
    BY <2>1
  <2>3. \A n \in 0..k - 1 : f[n] = IF n = 0 THEN t ELSE Pushed(f[n - 1], s[n])
    BY <2>2 DEF FilledUpTo
  <2> DEFINE g == [n \in 0..k |-> IF n = k THEN Pushed(f[k - 1], s[k]) ELSE f[n]]
             h == [n \in 0..k |-> IF n = 0 THEN t ELSE Pushed(g[n - 1], s[n])]
  <2>4. ASSUME NEW n \in 0..k PROVE g[n] = h[n]
    <3>1. CASE n = 0
      BY <1>4, <2>1, <2>3, <3>1
    <3>2. CASE n # 0
      <4>1. n - 1 \in 0..k - 1 /\ n - 1 # k /\ n - 1 \in 0..k
        BY <2>1, <3>2
      <4>2. g[n - 1] = f[n - 1]
        BY <4>1
      <4>3. g[n] = Pushed(f[n - 1], s[n])
        <5>1. CASE n = k
          BY <5>1
        <5>2. CASE n # k
          <6>1. n \in 0..k - 1
            BY <2>1, <5>2
          <6>2. QED BY <2>3, <3>2, <5>2, <6>1
        <5>3. QED BY <5>1, <5>2
      <4>4. QED BY <3>2, <4>2, <4>3
    <3>3. QED BY <3>1, <3>2
  <2>5. g = h
    BY <2>4
  <2>6. FilledUpTo(t, s, k, g)
    BY <2>5 DEF FilledUpTo
  <2>7. QED BY <1>2, <2>6
<1>5. QED BY <1>3, <1>4

LEMMA FilledIs ==
  ASSUME NEW t, NEW s, Len(s) \in Nat
  PROVE  \E f : /\ Filled(t, s) = f[Len(s)] /\ f[0] = t
                /\ \A n \in 1..Len(s) : f[n] = Pushed(f[n - 1], s[n])
<1> DEFINE Def(f) == [n \in 0..Len(s) |-> IF n = 0 THEN t ELSE Pushed(f[n - 1], s[n])]
           h == CHOOSE f : f = Def(f)
<1>1. PICK g : FilledUpTo(t, s, Len(s), g)
  <2>1. Len(s) \in 0..Len(s)
    OBVIOUS
  <2>2. QED BY <2>1, FilledExists
<1>2. h = Def(h)
  BY <1>1 DEF FilledUpTo
<1>3. Filled(t, s) = h[Len(s)]
  BY DEF Filled
<1> HIDE DEF h
<1>4. \A n \in 0..Len(s) : h[n] = Def(h)[n]
  BY <1>2
<1>5. h[0] = t
  BY <1>4
<1>6. ASSUME NEW n \in 1..Len(s) PROVE h[n] = Pushed(h[n - 1], s[n])
  <2>1. n \in 0..Len(s) /\ n # 0
    OBVIOUS
  <2>2. QED BY <1>4, <2>1
<1>7. QED BY <1>3, <1>5, <1>6

(* All of a bucket is moved.                                                 *)
LEMMA FilledFits ==
  ASSUME NEW t, TableFits(t), t.size # 0, NEW s \in Chains, OnceEach(s),
         \A n \in DOMAIN s : In(t, s[n].key) = NoVal
  PROVE  LET r == Filled(t, s)
         IN  /\ TableFits(r) /\ r.size = t.size
             /\ \A x \in Keys : In(r, x) = IF Chained(s, x) THEN Of(s, x) ELSE In(t, x)
<1>1. Len(s) \in Nat /\ DOMAIN s = 1..Len(s) /\ \A n \in 1..Len(s) : s[n] \in Entries /\ s[n].key \in Keys
  BY ChainType
<1>2. PICK f : /\ Filled(t, s) = f[Len(s)] /\ f[0] = t
               /\ \A n \in 1..Len(s) : f[n] = Pushed(f[n - 1], s[n])
  BY <1>1, FilledIs
<1> DEFINE Among(n, x) == \E m \in 1..n : s[m].key = x
           Fine(n) == /\ TableFits(f[n]) /\ f[n].size = t.size
                      /\ \A x \in Keys : In(f[n], x) = IF Among(n, x) THEN Of(s, x) ELSE In(t, x)
           C == {n \in 0..Len(s) : ~Fine(n)}
<1>3. C = {}
  <2>1. SUFFICES ASSUME C # {} PROVE FALSE
    OBVIOUS
  <2>2. PICK n \in C : \A m \in C : n <= m
    <3>1. C \subseteq Nat
      BY <1>1
    <3> HIDE DEF C
    <3>2. QED BY <2>1, <3>1, NatMin
  <2>3. n \in 0..Len(s) /\ ~Fine(n)
    OBVIOUS
  <2>4. CASE n = 0
    <3>1. \A x : ~Among(0, x)
      OBVIOUS
    <3>2. QED BY <1>2, <2>3, <2>4, <3>1
  <2>5. CASE n # 0
    <3>1. n \in 1..Len(s) /\ n - 1 \in 0..Len(s) /\ n - 1 \notin C
      BY <1>1, <2>2, <2>3, <2>5
    <3>2. Fine(n - 1)
      BY <3>1
    <3>3. /\ s[n] \in Entries /\ s[n].key \in Keys /\ In(t, s[n].key) = NoVal
          /\ Of(s, s[n].key) = s[n].val
      BY <1>1, <3>1, OnlyPosition
    <3>4. ~Among(n - 1, s[n].key)
      BY <1>1, <3>1 DEF OnceEach
    <3>5. Changes(f[n - 1], f[n], s[n].key, s[n].val)
      BY <1>2, <3>1, <3>2, <3>3, <3>4, PushedChanges
    <3>6. ASSUME NEW x \in Keys PROVE In(f[n], x) = IF Among(n, x) THEN Of(s, x) ELSE In(t, x)
      <4>1. Among(n, x) <=> Among(n - 1, x) \/ x = s[n].key
        BY <3>1
      <4>2. In(f[n], x) = IF x = s[n].key THEN s[n].val ELSE In(f[n - 1], x)
        BY <3>5 DEF Changes
      <4>3. In(f[n - 1], x) = IF Among(n - 1, x) THEN Of(s, x) ELSE In(t, x)
        BY <3>2
      <4> HIDE DEF Among
      <4>4. QED BY <3>3, <4>1, <4>2, <4>3
    <3>7. TableFits(f[n]) /\ f[n].size = t.size
      BY <3>2, <3>5 DEF Changes
    <3>8. QED BY <2>3, <3>6, <3>7
  <2>6. QED BY <2>4, <2>5
<1>4. Fine(Len(s))
  BY <1>1, <1>3
<1>5. \A x : Among(Len(s), x) <=> Chained(s, x)
  BY <1>1 DEF Chained
<1> HIDE DEF Among
<1>6. QED BY <1>2, <1>4, <1>5

-----------------------------------------------------------------------------
(* Both tables.                                                              *)
LEMMA DictType ==
  ASSUME NEW dd \in Dicts
  PROVE  /\ dd.ht \in [{0, 1} -> Tables] /\ dd.ht[0] \in Tables /\ dd.ht[1] \in Tables
         /\ dd.rehashidx \in Int /\ dd.iterators \in Int
  BY DEF Dicts

PutTable(dd, t, x) == [dd EXCEPT !.ht[t] = x]

LEMMA TablePut ==
  ASSUME NEW dd \in Dicts, NEW t \in {0, 1}, NEW x \in Tables
  PROVE  LET r == PutTable(dd, t, x)
         IN  /\ r \in Dicts /\ r.ht[t] = x /\ r.ht[1 - t] = dd.ht[1 - t]
             /\ r.rehashidx = dd.rehashidx /\ r.iterators = dd.iterators
<1> DEFINE h == [dd.ht EXCEPT ![t] = x]
           r == PutTable(dd, t, x)
<1>1. h \in [{0, 1} -> Tables] /\ h[t] = x /\ h[1 - t] = dd.ht[1 - t]
  BY DictType
<1>2. r = [dd EXCEPT !.ht = h]
  BY DEF PutTable
<1> HIDE DEF h
<1>3. r \in Dicts /\ r.ht = h /\ r.rehashidx = dd.rehashidx /\ r.iterators = dd.iterators
  BY <1>1, <1>2 DEF Dicts
<1>4. QED BY <1>1, <1>3

(* The value of a key is that of the table that has it.                      *)
LEMMA ValueIs ==
  ASSUME NEW dd, DictFits(dd), NEW k \in Keys
  PROVE  /\ Value(dd, k) = IF In(dd.ht[0], k) # NoVal THEN In(dd.ht[0], k) ELSE In(dd.ht[1], k)
         /\ Value(dd, k) \in Vals \cup {NoVal}
         /\ Has(dd, k) <=> Value(dd, k) # NoVal
         /\ Holder(dd, k) \in {0, 1} /\ In(dd.ht[Holder(dd, k)], k) = Value(dd, k)
         /\ Value(dd, k) # NoVal => dd.ht[Holder(dd, k)].size # 0
<1>1. /\ TableFits(dd.ht[0]) /\ TableFits(dd.ht[1]) /\ dd.ht[1].size \in Nat
      /\ IsRehashing(dd) <=> dd.ht[1].size > 0
  BY DictType, TableType DEF DictFits
<1>2. /\ In(dd.ht[0], k) \in Vals \cup {NoVal} /\ In(dd.ht[1], k) \in Vals \cup {NoVal}
      /\ Holds(dd.ht[0], k) <=> In(dd.ht[0], k) # NoVal
      /\ Holds(dd.ht[1], k) <=> In(dd.ht[1], k) # NoVal
      /\ Holds(dd.ht[0], k) => dd.ht[0].size # 0
      /\ Holds(dd.ht[1], k) => dd.ht[1].size # 0
  BY <1>1, InType
<1>3. Holds(dd.ht[1], k) => IsRehashing(dd)
  BY <1>1, <1>2
<1>4. ASSUME NEW t \in {0, 1}, Holds(dd.ht[t], k) PROVE ValueIn(dd.ht[t], k) = In(dd.ht[t], k)
  BY <1>4 DEF ValueIn, In, Of, Holds
<1>5. Value(dd, k) = IF In(dd.ht[0], k) # NoVal THEN In(dd.ht[0], k) ELSE In(dd.ht[1], k)
  BY <1>2, <1>3, <1>4 DEF Value
<1>6. Has(dd, k) <=> Value(dd, k) # NoVal
  BY <1>2, <1>3, <1>5 DEF Has
<1>7. Holder(dd, k) = IF In(dd.ht[0], k) # NoVal THEN 0 ELSE 1
  BY <1>2 DEF Holder
<1>8. QED BY <1>2, <1>5, <1>6, <1>7

(* A table of the dict changes in the value of one key: the key is not in the *)
(* other one, nor in the part of the first that was moved.                   *)
LEMMA PutFits ==
  ASSUME NEW dd, DictFits(dd), NEW t \in {0, 1}, NEW k \in Keys, NEW v \in Vals \cup {NoVal},
         NEW x, Changes(dd.ht[t], x, k, v), dd.ht[t].size # 0,
         In(dd.ht[1 - t], k) = NoVal,
         t = 0 => ~IsRehashing(dd) \/ In(dd.ht[0], k) # NoVal
  PROVE  /\ DictFits(PutTable(dd, t, x))
         /\ \A y \in Keys : Value(PutTable(dd, t, x), y) = IF y = k THEN v ELSE Value(dd, y)
<1> DEFINE r == PutTable(dd, t, x)
<1>1. /\ dd \in Dicts /\ TableFits(dd.ht[0]) /\ TableFits(dd.ht[1])
      /\ dd.ht[0].size \in Nat /\ dd.ht[1].size \in Nat
      /\ dd.rehashidx \in -1..dd.ht[0].size
      /\ \A y \in Keys : In(dd.ht[0], y) = NoVal \/ In(dd.ht[1], y) = NoVal
  BY DictType, TableType DEF DictFits
<1>2. TableFits(x) /\ x \in Tables /\ x.size = dd.ht[t].size
      /\ \A y \in Keys : In(x, y) = IF y = k THEN v ELSE In(dd.ht[t], y)
  BY DEF Changes, TableFits
<1>3. /\ r \in Dicts /\ r.ht[t] = x /\ r.ht[1 - t] = dd.ht[1 - t]
      /\ r.rehashidx = dd.rehashidx /\ r.iterators = dd.iterators
  BY <1>1, <1>2, TablePut
<1> HIDE DEF r
<1>4. TableFits(r.ht[0]) /\ TableFits(r.ht[1])
      /\ r.ht[0].size = dd.ht[0].size /\ r.ht[1].size = dd.ht[1].size
  <2>1. CASE t = 0
    BY <1>1, <1>2, <1>3, <2>1
  <2>2. CASE t = 1
    BY <1>1, <1>2, <1>3, <2>2
  <2>3. QED BY <2>1, <2>2
<1>5. ASSUME NEW y \in Keys
      PROVE  /\ In(r.ht[0], y) = NoVal \/ In(r.ht[1], y) = NoVal
             /\ (IF In(r.ht[0], y) # NoVal THEN In(r.ht[0], y) ELSE In(r.ht[1], y))
                  = IF y = k THEN v ELSE Value(dd, y)
  <2>1. Value(dd, y) = IF In(dd.ht[0], y) # NoVal THEN In(dd.ht[0], y) ELSE In(dd.ht[1], y)
    BY ValueIs
  <2>2. In(dd.ht[0], y) = NoVal \/ In(dd.ht[1], y) = NoVal
    BY <1>1
  <2>3. CASE t = 0
    BY <1>2, <1>3, <2>1, <2>2, <2>3
  <2>4. CASE t = 1
    BY <1>2, <1>3, <2>1, <2>2, <2>4
  <2>5. QED BY <2>3, <2>4
<1>6. IsRehashing(r) <=> IsRehashing(dd)
  BY <1>3 DEF IsRehashing
<1>7. ASSUME NEW b \in 0..r.rehashidx - 1 PROVE r.ht[0].table[b] = << >>
  <2>1. dd.ht[0].table[b] = << >> /\ b \in 0..dd.ht[0].size - 1 /\ IsRehashing(dd)
    BY <1>1, <1>3 DEF DictFits, IsRehashing
  <2>2. CASE t = 1
    BY <1>3, <2>1, <2>2
  <2>3. CASE t = 0
    <3>1. In(dd.ht[0], k) # NoVal
      BY <2>1, <2>3
    <3>2. x.table[b] \in Chains /\ Len(x.table[b]) \in Nat /\ DOMAIN x.table[b] = 1..Len(x.table[b])
      <4>1. x.table[b] \in Chains
        BY <1>2, <2>1, <2>3 DEF TableFits
      <4>2. QED BY <4>1, ChainType
    <3>3. ASSUME NEW n \in DOMAIN x.table[b] PROVE FALSE
      <4>1. /\ x.table[b][n].key \in Keys /\ In(x, x.table[b][n].key) # NoVal
            /\ Bucket(x, x.table[b][n].key) = b
        <5>1. b \in 0..x.size - 1
          BY <1>2, <2>1, <2>3
        <5>2. QED BY <1>2, <5>1, EntryIn, NothingAssumption
      <4>2. In(dd.ht[0], x.table[b][n].key) # NoVal
        BY <1>2, <2>3, <3>1, <4>1
      <4>3. Bucket(dd.ht[0], x.table[b][n].key) = b
        BY <1>2, <2>3, <4>1 DEF Bucket
      <4>4. Holds(dd.ht[0], x.table[b][n].key) /\ dd.ht[0].size # 0
        BY <1>1, <4>1, <4>2, InType
      <4>5. Chain(dd.ht[0], x.table[b][n].key) = << >>
        BY <2>1, <4>3, <4>4 DEF Chain
      <4>6. QED BY <4>4, <4>5 DEF Holds, Chained
    <3>4. x.table[b] = << >>
      <4>1. Len(x.table[b]) # 0 => 1 \in DOMAIN x.table[b]
        BY <3>2
      <4>2. Len(x.table[b]) = 0
        BY <3>3, <4>1
      <4>3. QED BY <3>2, <4>2 DEF Chains
    <3>5. QED BY <1>3, <2>3, <3>4
  <2>4. QED BY <2>2, <2>3
<1>8. DictFits(r)
  BY <1>1, <1>3, <1>4, <1>5, <1>6, <1>7 DEF DictFits
<1>9. ASSUME NEW y \in Keys PROVE Value(r, y) = IF y = k THEN v ELSE Value(dd, y)
  BY <1>5, <1>8, ValueIs
<1>10. QED BY <1>8, <1>9 DEF r

-----------------------------------------------------------------------------
(* _dictNextPower: the doubling reaches n.                                    *)
DoubledUpTo(k, f) == f = [p \in 0..k |-> IF p = 0 THEN InitialSize ELSE 2 * f[p - 1]]

LEMMA DoubledExists ==
  ASSUME NEW last \in Nat
  PROVE  \A k \in 0..last : \E f : DoubledUpTo(k, f)
<1> DEFINE C == {k \in 0..last : ~ \E f : DoubledUpTo(k, f)}
<1>1. SUFFICES ASSUME C # {} PROVE FALSE
  OBVIOUS
<1>2. PICK k \in C : \A n \in C : k <= n
  <2>1. C \subseteq Nat
    OBVIOUS
  <2> HIDE DEF C
  <2>2. QED BY <1>1, <2>1, NatMin
<1>3. CASE k = 0
  <2> DEFINE f == [p \in 0..0 |-> InitialSize]
  <2>1. f = [p \in 0..0 |-> IF p = 0 THEN InitialSize ELSE 2 * f[p - 1]]
    OBVIOUS
  <2>2. QED BY <1>3, <2>1 DEF DoubledUpTo
<1>4. CASE k # 0
  <2>1. k - 1 \in 0..last /\ k - 1 \notin C /\ k \in Nat
    BY <1>2, <1>4
  <2>2. PICK f : DoubledUpTo(k - 1, f)
    BY <2>1
  <2>3. \A n \in 0..k - 1 : f[n] = IF n = 0 THEN InitialSize ELSE 2 * f[n - 1]
    BY <2>2 DEF DoubledUpTo
  <2> DEFINE g == [n \in 0..k |-> IF n = k THEN 2 * f[k - 1] ELSE f[n]]
             h == [n \in 0..k |-> IF n = 0 THEN InitialSize ELSE 2 * g[n - 1]]
  <2>4. ASSUME NEW n \in 0..k PROVE g[n] = h[n]
    <3>1. CASE n = 0
      BY <1>4, <2>1, <2>3, <3>1
    <3>2. CASE n # 0
      <4>1. n - 1 \in 0..k - 1 /\ n - 1 # k /\ n - 1 \in 0..k
        BY <2>1, <3>2
      <4>2. g[n - 1] = f[n - 1]
        BY <4>1
      <4>3. g[n] = 2 * f[n - 1]
        <5>1. CASE n = k
          BY <5>1
        <5>2. CASE n # k
          <6>1. n \in 0..k - 1
            BY <2>1, <5>2
          <6>2. QED BY <2>3, <3>2, <5>2, <6>1
        <5>3. QED BY <5>1, <5>2
      <4>4. QED BY <3>2, <4>2, <4>3
    <3>3. QED BY <3>1, <3>2
  <2>5. g = h
    BY <2>4
  <2>6. DoubledUpTo(k, g)
    BY <2>5 DEF DoubledUpTo
  <2>7. QED BY <1>2, <2>6
<1>5. QED BY <1>3, <1>4

LEMMA NextPowerType ==
  ASSUME NEW n \in Nat
  PROVE  NextPower(n) \in Nat \ {0}
<1> DEFINE Def(f) == [p \in 0..n |-> IF p = 0 THEN InitialSize ELSE 2 * f[p - 1]]
           h == CHOOSE f : f = Def(f)
           reach == {p \in 0..n : h[p] >= n}
           found == CHOOSE p \in 0..n : h[p] >= n /\ \A q \in 0..p - 1 : h[q] < n
<1>1. PICK g : DoubledUpTo(n, g)
  <2>1. n \in 0..n
    OBVIOUS
  <2>2. QED BY <2>1, DoubledExists
<1>2. h = Def(h)
  BY <1>1 DEF DoubledUpTo
<1>3. NextPower(n) = h[found]
  BY DEF NextPower
<1> HIDE DEF h
<1>4. \A p \in 0..n : h[p] = IF p = 0 THEN InitialSize ELSE 2 * h[p - 1]
  BY <1>2
<1> DEFINE C == {p \in 0..n : ~(h[p] \in Nat /\ h[p] >= p + 1)}
<1>5. C = {}
  <2>1. SUFFICES ASSUME C # {} PROVE FALSE
    OBVIOUS
  <2>2. PICK p \in C : \A q \in C : p <= q
    <3>1. C \subseteq Nat
      OBVIOUS
    <3> HIDE DEF C
    <3>2. QED BY <2>1, <3>1, NatMin
  <2>3. CASE p = 0
    BY <1>4, <2>2, <2>3, SizeAssumption
  <2>4. CASE p # 0
    <3>1. p - 1 \in 0..n /\ p - 1 \notin C /\ p \in Nat
      BY <2>2, <2>4
    <3>2. h[p - 1] \in Nat /\ h[p - 1] >= p - 1 + 1
      BY <3>1
    <3>3. h[p] = 2 * h[p - 1]
      BY <1>4, <2>2, <2>4
    <3>4. QED BY <2>2, <2>4, <3>1, <3>2, <3>3
  <2>5. QED BY <2>3, <2>4
<1>6. \A p \in 0..n : h[p] \in Nat /\ h[p] >= p + 1
  BY <1>5
<1>7. PICK p \in reach : \A q \in reach : p <= q
  <2>1. n \in reach
    BY <1>6
  <2>2. reach \subseteq Nat
    OBVIOUS
  <2> HIDE DEF reach
  <2>3. QED BY <2>1, <2>2, NatMin
<1>8. p \in 0..n /\ h[p] >= n /\ \A q \in 0..p - 1 : h[q] < n
  <2>1. p \in 0..n /\ h[p] >= n
    BY <1>7
  <2>2. ASSUME NEW q \in 0..p - 1 PROVE h[q] < n
    <3>1. q \in 0..n /\ ~(p <= q)
      BY <2>1
    <3>2. q \notin reach
      BY <1>7, <3>1
    <3>3. h[q] \in Nat /\ ~(h[q] >= n)
      BY <1>6, <3>1, <3>2
    <3>4. QED BY <3>3
  <2>3. QED BY <2>1, <2>2
<1>9. found \in 0..n
  BY <1>8
<1> HIDE DEF found
<1>10. h[found] \in Nat /\ h[found] >= found + 1 /\ found \in Nat
  BY <1>6, <1>9
<1>11. QED BY <1>3, <1>10

-----------------------------------------------------------------------------
(* What a call leaves as it was for an iterator: the sizes, and where the     *)
(* keys that are not in changed are and in what order.                       *)
Keeps(dd, ee, changed) ==
  \A t \in {0, 1} :
    /\ dd.ht[t].size # 0 => ee.ht[t].size = dd.ht[t].size
    /\ \A x \in Keys \ changed : In(ee.ht[t], x) # NoVal <=> In(dd.ht[t], x) # NoVal
    /\ \A b \in 0..dd.ht[t].size - 1 : \A x, y \in Keys \ changed :
         Follows(ee.ht[t].table[b], x, y) <=> Follows(dd.ht[t].table[b], x, y)

(* The dict holds the same keys and values, and while somebody iterates they *)
(* are where they were.                                                      *)
Rearranged(dd, ee) ==
  /\ DictFits(ee) /\ ee.iterators = dd.iterators
  /\ \A k \in Keys : Value(ee, k) = Value(dd, k)
  /\ dd.iterators # 0 => Keeps(dd, ee, {})

LEMMA RearrangedAgain ==
  ASSUME NEW dd, NEW ee, NEW ff, Rearranged(dd, ee), Rearranged(ee, ff)
  PROVE  Rearranged(dd, ff)
<1>1. ASSUME dd.iterators # 0 PROVE Keeps(dd, ff, {})
  <2>1. Keeps(dd, ee, {}) /\ Keeps(ee, ff, {})
    BY <1>1 DEF Rearranged
  <2>2. SUFFICES ASSUME NEW t \in {0, 1}
        PROVE  /\ dd.ht[t].size # 0 => ff.ht[t].size = dd.ht[t].size
               /\ \A x \in Keys : In(ff.ht[t], x) # NoVal <=> In(dd.ht[t], x) # NoVal
               /\ \A b \in 0..dd.ht[t].size - 1 : \A x, y \in Keys :
                    Follows(ff.ht[t].table[b], x, y) <=> Follows(dd.ht[t].table[b], x, y)
    BY DEF Keeps
  <2>3. /\ dd.ht[t].size # 0 => ff.ht[t].size = dd.ht[t].size
        /\ \A x \in Keys : In(ff.ht[t], x) # NoVal <=> In(dd.ht[t], x) # NoVal
    BY <2>1 DEF Keeps
  <2>4. ASSUME NEW b \in 0..dd.ht[t].size - 1, NEW x \in Keys, NEW y \in Keys
        PROVE  Follows(ff.ht[t].table[b], x, y) <=> Follows(dd.ht[t].table[b], x, y)
    <3>1. dd.ht[t].size # 0
      OBVIOUS
    <3>2. ee.ht[t].size = dd.ht[t].size
      BY <2>1, <3>1 DEF Keeps
    <3>3. b \in 0..ee.ht[t].size - 1
      BY <3>2
    <3>4. Follows(ff.ht[t].table[b], x, y) <=> Follows(ee.ht[t].table[b], x, y)
      BY <2>1, <3>3 DEF Keeps
    <3>5. Follows(ee.ht[t].table[b], x, y) <=> Follows(dd.ht[t].table[b], x, y)
      BY <2>1 DEF Keeps
    <3>6. QED BY <3>4, <3>5
  <2>5. QED BY <2>3, <2>4
<1>2. QED BY <1>1 DEF Rearranged

LEMMA RearrangedSame ==
  ASSUME NEW dd, DictFits(dd)
  PROVE  Rearranged(dd, dd)
  BY DEF Rearranged, Keeps

-----------------------------------------------------------------------------
(* dictExpand puts an empty table where there was one of no size.            *)
LEMMA NewTablePut ==
  ASSUME NEW dd, DictFits(dd), NEW t \in {0, 1}, NEW n \in Nat \ {0}, NEW ee \in Dicts,
         dd.ht[t].size = 0, ee.ht[t] = NewTable(n), ee.ht[1 - t] = dd.ht[1 - t],
         ee.iterators = dd.iterators, IsRehashing(ee) <=> ee.ht[1].size > 0,
         IsRehashing(ee) => ee.ht[0].size > 0, ee.rehashidx \in -1..0
  PROVE  Rearranged(dd, ee)
<1>1. /\ TableFits(dd.ht[0]) /\ TableFits(dd.ht[1])
      /\ \A y \in Keys : In(dd.ht[0], y) = NoVal \/ In(dd.ht[1], y) = NoVal
  BY DEF DictFits
<1>2. TableFits(ee.ht[t]) /\ ee.ht[t].size = n /\ \A k \in Keys : In(ee.ht[t], k) = NoVal
  BY NewTableFits
<1>3. \A k \in Keys : In(dd.ht[t], k) = NoVal
  <2>1. ASSUME NEW k \in Keys PROVE In(dd.ht[t], k) = NoVal
    BY <1>1, InType
  <2>2. QED BY <2>1
<1>4. TableFits(ee.ht[0]) /\ TableFits(ee.ht[1])
  BY <1>1, <1>2
<1>5. \A u \in {0, 1} : \A k \in Keys : In(ee.ht[u], k) = In(dd.ht[u], k)
  BY <1>2, <1>3
<1>6. ee.rehashidx \in -1..ee.ht[0].size /\ ee.ht[0].size \in Nat
  <2>1. ee.ht[0].size \in Nat
    BY <1>4, TableType DEF TableFits
  <2>2. QED BY <2>1
<1>7. DictFits(ee)
  <2>1. \A b \in 0..ee.rehashidx - 1 : ee.ht[0].table[b] = << >>
    BY <1>6
  <2>2. \A y \in Keys : In(ee.ht[0], y) = NoVal \/ In(ee.ht[1], y) = NoVal
    BY <1>1, <1>5
  <2>3. QED BY <1>4, <1>6, <2>1, <2>2 DEF DictFits
<1>8. ASSUME NEW k \in Keys PROVE Value(ee, k) = Value(dd, k)
  BY <1>5, <1>7, ValueIs
<1>9. Keeps(dd, ee, {})
  <2>1. SUFFICES ASSUME NEW u \in {0, 1}
        PROVE  /\ dd.ht[u].size # 0 => ee.ht[u].size = dd.ht[u].size
               /\ \A b \in 0..dd.ht[u].size - 1 : \A x, y \in Keys :
                    Follows(ee.ht[u].table[b], x, y) <=> Follows(dd.ht[u].table[b], x, y)
    BY <1>5 DEF Keeps
  <2>2. CASE u = t
    BY <2>2
  <2>3. CASE u # t
    BY <2>3
  <2>4. QED BY <2>2, <2>3
<1>10. QED BY <1>7, <1>8, <1>9 DEF Rearranged

LEMMA ExpandFits ==
  ASSUME NEW dd, DictFits(dd), NEW n \in Nat
  PROVE  /\ Rearranged(dd, Expand(dd, n))
         /\ ~ExpandFails(dd, n) => \/ ~IsRehashing(Expand(dd, n)) /\ Expand(dd, n).ht[0].size # 0
                                   \/ IsRehashing(Expand(dd, n))
<1> DEFINE m == NextPower(n)
           ee == Expand(dd, n)
<1>1. m \in Nat \ {0} /\ NewTable(m) \in Tables /\ NewTable(m).size = m
  BY NextPowerType, NewTableFits DEF TableFits
<1>2. /\ dd \in Dicts /\ dd.ht[0].size \in Nat /\ dd.ht[1].size \in Nat
      /\ dd.rehashidx \in Int /\ (IsRehashing(dd) <=> dd.ht[1].size > 0)
  BY DictType, TableType DEF DictFits
<1> HIDE DEF m
<1>3. CASE ExpandFails(dd, n)
  BY <1>3, RearrangedSame DEF Expand
<1>4. CASE ~ExpandFails(dd, n) /\ dd.ht[0].size = 0
  <2>1. ee = PutTable(dd, 0, NewTable(m)) /\ ~IsRehashing(dd)
    BY <1>4 DEF Expand, PutTable, ExpandFails, m
  <2>2. /\ ee \in Dicts /\ ee.ht[0] = NewTable(m) /\ ee.ht[1 - 0] = dd.ht[1 - 0]
        /\ ee.rehashidx = dd.rehashidx /\ ee.iterators = dd.iterators
    BY <1>1, <1>2, <2>1, TablePut
  <2> HIDE DEF ee
  <2>3. ~IsRehashing(ee) /\ ee.ht[1] = dd.ht[1] /\ ee.rehashidx = -1 /\ ee.ht[1].size = 0
    BY <1>2, <2>1, <2>2 DEF IsRehashing
  <2>4. Rearranged(dd, ee)
    <3>1. (IsRehashing(ee) <=> ee.ht[1].size > 0) /\ ee.rehashidx \in -1..0
      BY <2>3
    <3>2. QED BY <1>1, <1>2, <1>4, <2>2, <2>3, <3>1, NewTablePut
  <2>5. QED BY <1>1, <2>2, <2>3, <2>4 DEF ee
<1>5. CASE ~ExpandFails(dd, n) /\ dd.ht[0].size # 0
  <2> DEFINE p == PutTable(dd, 1, NewTable(m))
  <2>1. ee = [dd EXCEPT !.ht[1] = NewTable(m), !.rehashidx = 0] /\ ~IsRehashing(dd)
    BY <1>5 DEF Expand, ExpandFails, m
  <2>2. /\ p \in Dicts /\ p.ht[1] = NewTable(m) /\ p.ht[1 - 1] = dd.ht[1 - 1]
        /\ p.rehashidx = dd.rehashidx /\ p.iterators = dd.iterators
    BY <1>1, <1>2, TablePut
  <2>3. ee = [p EXCEPT !.rehashidx = 0]
    BY <1>2, <2>1 DEF PutTable, Dicts
  <2> HIDE DEF ee, p
  <2>4. ee \in Dicts /\ ee.ht = p.ht /\ ee.rehashidx = 0 /\ ee.iterators = dd.iterators
    BY <2>2, <2>3 DEF Dicts
  <2>5. IsRehashing(ee) /\ ee.ht[1].size > 0 /\ ee.ht[0].size > 0 /\ dd.ht[1].size = 0
    <3>1. 1 - 1 = 0 /\ ee.ht[0] = dd.ht[0] /\ ee.ht[1] = NewTable(m)
      BY <2>2, <2>4
    <3>2. IsRehashing(ee)
      BY <2>4 DEF IsRehashing
    <3>3. ee.ht[1].size > 0 /\ ee.ht[0].size > 0
      BY <1>1, <1>2, <1>5, <3>1
    <3>4. QED BY <1>2, <2>1, <3>2, <3>3
  <2>6. Rearranged(dd, ee)
    <3>1. ee.rehashidx \in -1..0 /\ 1 \in {0, 1}
      BY <2>4
    <3>2. ee.ht[1] = NewTable(m) /\ ee.ht[1 - 1] = dd.ht[1 - 1]
      BY <2>2, <2>4
    <3>3. QED BY <1>1, <1>2, <2>4, <2>5, <3>1, <3>2, NewTablePut
  <2>7. QED BY <2>5, <2>6 DEF ee
<1>6. QED BY <1>3, <1>4, <1>5

LEMMA ExpandIfNeededFits ==
  ASSUME NEW dd, DictFits(dd)
  PROVE  /\ Rearranged(dd, ExpandIfNeeded(dd))
         /\ ~IsRehashing(ExpandIfNeeded(dd)) => ExpandIfNeeded(dd).ht[0].size # 0
<1> DEFINE size == dd.ht[0].size
           used == dd.ht[0].used
<1>1. size \in Nat /\ used \in Nat /\ TableFits(dd.ht[0])
  BY DictType, TableType DEF DictFits
<1>2. CASE IsRehashing(dd)
  BY <1>2, RearrangedSame DEF ExpandIfNeeded
<1>3. CASE ~IsRehashing(dd) /\ size = 0
  <2>1. ExpandIfNeeded(dd) = Expand(dd, InitialSize)
    BY <1>3 DEF ExpandIfNeeded
  <2>2. KeysIn(dd.ht[0]) = {}
    <3>1. \A k \in Keys : In(dd.ht[0], k) = NoVal
      BY <1>1, <1>3, InType
    <3>2. QED BY <3>1 DEF KeysIn
  <2>3. used = 0
    BY <1>1, <2>2, FS_EmptySet DEF TableFits
  <2>4. ~ExpandFails(dd, InitialSize) /\ InitialSize \in Nat
    BY <1>3, <2>3, SizeAssumption DEF ExpandFails
  <2>5. QED BY <2>1, <2>4, ExpandFits
<1>4. CASE ~IsRehashing(dd) /\ size # 0
  <2>1. Larger(size, used) * 2 \in Nat
    BY <1>1 DEF Larger
  <2>2. Rearranged(dd, Expand(dd, Larger(size, used) * 2))
    BY <2>1, ExpandFits
  <2>3. \/ ExpandIfNeeded(dd) = dd
        \/ ExpandIfNeeded(dd) = Expand(dd, Larger(size, used) * 2)
    BY <1>4 DEF ExpandIfNeeded
  <2>4. CASE ExpandIfNeeded(dd) = dd
    BY <1>4, <2>4, RearrangedSame
  <2>5. CASE ExpandIfNeeded(dd) = Expand(dd, Larger(size, used) * 2) /\ ExpandIfNeeded(dd) # dd
    <3>1. ~ExpandFails(dd, Larger(size, used) * 2)
      BY <2>5 DEF Expand
    <3>2. QED BY <2>1, <2>2, <2>5, <3>1, ExpandFits
  <2>6. QED BY <2>3, <2>4, <2>5
<1>5. QED BY <1>2, <1>3, <1>4

-----------------------------------------------------------------------------
(* dictRehash.                                                               *)
LEMMA UsedCounts ==
  ASSUME NEW t, TableFits(t)
  PROVE  t.used = 0 <=> \A k \in Keys : In(t, k) = NoVal
<1>1. IsFiniteSet(KeysIn(t)) /\ t.used = Cardinality(KeysIn(t))
  BY DEF TableFits
<1>2. t.used = 0 <=> KeysIn(t) = {}
  BY <1>1, FS_EmptySet
<1>3. QED BY <1>2 DEF KeysIn

LEMMA ChainLength ==
  ASSUME NEW chain \in Chains, OnceEach(chain)
  PROVE  LET ks == {x \in Keys : Chained(chain, x)}
         IN  IsFiniteSet(ks) /\ Cardinality(ks) = Len(chain)
<1> DEFINE ks == {x \in Keys : Chained(chain, x)}
           f == [n \in 1..Len(chain) |-> chain[n].key]
<1>1. /\ Len(chain) \in Nat /\ DOMAIN chain = 1..Len(chain)
      /\ \A n \in 1..Len(chain) : chain[n].key \in Keys
  BY ChainType
<1>2. \A n \in 1..Len(chain) : chain[n].key \in ks
  BY <1>1 DEF Chained
<1>3. \A x \in ks : \E n \in 1..Len(chain) : chain[n].key = x
  BY <1>1 DEF Chained
<1> HIDE DEF ks
<1>4. f \in [1..Len(chain) -> ks]
  BY <1>2
<1>5. \A x \in ks : \E n \in 1..Len(chain) : f[n] = x
  BY <1>3
<1>6. \A m, n \in 1..Len(chain) : f[m] = f[n] => m = n
  BY <1>1 DEF OnceEach
<1> HIDE DEF f
<1>7. f \in Bijection(1..Len(chain), ks)
  BY <1>4, <1>5, <1>6 DEF Bijection, Surjection, Injection, IsInjective
<1>8. ExistsBijection(1..Len(chain), ks)
  BY <1>7 DEF ExistsBijection
<1>9. IsFiniteSet(ks) /\ Cardinality(ks) = Len(chain)
  BY <1>1, <1>8, FS_NatBijection, FS_CountingElements
<1>10. QED BY <1>9 DEF ks

(* A bucket is emptied.                                                      *)
LEMMA EmptiedFits ==
  ASSUME NEW t, TableFits(t), NEW b \in 0..t.size - 1
  PROVE  LET r == Emptied(t, b)
         IN  /\ TableFits(r) /\ r.size = t.size /\ r.table[b] = << >>
             /\ \A a \in 0..t.size - 1 : a # b => r.table[a] = t.table[a]
             /\ \A x \in Keys : In(r, x) = IF Chained(t.table[b], x) THEN NoVal ELSE In(t, x)
<1> DEFINE old == t.table[b]
           f == [t.table EXCEPT ![b] = << >>]
           u == t.used - Len(old)
           r == [t EXCEPT !.table = f, !.used = u]
           ks == {x \in Keys : Chained(old, x)}
<1>1. /\ t \in Tables /\ t.size \in Nat /\ t.used \in Nat /\ t.size # 0
      /\ t.table \in [0..t.size - 1 -> Chains]
      /\ old \in Chains /\ OnceEach(old) /\ Len(old) \in Nat
  <2>1. t \in Tables /\ t.size \in Nat /\ t.used \in Nat /\ t.table \in [0..t.size - 1 -> Chains]
    BY TableType DEF TableFits
  <2>2. old \in Chains /\ OnceEach(old)
    BY DEF TableFits
  <2>3. Len(old) \in Nat
    BY <2>2, ChainType
  <2>4. t.size # 0
    OBVIOUS
  <2>5. QED BY <2>1, <2>2, <2>3, <2>4
<1>2. /\ f \in [0..t.size - 1 -> Chains] /\ f[b] = << >>
      /\ \A a \in 0..t.size - 1 : a # b => f[a] = t.table[a]
  <2>1. << >> \in Chains
    BY DEF Chains
  <2>2. QED BY <1>1, <2>1
<1>3. r = Emptied(t, b)
  BY DEF Emptied
<1>4. f \in Buckets
  BY <1>1, <1>2 DEF Buckets
<1> HIDE DEF f
<1>5. ASSUME NEW x \in Keys
      PROVE  /\ In(t, x) = Of(t.table[Bucket(t, x)], x) /\ Bucket(t, x) \in 0..t.size - 1
             /\ Chained(old, x) => Bucket(t, x) = b /\ In(t, x) # NoVal
             /\ Bucket(t, x) = b /\ In(t, x) # NoVal => Chained(old, x)
  <2>1. In(t, x) = Of(t.table[Bucket(t, x)], x) /\ Bucket(t, x) \in 0..t.size - 1
    BY <1>1, ChainIn DEF In
  <2>2. ASSUME Chained(old, x) PROVE Bucket(t, x) = b
    <3>1. PICK n \in DOMAIN old : old[n].key = x
      BY <2>2 DEF Chained
    <3>2. QED BY <3>1, EntryIn
  <2>3. Chained(old, x) <=> Of(old, x) # NoVal
    BY <1>1, OfType
  <2>4. QED BY <2>1, <2>2, <2>3
<1>6. IsFiniteSet(ks) /\ Cardinality(ks) = Len(old)
  BY <1>1, ChainLength
<1>7. /\ IsFiniteSet(KeysIn(t) \ ks) /\ u = Cardinality(KeysIn(t) \ ks) /\ u \in Nat
  <2>1. ks \subseteq KeysIn(t)
    BY <1>5 DEF KeysIn
  <2> HIDE DEF ks, old
  <2>2. IsFiniteSet(KeysIn(t)) /\ t.used = Cardinality(KeysIn(t))
    BY DEF TableFits
  <2>3. IsFiniteSet(KeysIn(t) \ ks)
    BY <2>2, FS_Subset
  <2>4. Cardinality((KeysIn(t) \ ks) \cup ks) =
          Cardinality(KeysIn(t) \ ks) + Cardinality(ks) - Cardinality((KeysIn(t) \ ks) \cap ks)
    BY <1>6, <2>3, FS_Union
  <2>5. (KeysIn(t) \ ks) \cup ks = KeysIn(t) /\ (KeysIn(t) \ ks) \cap ks = {}
    BY <2>1
  <2>6. Cardinality((KeysIn(t) \ ks) \cap ks) = 0
    BY <2>5, FS_EmptySet
  <2>7. Cardinality(KeysIn(t)) = Cardinality(KeysIn(t) \ ks) + Len(old)
    <3>1. Cardinality(KeysIn(t) \ ks) \in Nat
      BY <2>3, FS_CardinalityType
    <3>2. Cardinality((KeysIn(t) \ ks) \cup ks) = Cardinality(KeysIn(t))
      BY <2>5
    <3>3. QED BY <1>1, <1>6, <2>4, <2>6, <3>1, <3>2
  <2>8. Cardinality(KeysIn(t) \ ks) \in Nat
    BY <2>3, FS_CardinalityType
  <2>9. QED BY <1>1, <2>2, <2>3, <2>7, <2>8
<1> HIDE DEF u, r
<1>8. r \in Tables /\ r.size = t.size /\ r.table = f /\ r.used = u
  BY <1>1, <1>4, <1>7 DEF Tables, r
<1>9. \A x : Bucket(r, x) = Bucket(t, x)
  BY <1>8 DEF Bucket
<1>10. ASSUME NEW x \in Keys PROVE In(r, x) = IF Chained(old, x) THEN NoVal ELSE In(t, x)
  <2>1. In(r, x) = Of(f[Bucket(t, x)], x)
    BY <1>1, <1>8, <1>9 DEF Chain, In
  <2>2. CASE Bucket(t, x) = b
    <3>1. Of(<< >>, x) = NoVal
      BY DEF Of, Chained
    <3>2. QED BY <1>2, <1>5, <2>1, <2>2, <3>1
  <2>3. CASE Bucket(t, x) # b
    BY <1>2, <1>5, <2>1, <2>3
  <2>4. QED BY <2>2, <2>3
<1>11. KeysIn(r) = KeysIn(t) \ ks
  BY <1>10 DEF KeysIn
<1>12. ASSUME NEW a \in 0..t.size - 1
       PROVE  OnceEach(f[a]) /\ \A m \in DOMAIN f[a] : Bucket(t, f[a][m].key) = a
  <2>1. CASE a # b
    BY <1>2, <2>1 DEF TableFits
  <2>2. CASE a = b
    BY <1>2, <2>2 DEF OnceEach
  <2>3. QED BY <2>1, <2>2
<1>13. TableFits(r)
  <2> HIDE DEF ks
  <2>1. IsFiniteSet(KeysIn(r)) /\ r.used = Cardinality(KeysIn(r))
    BY <1>7, <1>8, <1>11
  <2>2. QED BY <1>2, <1>8, <1>9, <1>12, <2>1 DEF TableFits
<1>14. QED BY <1>2, <1>3, <1>8, <1>10, <1>13 DEF r

(* "rehashidx can't overflow as we are sure there are more elements".        *)
LEMMA NextBucketIn ==
  ASSUME NEW dd, DictFits(dd), IsRehashing(dd), dd.ht[0].used # 0
  PROVE  /\ dd.rehashidx \in 0..dd.ht[0].size
         /\ NextBucket(dd) \in dd.rehashidx..dd.ht[0].size - 1
         /\ dd.ht[0].table[NextBucket(dd)] # << >>
         /\ \A a \in 0..NextBucket(dd) - 1 : dd.ht[0].table[a] = << >>
<1> DEFINE left == {b \in dd.rehashidx..dd.ht[0].size - 1 : dd.ht[0].table[b] # << >>}
           b == NextBucket(dd)
<1>1. /\ TableFits(dd.ht[0]) /\ dd.ht[0].size \in Nat /\ dd.rehashidx \in 0..dd.ht[0].size
      /\ \A a \in 0..dd.rehashidx - 1 : dd.ht[0].table[a] = << >>
  BY DictType, TableType DEF DictFits, IsRehashing
<1>2. left # {}
  <2>1. PICK k \in Keys : In(dd.ht[0], k) # NoVal
    BY <1>1, UsedCounts
  <2>2. dd.ht[0].size # 0 /\ Holds(dd.ht[0], k)
    BY <1>1, <2>1, InType
  <2>3. Bucket(dd.ht[0], k) \in 0..dd.ht[0].size - 1
        /\ Chain(dd.ht[0], k) = dd.ht[0].table[Bucket(dd.ht[0], k)]
    BY <1>1, <2>2, ChainIn
  <2>4. dd.ht[0].table[Bucket(dd.ht[0], k)] # << >>
    BY <2>2, <2>3 DEF Holds, Chained
  <2>5. Bucket(dd.ht[0], k) \in dd.rehashidx..dd.ht[0].size - 1
    <3>1. Bucket(dd.ht[0], k) \notin 0..dd.rehashidx - 1
      BY <1>1, <2>4
    <3>2. QED BY <1>1, <2>3, <3>1
  <2>6. QED BY <2>4, <2>5
<1>3. PICK c \in left : \A a \in left : c <= a
  <2>1. left \subseteq Nat
    BY <1>1
  <2> HIDE DEF left
  <2>2. QED BY <1>2, <2>1, NatMin
<1>4. /\ c \in dd.rehashidx..dd.ht[0].size - 1 /\ dd.ht[0].table[c] # << >>
      /\ \A a \in dd.rehashidx..c - 1 : dd.ht[0].table[a] = << >>
  <2>1. c \in dd.rehashidx..dd.ht[0].size - 1 /\ dd.ht[0].table[c] # << >>
    BY <1>3
  <2>2. ASSUME NEW a \in dd.rehashidx..c - 1 PROVE dd.ht[0].table[a] = << >>
    <3>1. a \in dd.rehashidx..dd.ht[0].size - 1 /\ ~(c <= a)
      BY <1>1, <2>1
    <3>2. QED BY <1>3, <3>1
  <2>3. QED BY <2>1, <2>2
<1>5. /\ b \in dd.rehashidx..dd.ht[0].size - 1 /\ dd.ht[0].table[b] # << >>
      /\ \A a \in dd.rehashidx..b - 1 : dd.ht[0].table[a] = << >>
  BY <1>4 DEF NextBucket
<1> HIDE DEF b
<1>6. ASSUME NEW a \in 0..b - 1 PROVE dd.ht[0].table[a] = << >>
  <2>1. a \in 0..dd.rehashidx - 1 \/ a \in dd.rehashidx..b - 1
    BY <1>1, <1>5
  <2>2. QED BY <1>1, <1>5, <2>1
<1>7. QED BY <1>1, <1>5, <1>6 DEF b

LEMMA BucketMovedFits ==
  ASSUME NEW dd, DictFits(dd), IsRehashing(dd), dd.ht[0].used # 0
  PROVE  LET ee == BucketMoved(dd)
         IN  /\ DictFits(ee) /\ ee.iterators = dd.iterators
             /\ \A k \in Keys : Value(ee, k) = Value(dd, k)
<1> DEFINE b   == NextBucket(dd)
           old == dd.ht[0].table[b]
           t0  == Emptied(dd.ht[0], b)
           t1  == Filled(dd.ht[1], old)
           p   == PutTable(PutTable(dd, 0, t0), 1, t1)
           ee  == BucketMoved(dd)
<1>1. /\ dd \in Dicts /\ TableFits(dd.ht[0]) /\ TableFits(dd.ht[1])
      /\ dd.ht[0].size \in Nat /\ dd.ht[1].size \in Nat /\ dd.ht[1].size # 0 /\ dd.ht[0].size # 0
      /\ \A y \in Keys : In(dd.ht[0], y) = NoVal \/ In(dd.ht[1], y) = NoVal
  BY DictType, TableType DEF DictFits
<1>2. /\ dd.rehashidx \in 0..dd.ht[0].size /\ b \in dd.rehashidx..dd.ht[0].size - 1
      /\ b \in 0..dd.ht[0].size - 1
      /\ \A a \in 0..b - 1 : dd.ht[0].table[a] = << >>
  BY <1>1, NextBucketIn
<1> HIDE DEF b
<1>3. old \in Chains /\ OnceEach(old)
  BY <1>1, <1>2 DEF TableFits
<1>4. \A x \in Keys : Chained(old, x) => In(dd.ht[0], x) = Of(old, x) /\ In(dd.ht[0], x) # NoVal
  <2>1. ASSUME NEW x \in Keys, Chained(old, x)
        PROVE  In(dd.ht[0], x) = Of(old, x) /\ In(dd.ht[0], x) # NoVal
    <3>1. PICK n \in DOMAIN old : old[n].key = x
      BY <2>1 DEF Chained
    <3>2. In(dd.ht[0], x) = old[n].val /\ old[n].val \in Vals
      BY <1>1, <1>2, <3>1, EntryIn
    <3>3. Of(old, x) = old[n].val
      BY <1>3, <3>1, OnlyPosition
    <3>4. QED BY <3>2, <3>3, NothingAssumption
  <2>2. QED BY <2>1
<1>5. /\ TableFits(t0) /\ t0.size = dd.ht[0].size /\ t0.table[b] = << >>
      /\ \A a \in 0..dd.ht[0].size - 1 : a # b => t0.table[a] = dd.ht[0].table[a]
      /\ \A x \in Keys : In(t0, x) = IF Chained(old, x) THEN NoVal ELSE In(dd.ht[0], x)
  BY <1>1, <1>2, EmptiedFits
<1>6. /\ TableFits(t1) /\ t1.size = dd.ht[1].size
      /\ \A x \in Keys : In(t1, x) = IF Chained(old, x) THEN Of(old, x) ELSE In(dd.ht[1], x)
  <2>1. \A n \in DOMAIN old : In(dd.ht[1], old[n].key) = NoVal
    <3>1. ASSUME NEW n \in DOMAIN old PROVE In(dd.ht[1], old[n].key) = NoVal
      <4>1. old[n].key \in Keys /\ Chained(old, old[n].key)
        BY <1>3, ChainType DEF Chained
      <4>2. QED BY <1>1, <1>4, <4>1
    <3>2. QED BY <3>1
  <2>2. QED BY <1>1, <1>3, <2>1, FilledFits
<1>8. t0 \in Tables /\ t1 \in Tables
  BY <1>5, <1>6 DEF TableFits
<1> HIDE DEF t0, t1, ee
<1>7. ee = [p EXCEPT !.rehashidx = b + 1]
  BY <1>1 DEF BucketMoved, PutTable, Dicts, b, t0, t1, ee
<1>9. /\ p \in Dicts /\ p.ht[0] = t0 /\ p.ht[1] = t1 /\ p.iterators = dd.iterators
  <2> DEFINE q == PutTable(dd, 0, t0)
  <2>1. q \in Dicts /\ q.ht[0] = t0 /\ q.iterators = dd.iterators
    BY <1>1, <1>8, TablePut
  <2> HIDE DEF q
  <2>2. LET r == PutTable(q, 1, t1)
        IN  r \in Dicts /\ r.ht[1] = t1 /\ r.ht[1 - 1] = q.ht[1 - 1] /\ r.iterators = q.iterators
    BY <1>8, <2>1, TablePut
  <2>3. 1 - 1 = 0
    OBVIOUS
  <2>4. QED BY <2>1, <2>2, <2>3 DEF q
<1> HIDE DEF p
<1>10. /\ ee \in Dicts /\ ee.ht[0] = t0 /\ ee.ht[1] = t1 /\ ee.iterators = dd.iterators
       /\ ee.rehashidx = b + 1
  <2>1. b + 1 \in Int
    BY <1>2
  <2>2. QED BY <1>7, <1>9, <2>1 DEF Dicts
<1>11. ee.rehashidx \in -1..ee.ht[0].size /\ IsRehashing(ee)
  BY <1>1, <1>2, <1>5, <1>10 DEF IsRehashing
<1>12. ASSUME NEW x \in Keys
       PROVE  /\ In(ee.ht[0], x) = NoVal \/ In(ee.ht[1], x) = NoVal
              /\ (IF In(ee.ht[0], x) # NoVal THEN In(ee.ht[0], x) ELSE In(ee.ht[1], x))
                   = Value(dd, x)
  <2>1. Value(dd, x) = IF In(dd.ht[0], x) # NoVal THEN In(dd.ht[0], x) ELSE In(dd.ht[1], x)
    BY ValueIs
  <2>2. QED BY <1>1, <1>4, <1>5, <1>6, <1>10, <2>1
<1>13. ASSUME NEW a \in 0..ee.rehashidx - 1 PROVE ee.ht[0].table[a] = << >>
  <2>1. a \in 0..b /\ a \in 0..dd.ht[0].size - 1
    BY <1>1, <1>2, <1>10
  <2>2. CASE a = b
    BY <1>5, <1>10, <2>2
  <2>3. CASE a # b
    <3>1. a \in 0..b - 1
      BY <1>2, <2>1, <2>3
    <3>2. QED BY <1>2, <1>5, <1>10, <2>1, <2>3, <3>1
  <2>4. QED BY <2>2, <2>3
<1>14. DictFits(ee)
  <2>1. ee.ht[1].size > 0 /\ ee.ht[0].size > 0
    BY <1>1, <1>5, <1>6, <1>10
  <2>2. QED BY <1>5, <1>6, <1>10, <1>11, <1>12, <1>13, <2>1 DEF DictFits
<1>15. \A x \in Keys : Value(ee, x) = Value(dd, x)
  BY <1>12, <1>14, ValueIs
<1>16. QED BY <1>10, <1>14, <1>15 DEF ee

LEMMA SwappedFits ==
  ASSUME NEW dd, DictFits(dd), IsRehashing(dd), dd.ht[0].used = 0
  PROVE  LET ee == Swapped(dd)
         IN  /\ DictFits(ee) /\ ee.iterators = dd.iterators
             /\ \A k \in Keys : Value(ee, k) = Value(dd, k)
<1> DEFINE p  == PutTable(PutTable(dd, 0, dd.ht[1]), 1, NoTable)
           ee == Swapped(dd)
<1>1. /\ dd \in Dicts /\ TableFits(dd.ht[0]) /\ TableFits(dd.ht[1])
      /\ dd.ht[1] \in Tables /\ dd.ht[1].size \in Nat
      /\ \A k \in Keys : In(dd.ht[0], k) = NoVal
  BY DictType, TableType, UsedCounts DEF DictFits
<1>2. /\ TableFits(NoTable) /\ NoTable \in Tables /\ NoTable.size = 0
      /\ \A k \in Keys : In(NoTable, k) = NoVal
  BY NoTableFits, NewTableFits DEF TableFits
<1>3. ee = [p EXCEPT !.rehashidx = -1]
  BY <1>1 DEF Swapped, PutTable, Dicts
<1> HIDE DEF ee
<1>4. /\ p \in Dicts /\ p.ht[0] = dd.ht[1] /\ p.ht[1] = NoTable /\ p.iterators = dd.iterators
  <2> DEFINE q == PutTable(dd, 0, dd.ht[1])
  <2>1. q \in Dicts /\ q.ht[0] = dd.ht[1] /\ q.iterators = dd.iterators
    BY <1>1, TablePut
  <2> HIDE DEF q
  <2>2. LET r == PutTable(q, 1, NoTable)
        IN  r \in Dicts /\ r.ht[1] = NoTable /\ r.ht[1 - 1] = q.ht[1 - 1] /\ r.iterators = q.iterators
    BY <1>2, <2>1, TablePut
  <2>3. 1 - 1 = 0
    OBVIOUS
  <2>4. QED BY <2>1, <2>2, <2>3 DEF q
<1> HIDE DEF p
<1>5. /\ ee \in Dicts /\ ee.ht[0] = dd.ht[1] /\ ee.ht[1] = NoTable /\ ee.iterators = dd.iterators
      /\ ee.rehashidx = -1
  BY <1>3, <1>4 DEF Dicts
<1>6. ~IsRehashing(ee) /\ ee.rehashidx \in -1..ee.ht[0].size /\ ~(ee.ht[1].size > 0)
      /\ 0..ee.rehashidx - 1 = {}
  BY <1>1, <1>2, <1>5 DEF IsRehashing
<1>7. DictFits(ee)
  BY <1>1, <1>2, <1>5, <1>6 DEF DictFits
<1>8. ASSUME NEW x \in Keys PROVE Value(ee, x) = Value(dd, x)
  BY <1>1, <1>2, <1>5, <1>7, ValueIs
<1>9. QED BY <1>5, <1>7, <1>8 DEF ee

(* RehashRounds is the function its recursion describes.                     *)
RoundsUpTo(dd, k, f) ==
  f = [m \in 0..k |-> IF m = 0 THEN dd
                      ELSE IF IsRehashing(f[m - 1]) THEN RehashRound(f[m - 1]) ELSE f[m - 1]]

LEMMA RoundsExist ==
  ASSUME NEW dd, NEW last \in Nat
  PROVE  \A k \in 0..last : \E f : RoundsUpTo(dd, k, f)
<1> DEFINE After(e) == IF IsRehashing(e) THEN RehashRound(e) ELSE e
           C == {k \in 0..last : ~ \E f : RoundsUpTo(dd, k, f)}
<1>0. \A k, f : RoundsUpTo(dd, k, f) <=> f = [m \in 0..k |-> IF m = 0 THEN dd ELSE After(f[m - 1])]
  BY DEF RoundsUpTo
<1> HIDE DEF After
<1>1. SUFFICES ASSUME C # {} PROVE FALSE
  OBVIOUS
<1>2. PICK k \in C : \A n \in C : k <= n
  <2>1. C \subseteq Nat
    OBVIOUS
  <2> HIDE DEF C
  <2>2. QED BY <1>1, <2>1, NatMin
<1>3. CASE k = 0
  <2> DEFINE f == [n \in 0..0 |-> dd]
  <2>1. f = [n \in 0..0 |-> IF n = 0 THEN dd ELSE After(f[n - 1])]
    OBVIOUS
  <2> HIDE DEF f
  <2>2. RoundsUpTo(dd, 0, f)
    BY <1>0, <2>1
  <2>3. QED BY <1>2, <1>3, <2>2
<1>4. CASE k # 0
  <2>1. k - 1 \in 0..last /\ k - 1 \notin C /\ k \in Nat
    BY <1>2, <1>4
  <2>2. PICK f : RoundsUpTo(dd, k - 1, f)
    BY <2>1
  <2>3. \A n \in 0..k - 1 : f[n] = IF n = 0 THEN dd ELSE After(f[n - 1])
    <3>1. f = [m \in 0..k - 1 |-> IF m = 0 THEN dd ELSE After(f[m - 1])]
      BY <1>0, <2>2
    <3>2. QED BY <3>1
  <2> DEFINE g == [n \in 0..k |-> IF n = k THEN After(f[k - 1]) ELSE f[n]]
             h == [n \in 0..k |-> IF n = 0 THEN dd ELSE After(g[n - 1])]
  <2>4. ASSUME NEW n \in 0..k PROVE g[n] = h[n]
    <3>1. CASE n = 0
      BY <1>4, <2>1, <2>3, <3>1
    <3>2. CASE n # 0
      <4>1. n - 1 \in 0..k - 1 /\ n - 1 # k /\ n - 1 \in 0..k
        BY <2>1, <3>2
      <4>2. g[n - 1] = f[n - 1]
        BY <4>1
      <4>3. g[n] = After(f[n - 1])
        <5>1. CASE n = k
          BY <5>1
        <5>2. CASE n # k
          <6>1. n \in 0..k - 1
            BY <2>1, <5>2
          <6>2. QED BY <2>3, <3>2, <5>2, <6>1
        <5>3. QED BY <5>1, <5>2
      <4>4. QED BY <3>2, <4>2, <4>3
    <3>3. QED BY <3>1, <3>2
  <2>5. g = h
    BY <2>4
  <2> HIDE DEF g
  <2>6. RoundsUpTo(dd, k, g)
    BY <1>0, <2>5
  <2>7. QED BY <1>2, <2>6
<1>5. QED BY <1>3, <1>4

LEMMA RoundsAre ==
  ASSUME NEW dd, NEW n \in Nat
  PROVE  \E f : /\ RehashRounds(dd, n) = f[n] /\ f[0] = dd
                /\ \A m \in 1..n : \/ f[m] = f[m - 1]
                                   \/ IsRehashing(f[m - 1]) /\ f[m] = RehashRound(f[m - 1])
<1> DEFINE Def(f) == [m \in 0..n |-> IF m = 0 THEN dd
                        ELSE IF IsRehashing(f[m - 1]) THEN RehashRound(f[m - 1]) ELSE f[m - 1]]
           h == CHOOSE f : f = Def(f)
<1>1. PICK g : RoundsUpTo(dd, n, g)
  <2>1. n \in 0..n
    OBVIOUS
  <2>2. QED BY <2>1, RoundsExist
<1>2. h = Def(h)
  BY <1>1 DEF RoundsUpTo
<1>3. RehashRounds(dd, n) = h[n]
  BY DEF RehashRounds
<1> HIDE DEF h
<1>4. \A m \in 0..n : h[m] = Def(h)[m]
  BY <1>2
<1>5. h[0] = dd
  BY <1>4
<1>6. ASSUME NEW m \in 1..n
      PROVE  \/ h[m] = h[m - 1]
             \/ IsRehashing(h[m - 1]) /\ h[m] = RehashRound(h[m - 1])
  <2>1. m \in 0..n /\ m # 0
    OBVIOUS
  <2>2. QED BY <1>4, <2>1
<1>7. QED BY <1>3, <1>5, <1>6

LEMMA RoundsFit ==
  ASSUME NEW dd, DictFits(dd), NEW n \in Nat
  PROVE  LET ee == RehashRounds(dd, n)
         IN  /\ DictFits(ee) /\ ee.iterators = dd.iterators
             /\ \A k \in Keys : Value(ee, k) = Value(dd, k)
<1> DEFINE Fine(ee) == /\ DictFits(ee) /\ ee.iterators = dd.iterators
                       /\ \A k \in Keys : Value(ee, k) = Value(dd, k)
<1>1. PICK f : /\ RehashRounds(dd, n) = f[n] /\ f[0] = dd
               /\ \A m \in 1..n : \/ f[m] = f[m - 1]
                                  \/ IsRehashing(f[m - 1]) /\ f[m] = RehashRound(f[m - 1])
  BY RoundsAre
<1>2. ASSUME NEW ee, Fine(ee), IsRehashing(ee) PROVE Fine(RehashRound(ee))
  <2>1. CASE ee.ht[0].used = 0
    BY <1>2, <2>1, SwappedFits DEF RehashRound
  <2>2. CASE ee.ht[0].used # 0
    BY <1>2, <2>2, BucketMovedFits DEF RehashRound
  <2>3. QED BY <2>1, <2>2
<1>3. Fine(dd)
  OBVIOUS
<1> HIDE DEF Fine
<1> DEFINE C == {m \in 0..n : ~Fine(f[m])}
<1>4. C = {}
  <2>1. SUFFICES ASSUME C # {} PROVE FALSE
    OBVIOUS
  <2>2. PICK m \in C : \A j \in C : m <= j
    <3>1. C \subseteq Nat
      OBVIOUS
    <3> HIDE DEF C
    <3>2. QED BY <2>1, <3>1, NatMin
  <2>3. CASE m = 0
    BY <1>1, <1>3, <2>2, <2>3
  <2>4. CASE m # 0
    <3>1. m \in 1..n /\ m - 1 \in 0..n /\ m - 1 \notin C
      BY <2>2, <2>4
    <3>2. Fine(f[m - 1])
      BY <3>1
    <3>3. Fine(f[m])
      BY <1>1, <1>2, <3>1, <3>2
    <3>4. QED BY <2>2, <3>3
  <2>5. QED BY <2>3, <2>4
<1>5. Fine(f[n])
  BY <1>4
<1>6. QED BY <1>1, <1>5 DEF Fine

LEMMA RehashStepFits ==
  ASSUME NEW dd, DictFits(dd)
  PROVE  Rearranged(dd, RehashStep(dd))
<1>1. CASE IsRehashing(dd) /\ dd.iterators = 0
  <2>1. RehashStep(dd) = RehashRounds(dd, 1)
    BY <1>1 DEF RehashStep
  <2>2. QED BY <1>1, <2>1, RoundsFit DEF Rearranged
<1>2. CASE ~(IsRehashing(dd) /\ dd.iterators = 0)
  BY <1>2, RearrangedSame DEF RehashStep
<1>3. QED BY <1>1, <1>2

-----------------------------------------------------------------------------
(* dictAdd, dictReplace and dictDelete change the value of one key.          *)
Sets(dd, ee, k, v) ==
  /\ DictFits(ee) /\ ee.iterators = dd.iterators
  /\ \A y \in Keys : Value(ee, y) = IF y = k THEN v ELSE Value(dd, y)
  /\ Keeps(dd, ee, {k})

LEMMA PutSets ==
  ASSUME NEW dd, DictFits(dd), NEW t \in {0, 1}, NEW k \in Keys, NEW v \in Vals \cup {NoVal},
         NEW x, Changes(dd.ht[t], x, k, v), dd.ht[t].size # 0,
         In(dd.ht[1 - t], k) = NoVal,
         t = 0 => ~IsRehashing(dd) \/ In(dd.ht[0], k) # NoVal
  PROVE  /\ Sets(dd, PutTable(dd, t, x), k, v)
         /\ PutTable(dd, t, x).ht[t] = x /\ PutTable(dd, t, x).ht[1 - t] = dd.ht[1 - t]
<1> DEFINE r == PutTable(dd, t, x)
<1>1. /\ dd \in Dicts /\ x \in Tables
  BY DEF DictFits, Changes, TableFits
<1>2. /\ r.ht[t] = x /\ r.ht[1 - t] = dd.ht[1 - t] /\ r.iterators = dd.iterators
  BY <1>1, TablePut
<1>3. DictFits(r) /\ \A y \in Keys : Value(r, y) = IF y = k THEN v ELSE Value(dd, y)
  BY PutFits
<1> HIDE DEF r
<1>4. Keeps(dd, r, {k})
  <2>1. SUFFICES ASSUME NEW u \in {0, 1}
        PROVE  /\ dd.ht[u].size # 0 => r.ht[u].size = dd.ht[u].size
               /\ \A y \in Keys \ {k} : In(r.ht[u], y) # NoVal <=> In(dd.ht[u], y) # NoVal
               /\ \A b \in 0..dd.ht[u].size - 1 : \A y, z \in Keys \ {k} :
                    Follows(r.ht[u].table[b], y, z) <=> Follows(dd.ht[u].table[b], y, z)
    BY DEF Keeps
  <2>2. CASE u = t
    BY <1>2, <2>2 DEF Changes
  <2>3. CASE u # t
    <3>1. r.ht[u] = dd.ht[u]
      BY <1>2, <2>3
    <3>2. QED BY <3>1
  <2>4. QED BY <2>2, <2>3
<1>5. Sets(dd, r, k, v)
  BY <1>2, <1>3, <1>4 DEF Sets
<1>6. QED BY <1>2, <1>5 DEF r

LEMMA AddedSets ==
  ASSUME NEW dd, DictFits(dd), NEW k \in Keys, NEW v \in Vals, Value(dd, k) = NoVal,
         ~IsRehashing(dd) => dd.ht[0].size # 0
  PROVE  Sets(dd, Added(dd, k, v), k, v)
<1> DEFINE t == IF IsRehashing(dd) THEN 1 ELSE 0
           e == [key |-> k, val |-> v]
<1>1. t \in {0, 1} /\ (t = 0 => ~IsRehashing(dd))
  OBVIOUS
<1>2. Added(dd, k, v) = PutTable(dd, t, Pushed(dd.ht[t], e))
  <2>1. dd \in Dicts /\ dd.ht \in [{0, 1} -> Tables]
    BY DictType DEF DictFits
  <2>2. QED BY <2>1 DEF Added, PutTable, Dicts
<1>3. dd.ht[t].size # 0
  <2>1. IsRehashing(dd) => dd.ht[1].size > 0 /\ dd.ht[1].size \in Nat
    BY DictType, TableType DEF DictFits
  <2>2. QED BY <2>1
<1>4. e \in Entries /\ e.key = k /\ e.val = v
  BY DEF Entries
<1> HIDE DEF t, e
<1>5. In(dd.ht[0], k) = NoVal /\ In(dd.ht[1], k) = NoVal
  BY ValueIs
<1>6. TableFits(dd.ht[t]) /\ In(dd.ht[t], k) = NoVal /\ In(dd.ht[1 - t], k) = NoVal
  <2>1. CASE t = 0
    BY <1>5, <2>1 DEF DictFits
  <2>2. CASE t = 1
    BY <1>5, <2>2 DEF DictFits
  <2>3. QED BY <1>1, <2>1, <2>2
<1>7. Changes(dd.ht[t], Pushed(dd.ht[t], e), k, v)
  BY <1>3, <1>4, <1>6, PushedChanges
<1>8. QED BY <1>1, <1>2, <1>3, <1>6, <1>7, PutSets

(* Where the entry of a key is.                                              *)
LEMMA HolderIs ==
  ASSUME NEW dd, DictFits(dd), NEW k \in Keys, Value(dd, k) # NoVal
  PROVE  LET t == Holder(dd, k)
         IN  /\ t \in {0, 1} /\ dd.ht[t].size # 0 /\ TableFits(dd.ht[t])
             /\ In(dd.ht[t], k) = Value(dd, k) /\ In(dd.ht[1 - t], k) = NoVal
             /\ Chain(dd.ht[t], k) \in Chains /\ OnceEach(Chain(dd.ht[t], k))
             /\ Chained(Chain(dd.ht[t], k), k)
<1> DEFINE t == Holder(dd, k)
<1>1. t \in {0, 1} /\ dd.ht[t].size # 0 /\ In(dd.ht[t], k) = Value(dd, k)
  BY ValueIs
<1> HIDE DEF t
<1>2. TableFits(dd.ht[t])
  BY <1>1 DEF DictFits
<1>3. In(dd.ht[1 - t], k) = NoVal
  <2>1. In(dd.ht[0], k) = NoVal \/ In(dd.ht[1], k) = NoVal
    BY DEF DictFits
  <2>2. CASE t = 0
    BY <1>1, <2>1, <2>2
  <2>3. CASE t = 1
    BY <1>1, <2>1, <2>3
  <2>4. QED BY <1>1, <2>2, <2>3
<1>4. Chain(dd.ht[t], k) \in Chains /\ OnceEach(Chain(dd.ht[t], k))
  BY <1>2, ChainIn
<1>5. Chained(Chain(dd.ht[t], k), k)
  BY <1>1, <1>4, OfType DEF In
<1>6. QED BY <1>1, <1>2, <1>3, <1>4, <1>5 DEF t

LEMMA AssignedSets ==
  ASSUME NEW dd, DictFits(dd), NEW k \in Keys, NEW v \in Vals, Value(dd, k) # NoVal
  PROVE  Sets(dd, Assigned(dd, k, v), k, v) /\ Keeps(dd, Assigned(dd, k, v), {})
<1> DEFINE t == Holder(dd, k)
           c == Chain(dd.ht[t], k)
           c2 == [c EXCEPT ![Position(c, k)].val = v]
           x == Rechain(dd.ht[t], k, c2, 0)
           r == Assigned(dd, k, v)
<1>1. /\ t \in {0, 1} /\ dd.ht[t].size # 0 /\ TableFits(dd.ht[t])
      /\ In(dd.ht[t], k) = Value(dd, k) /\ In(dd.ht[1 - t], k) = NoVal
      /\ c \in Chains /\ OnceEach(c) /\ Chained(c, k)
  BY HolderIs
<1>2. r = PutTable(dd, t, x)
  <2>1. dd \in Dicts /\ dd.ht \in [{0, 1} -> Tables]
    BY DictType DEF DictFits
  <2> HIDE DEF t
  <2>2. r = [dd EXCEPT !.ht[t] = Rechain(@, k, c2, 0)]
    BY DEF Assigned, t
  <2> HIDE DEF c2
  <2>3. QED BY <1>1, <2>1, <2>2 DEF PutTable, Dicts
<1> HIDE DEF t, c, r
<1>3. Becomes(c, c2, k, v) /\ SameKeys(c, c2)
  BY <1>1, Reassigned
<1> HIDE DEF c2
<1>4. Gains(dd.ht[t], k, v) = 0
  BY <1>1, NothingAssumption DEF Gains
<1>5. /\ Changes(dd.ht[t], x, k, v)
      /\ x.table[Bucket(dd.ht[t], k)] = c2
      /\ \A b \in 0..dd.ht[t].size - 1 : b # Bucket(dd.ht[t], k) => x.table[b] = dd.ht[t].table[b]
  BY <1>1, <1>3, <1>4, RechainChanges, RechainFits DEF c
<1> HIDE DEF x
<1>6. Sets(dd, r, k, v) /\ r.ht[t] = x /\ r.ht[1 - t] = dd.ht[1 - t]
  BY <1>1, <1>2, <1>5, PutSets
<1>7. c = dd.ht[t].table[Bucket(dd.ht[t], k)]
  BY <1>1, ChainIn DEF c
<1>8. ASSUME NEW u \in {0, 1}
      PROVE  /\ dd.ht[u].size # 0 => r.ht[u].size = dd.ht[u].size
             /\ \A y \in Keys : In(r.ht[u], y) # NoVal <=> In(dd.ht[u], y) # NoVal
             /\ \A b \in 0..dd.ht[u].size - 1 : \A y, z \in Keys :
                  Follows(r.ht[u].table[b], y, z) <=> Follows(dd.ht[u].table[b], y, z)
  <2>1. CASE u = t
    <3>1. r.ht[u].size = dd.ht[u].size
      BY <1>5, <1>6, <2>1 DEF Changes
    <3>2. ASSUME NEW y \in Keys PROVE In(r.ht[u], y) # NoVal <=> In(dd.ht[u], y) # NoVal
      BY <1>1, <1>5, <1>6, <2>1, NothingAssumption DEF Changes
    <3>3. ASSUME NEW b \in 0..dd.ht[u].size - 1, NEW y \in Keys, NEW z \in Keys
          PROVE  Follows(r.ht[u].table[b], y, z) <=> Follows(dd.ht[u].table[b], y, z)
      <4>1. CASE b = Bucket(dd.ht[t], k)
        <5>1. Follows(c2, y, z) <=> Follows(c, y, z)
          BY <1>3, SameFollows
        <5>2. QED BY <1>5, <1>6, <1>7, <2>1, <4>1, <5>1
      <4>2. CASE b # Bucket(dd.ht[t], k)
        BY <1>5, <1>6, <2>1, <4>2
      <4>3. QED BY <4>1, <4>2
    <3>4. QED BY <3>1, <3>2, <3>3
  <2>2. CASE u # t
    <3>1. r.ht[u] = dd.ht[u]
      BY <1>1, <1>6, <2>2
    <3>2. QED BY <3>1
  <2>3. QED BY <2>1, <2>2
<1>9. Keeps(dd, r, {})
  BY <1>8 DEF Keeps
<1>10. QED BY <1>6, <1>9 DEF r

LEMMA UnlinkedSets ==
  ASSUME NEW dd, DictFits(dd), NEW k \in Keys, Value(dd, k) # NoVal
  PROVE  Sets(dd, Unlinked(dd, k), k, NoVal)
<1> DEFINE t == Holder(dd, k)
           c == Chain(dd.ht[t], k)
           c2 == RemoveAt(c, Position(c, k))
           x == Rechain(dd.ht[t], k, c2, -1)
           r == Unlinked(dd, k)
<1>1. /\ t \in {0, 1} /\ dd.ht[t].size # 0 /\ TableFits(dd.ht[t])
      /\ In(dd.ht[t], k) = Value(dd, k) /\ In(dd.ht[1 - t], k) = NoVal
      /\ c \in Chains /\ OnceEach(c) /\ Chained(c, k)
  BY HolderIs
<1>2. r = PutTable(dd, t, x)
  <2>1. dd \in Dicts /\ dd.ht \in [{0, 1} -> Tables]
    BY DictType DEF DictFits
  <2> HIDE DEF t
  <2>2. r = [dd EXCEPT !.ht[t] = Rechain(@, k, c2, -1)]
    BY DEF Unlinked, t
  <2> HIDE DEF c2
  <2>3. QED BY <1>1, <2>1, <2>2 DEF PutTable, Dicts
<1> HIDE DEF t, c, r
<1>3. Becomes(c, c2, k, NoVal)
  BY <1>1, Removed
<1> HIDE DEF c2
<1>4. Gains(dd.ht[t], k, NoVal) = -1
  BY <1>1 DEF Gains
<1>5. Changes(dd.ht[t], x, k, NoVal)
  BY <1>1, <1>3, <1>4, RechainChanges DEF c
<1> HIDE DEF x
<1>6. QED
  <2>1. Sets(dd, PutTable(dd, t, x), k, NoVal)
    <3>1. In(dd.ht[1 - t], k) = NoVal /\ (t = 0 => In(dd.ht[0], k) # NoVal)
      BY <1>1
    <3>2. NoVal \in Vals \cup {NoVal}
      OBVIOUS
    <3>3. QED BY <1>1, <1>5, <3>1, <3>2, PutSets
  <2>2. QED BY <1>2, <2>1 DEF r

-----------------------------------------------------------------------------
(* Iterators.                                                                *)
LEMMA IterType ==
  ASSUME NEW it \in Iterators
  PROVE  /\ it.live \in BOOLEAN /\ it.table \in {0, 1} /\ it.index \in Int
         /\ it.entry \in Keys \cup {NoKey} /\ it.next \in Keys \cup {NoKey}
  BY DEF Iterators

LEMMA Present ==
  ASSUME NEW dd, DictFits(dd), NEW k \in Keys
  PROVE  Value(dd, k) # NoVal <=> In(dd.ht[0], k) # NoVal \/ In(dd.ht[1], k) # NoVal
  BY ValueIs

(* The entries of a bucket are in the dict.                                  *)
LEMMA BucketPresent ==
  ASSUME NEW dd, DictFits(dd), NEW t \in {0, 1}, NEW b \in 0..dd.ht[t].size - 1,
         NEW k, Chained(dd.ht[t].table[b], k)
  PROVE  /\ k \in Keys /\ In(dd.ht[t], k) # NoVal /\ Value(dd, k) # NoVal
         /\ Bucket(dd.ht[t], k) = b /\ Chain(dd.ht[t], k) = dd.ht[t].table[b]
<1>1. PICK n \in DOMAIN dd.ht[t].table[b] : dd.ht[t].table[b][n].key = k
  BY DEF Chained
<1>2. TableFits(dd.ht[t])
  BY DEF DictFits
<1>3. /\ k \in Keys /\ In(dd.ht[t], k) # NoVal
      /\ Bucket(dd.ht[t], k) = b /\ Chain(dd.ht[t], k) = dd.ht[t].table[b]
  BY <1>1, <1>2, EntryIn, NothingAssumption
<1>4. QED BY <1>3, Present

LEMMA ToComePresent ==
  ASSUME NEW dd, DictFits(dd), NEW it \in Iterators, NEW k \in Keys, ToCome(dd, it, k),
         it.index \in 0..dd.ht[it.table].size - 1
  PROVE  Value(dd, k) # NoVal
<1>1. CASE Saved(dd, it, k)
  <2>1. Chained(dd.ht[it.table].table[it.index], k)
    BY <1>1 DEF Saved, Follows, Chained
  <2>2. QED BY <2>1, IterType, BucketPresent
<1>2. CASE Later(dd, it, k)
  <2>1. PICK t \in {0, 1} : In(dd.ht[t], k) # NoVal
    BY <1>2 DEF Later
  <2>2. QED BY <2>1, Present
<1>3. QED BY <1>1, <1>2 DEF ToCome

LEMMA ToComeKept ==
  ASSUME NEW dd, NEW ee, DictFits(dd), DictFits(ee), NEW changed, Keeps(dd, ee, changed),
         NEW it \in Iterators, it.index \in 0..dd.ht[it.table].size - 1, it.next \notin changed,
         NEW k \in Keys \ changed
  PROVE  ToCome(ee, it, k) <=> ToCome(dd, it, k)
<1>1. it.table \in {0, 1} /\ it.next \in Keys \cup {NoKey}
  BY IterType
<1>2. Saved(ee, it, k) <=> Saved(dd, it, k)
  <2>1. CASE it.next = NoKey
    BY <2>1 DEF Saved
  <2>2. CASE it.next # NoKey
    <3>1. it.next \in Keys \ changed
      BY <1>1, <2>2
    <3>2. Follows(ee.ht[it.table].table[it.index], it.next, k)
            <=> Follows(dd.ht[it.table].table[it.index], it.next, k)
      BY <1>1, <3>1 DEF Keeps
    <3>3. QED BY <3>2 DEF Saved
  <2>3. QED BY <2>1, <2>2
<1>3. ASSUME NEW t \in {0, 1}
      PROVE  /\ In(ee.ht[t], k) # NoVal <=> In(dd.ht[t], k) # NoVal
             /\ In(dd.ht[t], k) # NoVal => Bucket(ee.ht[t], k) = Bucket(dd.ht[t], k)
  <2>1. In(ee.ht[t], k) # NoVal <=> In(dd.ht[t], k) # NoVal
    BY DEF Keeps
  <2>2. ASSUME In(dd.ht[t], k) # NoVal PROVE ee.ht[t].size = dd.ht[t].size
    <3>1. TableFits(dd.ht[t])
      BY DEF DictFits
    <3>2. dd.ht[t].size # 0
      BY <2>2, <3>1, InType
    <3>3. QED BY <3>2 DEF Keeps
  <2>3. QED BY <2>1, <2>2 DEF Bucket
<1>4. Later(ee, it, k) <=> Later(dd, it, k)
  BY <1>3 DEF Later
<1>5. QED BY <1>2, <1>4 DEF ToCome

(* A call does not disturb an iterator, when it deletes no key that the       *)
(* iterator has saved.                                                       *)
LEMMA IterKept ==
  ASSUME NEW dd, NEW ee, DictFits(dd), DictFits(ee), NEW changed \in SUBSET Keys,
         Keeps(dd, ee, changed),
         NEW it, NEW c, IterFits(dd, it, c), it.next \notin changed,
         NEW c2 \in Cursors, c2.open = c.open, c = NoCursor => c2 = NoCursor,
         Under(it) => c2.returned = c.returned \ changed /\ c2.stable = c.stable \ changed
  PROVE  IterFits(ee, it, c2)
<1>1. /\ it \in Iterators /\ c \in Cursors
      /\ it.index = -1 => /\ it.table = 0 /\ it.entry = NoKey /\ c = NoCursor
      /\ it.index # -1 => it.live /\ it.index >= 0 /\ c.open
      /\ it.entry = NoKey => it.next = NoKey
  BY DEF IterFits
<1>2. ASSUME Under(it)
      PROVE  /\ it.index < ee.ht[it.table].size
             /\ it.next # NoKey => Chained(ee.ht[it.table].table[it.index], it.next)
             /\ \A k \in c2.returned : Value(ee, k) # NoVal
             /\ \A k \in Keys : ToCome(ee, it, k) => k \notin c2.returned
             /\ \A k \in c2.stable : k \in c2.returned \/ ToCome(ee, it, k)
  <2>1. /\ it.index < dd.ht[it.table].size
        /\ it.next # NoKey => Chained(dd.ht[it.table].table[it.index], it.next)
        /\ \A k \in c.returned : Value(dd, k) # NoVal
        /\ \A k \in Keys : ToCome(dd, it, k) => k \notin c.returned
        /\ \A k \in c.stable : k \in c.returned \/ ToCome(dd, it, k)
    BY <1>2 DEF IterFits
  <2>2. /\ c2.returned = c.returned \ changed /\ c2.stable = c.stable \ changed
        /\ c.returned \subseteq Keys /\ c.stable \subseteq Keys
    BY <1>1, <1>2 DEF Cursors
  <2>3. /\ it.table \in {0, 1} /\ it.index \in Int /\ it.index >= 0
        /\ it.next \in Keys \cup {NoKey}
    BY <1>1, <1>2, IterType DEF Under
  <2>4. dd.ht[it.table].size \in Nat /\ it.index \in 0..dd.ht[it.table].size - 1
    <3>1. dd.ht[it.table].size \in Nat
      BY <2>3, DictType, TableType DEF DictFits
    <3>2. QED BY <2>1, <2>3, <3>1
  <2>5. \A k \in Keys \ changed : ToCome(ee, it, k) <=> ToCome(dd, it, k)
    BY <1>1, <2>4, ToComeKept
  <2>6. ee.ht[it.table].size = dd.ht[it.table].size
    BY <2>3, <2>4 DEF Keeps
  <2>7. ASSUME NEW k \in c2.returned PROVE Value(ee, k) # NoVal
    <3>1. k \in Keys \ changed /\ Value(dd, k) # NoVal
      BY <2>1, <2>2
    <3>2. \A t \in {0, 1} : In(ee.ht[t], k) # NoVal <=> In(dd.ht[t], k) # NoVal
      BY <3>1 DEF Keeps
    <3>3. QED BY <3>1, <3>2, Present
  <2>8. ASSUME it.next # NoKey PROVE Chained(ee.ht[it.table].table[it.index], it.next)
    <3>1. it.next \in Keys \ changed
      BY <2>3, <2>8
    <3>2. Follows(dd.ht[it.table].table[it.index], it.next, it.next)
      <4>1. PICK n \in DOMAIN dd.ht[it.table].table[it.index] :
              dd.ht[it.table].table[it.index][n].key = it.next
        BY <2>1, <2>8 DEF Chained
      <4>2. dd.ht[it.table].table[it.index] \in Chains
        BY <2>3, <2>4 DEF DictFits, TableFits
      <4>3. n <= n
        <5> DEFINE chain == dd.ht[it.table].table[it.index]
        <5>1. DOMAIN chain = 1..Len(chain)
          BY <4>2, ChainType
        <5>2. QED BY <4>1, <5>1
      <4>4. QED BY <4>1, <4>3 DEF Follows
    <3>3. Follows(ee.ht[it.table].table[it.index], it.next, it.next)
      BY <2>3, <2>4, <3>1, <3>2 DEF Keeps
    <3>4. QED BY <3>3 DEF Follows, Chained
  <2>9. QED BY <2>1, <2>2, <2>5, <2>6, <2>7, <2>8
<1>3. QED BY <1>1, <1>2 DEF IterFits

(* An iterator that has not started stands nowhere.                          *)
LEMMA IterIdle ==
  ASSUME NEW dd, NEW ee, NEW it, NEW c, IterFits(dd, it, c), it.index = -1
  PROVE  IterFits(ee, it, c)
  BY DEF IterFits, Under

(* A key that is absent is none that an iterator knows of.                   *)
LEMMA IterKnows ==
  ASSUME NEW dd, DictFits(dd), NEW it, NEW c, IterFits(dd, it, c), Under(it),
         NEW k \in Keys, Value(dd, k) = NoVal
  PROVE  k \notin c.returned /\ k \notin c.stable /\ it.next # k
<1>1. it \in Iterators /\ it.index \in 0..dd.ht[it.table].size - 1
  <2>1. it \in Iterators /\ it.index # -1 /\ it.index >= 0 /\ it.index < dd.ht[it.table].size
    BY DEF IterFits, Under
  <2>2. it.table \in {0, 1} /\ it.index \in Int
    BY <2>1, IterType
  <2>3. dd.ht[it.table].size \in Nat
    BY <2>2, DictType, TableType DEF DictFits
  <2>4. QED BY <2>1, <2>2, <2>3
<1>2. k \notin c.returned
  BY DEF IterFits
<1>3. ~ToCome(dd, it, k)
  BY <1>1, ToComePresent
<1>4. k \notin c.stable
  BY <1>2, <1>3 DEF IterFits
<1>5. it.next # k
  <2>1. SUFFICES ASSUME it.next = k, k # NoKey PROVE FALSE
    BY NothingAssumption
  <2>2. Chained(dd.ht[it.table].table[it.index], k)
    BY <2>1 DEF IterFits
  <2>3. QED BY <1>1, <2>2, IterType, BucketPresent
<1>6. QED BY <1>2, <1>4, <1>5

LEMMA NotUnder ==
  ASSUME NEW dd, NEW it, NEW c, IterFits(dd, it, c), ~Under(it)
  PROVE  it.next = NoKey
  BY DEF IterFits, Under

LEMMA IterAdded ==
  ASSUME NEW dd, NEW ee, NEW k \in Keys, NEW v, DictFits(dd), Value(dd, k) = NoVal,
         Sets(dd, ee, k, v), NEW it, NEW c, IterFits(dd, it, c)
  PROVE  IterFits(ee, it, c)
<1>1. k # NoKey /\ {k} \in SUBSET Keys
  BY NothingAssumption
<1>2. it.next \notin {k}
  BY <1>1, NotUnder, IterKnows
<1>3. Under(it) => c.returned = c.returned \ {k} /\ c.stable = c.stable \ {k}
  BY IterKnows
<1>4. c \in Cursors /\ DictFits(ee) /\ Keeps(dd, ee, {k})
  BY DEF IterFits, Sets
<1>5. QED BY <1>1, <1>2, <1>3, <1>4, IterKept

LEMMA IterAssigned ==
  ASSUME NEW dd, NEW ee, DictFits(dd), DictFits(ee), Keeps(dd, ee, {}),
         NEW it, NEW c, IterFits(dd, it, c)
  PROVE  IterFits(ee, it, c)
<1>1. c \in Cursors /\ {} \in SUBSET Keys
  BY DEF IterFits
<1>2. QED BY <1>1, IterKept

Forgets(c, k) == [c EXCEPT !.stable = @ \ {k}, !.returned = @ \ {k}]

LEMMA ForgetsType ==
  ASSUME NEW c \in Cursors, NEW k
  PROVE  /\ Forgets(c, k) \in Cursors /\ Forgets(c, k).open = c.open
         /\ Forgets(c, k).stable = c.stable \ {k} /\ Forgets(c, k).returned = c.returned \ {k}
         /\ c = NoCursor => Forgets(c, k) = NoCursor
<1>1. /\ Forgets(c, k) \in Cursors /\ Forgets(c, k).open = c.open
      /\ Forgets(c, k).stable = c.stable \ {k} /\ Forgets(c, k).returned = c.returned \ {k}
  BY DEF Cursors, Forgets
<1>2. ASSUME c = NoCursor PROVE Forgets(c, k) = NoCursor
  <2>1. {} \ {k} = {}
    OBVIOUS
  <2>2. c.open = FALSE /\ c.stable = {} /\ c.returned = {}
    BY <1>2 DEF NoCursor
  <2>3. Forgets(c, k).open = FALSE /\ Forgets(c, k).stable = {} /\ Forgets(c, k).returned = {}
    BY <1>1, <2>1, <2>2
  <2>4. QED BY <1>1, <2>3 DEF Cursors, NoCursor
<1>3. QED BY <1>1, <1>2

LEMMA IterDeleted ==
  ASSUME NEW dd, NEW ee, NEW k \in Keys, DictFits(dd),
         Sets(dd, ee, k, NoVal) \/ (ee = dd /\ Value(dd, k) = NoVal),
         NEW it, NEW c, IterFits(dd, it, c), it.next # k
  PROVE  IterFits(ee, it, Forgets(c, k))
<1>1. c \in Cursors /\ {k} \in SUBSET Keys
  BY DEF IterFits
<1>2. DictFits(ee) /\ Keeps(dd, ee, {k})
  BY DEF Sets, Keeps
<1>3. it.next \notin {k}
  OBVIOUS
<1>4. QED BY <1>1, <1>2, <1>3, ForgetsType, IterKept

(* While the counter is 0 no iterator has started.                           *)
LEMMA NoneStarted ==
  ASSUME DictInv, d.iterators = 0, NEW i \in Iters
  PROVE  iter[i].index = -1
<1>1. {j \in Iters : Started(j)} = {}
  BY FS_EmptySet DEF DictInv, IteratorsCounted
<1>2. ~Started(i) /\ IterFits(d, iter[i], cursor[i])
  BY <1>1 DEF DictInv
<1>3. QED BY <1>2 DEF Started, IterFits

LEMMA ItersRearranged ==
  ASSUME DictInv, NEW ee, Rearranged(d, ee), NEW i \in Iters
  PROVE  IterFits(ee, iter[i], cursor[i])
<1>1. IterFits(d, iter[i], cursor[i]) /\ DictFits(d)
  BY DEF DictInv
<1>2. CASE d.iterators = 0
  BY <1>1, <1>2, NoneStarted, IterIdle
<1>3. CASE d.iterators # 0
  BY <1>1, <1>3, IterAssigned DEF Rearranged
<1>4. QED BY <1>2, <1>3

(* dictNext: the order in which the buckets are walked.                      *)
LEMMA NearestIs ==
  ASSUME NEW ps, ps \subseteq {0, 1} \X Nat, ps # {}
  PROVE  /\ Nearest(ps) \in ps
         /\ \A q \in ps : Nearest(ps)[1] < q[1] \/ (Nearest(ps)[1] = q[1] /\ Nearest(ps)[2] <= q[2])
<1> DEFINE At(t) == {b \in Nat : <<t, b>> \in ps}
<1>1. \A q \in ps : q = <<q[1], q[2]>> /\ q[1] \in {0, 1} /\ q[2] \in Nat
  OBVIOUS
<1>2. ASSUME NEW t \in {0, 1}, At(t) # {}, t = 1 => At(0) = {}
      PROVE  \E p \in ps : \A q \in ps : p[1] < q[1] \/ (p[1] = q[1] /\ p[2] <= q[2])
  <2>1. PICK b \in At(t) : \A a \in At(t) : b <= a
    <3>1. At(t) \subseteq Nat
      OBVIOUS
    <3> HIDE DEF At
    <3>2. QED BY <1>2, <3>1, NatMin
  <2>2. ASSUME NEW q \in ps PROVE t < q[1] \/ (t = q[1] /\ b <= q[2])
    <3>1. q[2] \in At(q[1])
      BY <1>1
    <3>2. q[1] \in {0, 1}
      BY <1>1
    <3>3. CASE q[1] = t
      BY <2>1, <3>1, <3>3
    <3>4. CASE q[1] # t
      <4>1. ~(t = 1 /\ q[1] = 0)
        BY <1>2, <3>1
      <4>2. QED BY <3>2, <3>4, <4>1
    <3>5. QED BY <3>3, <3>4
  <2>3. <<t, b>> \in ps /\ <<t, b>>[1] = t /\ <<t, b>>[2] = b
    BY <2>1
  <2> HIDE DEF At
  <2>4. QED BY <2>2, <2>3
<1>3. At(0) # {} \/ At(1) # {}
  <2>1. PICK q \in ps : TRUE
    OBVIOUS
  <2>2. q[2] \in At(q[1]) /\ q[1] \in {0, 1}
    BY <1>1
  <2>3. QED BY <2>2
<1> HIDE DEF At
<1>4. \E p \in ps : \A q \in ps : p[1] < q[1] \/ (p[1] = q[1] /\ p[2] <= q[2])
  <2>1. CASE At(0) # {}
    BY <1>2, <2>1
  <2>2. CASE At(0) = {}
    BY <1>2, <1>3, <2>2
  <2>3. QED BY <2>1, <2>2
<1>5. QED BY <1>4 DEF Nearest

(* An iterator that stands on the n-th entry of bucket b of table t.          *)
Stands(it, t, b, k) == [it EXCEPT !.table = t, !.index = b, !.entry = k, !.next = Successor(k)]

StandsOn(it, t, b, n, k) ==
  LET now == Stands(it, t, b, k)
  IN  /\ now \in Iterators /\ now.live = it.live /\ now.table = t /\ now.index = b
      /\ now.entry = k /\ k \in Keys /\ Value(d, k) # NoVal
      /\ now.next # NoKey => Chained(d.ht[t].table[b], now.next)
      /\ \A x \in Keys : Saved(d, now, x) <=>
           \E m \in DOMAIN d.ht[t].table[b] : m > n /\ d.ht[t].table[b][m].key = x
      /\ ~ToCome(d, now, k)

LEMMA Standing ==
  ASSUME DictFits(d), NEW t \in {0, 1}, NEW b \in 0..d.ht[t].size - 1,
         NEW n \in DOMAIN d.ht[t].table[b], NEW k, k = d.ht[t].table[b][n].key,
         NEW it \in Iterators
  PROVE  StandsOn(it, t, b, n, k)
<1> DEFINE chain == d.ht[t].table[b]
           s == IF n < Len(chain) THEN chain[n + 1].key ELSE NoKey
           now == Stands(it, t, b, k)
<1>1. TableFits(d.ht[t]) /\ chain \in Chains /\ OnceEach(chain)
  BY DEF DictFits, TableFits
<1>2. /\ Len(chain) \in Nat /\ DOMAIN chain = 1..Len(chain)
      /\ \A m \in 1..Len(chain) : chain[m].key \in Keys
  BY <1>1, ChainType
<1>3. Chained(chain, k)
  BY DEF Chained
<1>4. /\ k \in Keys /\ In(d.ht[t], k) # NoVal /\ Value(d, k) # NoVal
      /\ Bucket(d.ht[t], k) = b /\ Chain(d.ht[t], k) = chain
  BY <1>3, BucketPresent
<1>5. Position(chain, k) = n
  BY <1>1, OnlyPosition
<1>6. Holder(d, k) = t /\ In(d.ht[1 - t], k) = NoVal
  <2>1. /\ Holder(d, k) \in {0, 1} /\ In(d.ht[Holder(d, k)], k) # NoVal
        /\ In(d.ht[0], k) = NoVal \/ In(d.ht[1], k) = NoVal
    BY <1>4, ValueIs DEF DictFits
  <2>2. CASE t = 0
    BY <1>4, <2>1, <2>2
  <2>3. CASE t = 1
    BY <1>4, <2>1, <2>3
  <2>4. QED BY <2>2, <2>3
<1>7. Successor(k) = s
  BY <1>4, <1>5, <1>6 DEF Successor
<1> HIDE DEF chain
<1>8. s \in Keys \cup {NoKey} /\ (s # NoKey <=> n < Len(chain)) /\ (n < Len(chain) => n + 1 \in DOMAIN chain)
  <2>1. n < Len(chain) => n + 1 \in 1..Len(chain)
    BY <1>2 DEF chain
  <2>2. QED BY <1>2, <2>1, NothingAssumption
<1>9. /\ now \in Iterators /\ now.live = it.live /\ now.table = t /\ now.index = b
      /\ now.entry = k /\ now.next = s
  <2> HIDE DEF s
  <2>1. b \in Int /\ Successor(k) \in Keys \cup {NoKey} /\ k \in Keys \cup {NoKey}
    BY <1>4, <1>7, <1>8
  <2>2. QED BY <1>7, <2>1 DEF Iterators, Stands
<1>10. ASSUME NEW x \in Keys
       PROVE  Saved(d, now, x) <=> \E m \in DOMAIN chain : m > n /\ chain[m].key = x
  <2> HIDE DEF now
  <2>0. Saved(d, now, x) <=> s # NoKey /\ Follows(chain, s, x)
    BY <1>9 DEF Saved, chain
  <2>1. ASSUME s # NoKey /\ Follows(chain, s, x)
        PROVE  \E m \in DOMAIN chain : m > n /\ chain[m].key = x
    <3>1. PICK i, m \in DOMAIN chain : i <= m /\ chain[i].key = s /\ chain[m].key = x
      BY <2>1 DEF Follows
    <3>2. n + 1 \in DOMAIN chain /\ s = chain[n + 1].key
      BY <1>8, <2>1
    <3>3. i = n + 1
      BY <1>1, <3>1, <3>2 DEF OnceEach
    <3>4. m > n
      <4>1. m \in Nat /\ n \in Nat
        BY <1>2 DEF chain
      <4>2. QED BY <3>1, <3>3, <4>1
    <3>5. QED BY <3>1, <3>4
  <2>2. ASSUME NEW m \in DOMAIN chain, m > n, chain[m].key = x
        PROVE  s # NoKey /\ Follows(chain, s, x)
    <3>1. m \in Nat /\ n \in Nat /\ m <= Len(chain) /\ Len(chain) \in Nat
      BY <1>2 DEF chain
    <3>2. n < Len(chain) /\ n + 1 <= m
      BY <2>2, <3>1
    <3>3. n + 1 \in DOMAIN chain /\ s = chain[n + 1].key /\ s # NoKey
      BY <1>8, <3>2
    <3>4. QED BY <2>2, <3>2, <3>3 DEF Follows
  <2>3. QED BY <2>0, <2>1, <2>2
<1>11. ~Saved(d, now, k)
  <2>1. ASSUME NEW m \in DOMAIN chain, m > n, chain[m].key = k PROVE FALSE
    <3>1. m = n
      BY <1>1, <2>1 DEF OnceEach, chain
    <3>2. m \in Nat
      BY <1>2
    <3>3. QED BY <2>1, <3>1, <3>2
  <2> HIDE DEF now
  <2>2. QED BY <1>4, <1>10, <2>1
<1>12. ~Later(d, now, k)
  <2> HIDE DEF now
  <2>1. SUFFICES ASSUME NEW u \in {0, 1}, In(d.ht[u], k) # NoVal,
                        u > t \/ (u = t /\ Bucket(d.ht[u], k) > b)
                 PROVE  FALSE
    BY <1>9 DEF Later
  <2>2. u = t
    BY <1>6, <2>1
  <2>3. QED BY <1>4, <2>1, <2>2
<1>13. now.next # NoKey => Chained(chain, now.next)
  <2>1. now.next = s
    BY <1>9
  <2> HIDE DEF now
  <2>2. QED BY <1>8, <2>1 DEF Chained
<1> HIDE DEF now
<1>14. ~ToCome(d, now, k)
  BY <1>11, <1>12 DEF ToCome
<1>15. QED BY <1>4, <1>9, <1>10, <1>13, <1>14 DEF now, chain, StandsOn

(* What dictNext has ahead is what the iterator has still to come to.        *)
LEMMA AheadIs ==
  ASSUME DictFits(d), NEW it \in Iterators, NEW p \in Ahead(it)
  PROVE  /\ p \in {0, 1} \X Nat /\ p[1] \in {0, 1} /\ p[2] \in 0..d.ht[p[1]].size - 1
         /\ p[1] > it.table \/ (p[1] = it.table /\ p[2] > it.index)
         /\ 1 \in DOMAIN d.ht[p[1]].table[p[2]]
<1>1. /\ d.ht[0].size \in Nat /\ d.ht[1].size \in Nat
      /\ TableFits(d.ht[0]) /\ TableFits(d.ht[1])
  BY DictType, TableType DEF DictFits
<1>2. /\ p[1] \in {0, 1} /\ p[2] \in 0..d.ht[0].size + d.ht[1].size /\ p[2] < d.ht[p[1]].size
      /\ p[1] > it.table \/ (p[1] = it.table /\ p[2] > it.index)
      /\ d.ht[p[1]].table[p[2]] # << >> /\ p = <<p[1], p[2]>>
  BY DEF Ahead
<1>3. p[2] \in Nat /\ p[2] \in 0..d.ht[p[1]].size - 1
  BY <1>1, <1>2
<1>4. d.ht[p[1]].table[p[2]] \in Chains
  <2>1. TableFits(d.ht[p[1]])
    BY <1>1, <1>2
  <2>2. QED BY <1>3, <2>1 DEF TableFits
<1> DEFINE chain == d.ht[p[1]].table[p[2]]
<1>5. chain \in Seq(Entries) /\ chain # << >>
  BY <1>2, <1>4 DEF Chains
<1> HIDE DEF chain
<1>6. 1 \in DOMAIN chain
  BY <1>5
<1>7. p \in {0, 1} \X Nat
  BY <1>2, <1>3
<1>8. QED BY <1>2, <1>3, <1>6, <1>7 DEF chain

LEMMA LaterAhead ==
  ASSUME DictFits(d), NEW it \in Iterators, NEW k \in Keys
  PROVE  Later(d, it, k) <=>
           \E t \in {0, 1} : In(d.ht[t], k) # NoVal /\ <<t, Bucket(d.ht[t], k)>> \in Ahead(it)
<1>1. ASSUME NEW t \in {0, 1}, In(d.ht[t], k) # NoVal,
             t > it.table \/ (t = it.table /\ Bucket(d.ht[t], k) > it.index)
      PROVE  <<t, Bucket(d.ht[t], k)>> \in Ahead(it)
  <2> DEFINE b == Bucket(d.ht[t], k)
  <2>1. /\ TableFits(d.ht[t]) /\ d.ht[0].size \in Nat /\ d.ht[1].size \in Nat
    BY DictType, TableType DEF DictFits
  <2>2. d.ht[t].size # 0 /\ Holds(d.ht[t], k)
    BY <1>1, <2>1, InType
  <2>3. b \in 0..d.ht[t].size - 1 /\ Chain(d.ht[t], k) = d.ht[t].table[b]
    BY <2>1, <2>2, ChainIn
  <2>4. d.ht[t].table[b] # << >>
    BY <2>2, <2>3 DEF Holds, Chained
  <2>5. t > it.table => IsRehashing(d)
    <3>1. ASSUME t > it.table PROVE t = 1
      BY <3>1, IterType
    <3>2. d.ht[1].size # 0 => IsRehashing(d)
      BY <2>1 DEF DictFits
    <3>3. QED BY <2>2, <3>1, <3>2
  <2> HIDE DEF b
  <2>6. b \in 0..d.ht[0].size + d.ht[1].size /\ b < d.ht[t].size
    BY <2>1, <2>3
  <2>7. <<t, b>> \in Ahead(it)
    <3>1. t > it.table \/ (t = it.table /\ b > it.index)
      BY <1>1 DEF b
    <3>2. QED BY <2>4, <2>5, <2>6, <3>1 DEF Ahead
  <2>8. QED BY <2>7 DEF b
<1>2. ASSUME NEW t \in {0, 1}, <<t, Bucket(d.ht[t], k)>> \in Ahead(it)
      PROVE  t > it.table \/ (t = it.table /\ Bucket(d.ht[t], k) > it.index)
  <2> DEFINE p == <<t, Bucket(d.ht[t], k)>>
  <2>1. p[1] > it.table \/ (p[1] = it.table /\ p[2] > it.index)
    BY <1>2, AheadIs
  <2>2. QED BY <2>1
<1>3. QED BY <1>1, <1>2 DEF Later

(* An iterator takes one step, to key k.                                     *)
Passes(it, now, k) ==
  /\ now \in Iterators /\ now.live = it.live /\ now.entry = k
  /\ now.index \in 0..d.ht[now.table].size - 1
  /\ k \in Keys /\ Value(d, k) # NoVal
  /\ now.next # NoKey => Chained(d.ht[now.table].table[now.index], now.next)
  /\ \A x \in Keys : ToCome(d, it, x) <=> x = k \/ ToCome(d, now, x)
  /\ ~ToCome(d, now, k)

LEMMA SavedPasses ==
  ASSUME DictFits(d), NEW it \in Iterators, it.next # NoKey,
         it.index \in 0..d.ht[it.table].size - 1,
         Chained(d.ht[it.table].table[it.index], it.next)
  PROVE  Passes(it, Stands(it, it.table, it.index, it.next), it.next)
<1> DEFINE t == it.table
           b == it.index
           k == it.next
           chain == d.ht[t].table[b]
           now == Stands(it, t, b, k)
<1>1. t \in {0, 1} /\ b \in 0..d.ht[t].size - 1
  BY IterType
<1>2. TableFits(d.ht[t]) /\ chain \in Chains /\ OnceEach(chain)
  BY <1>1 DEF DictFits, TableFits
<1>3. /\ Len(chain) \in Nat /\ DOMAIN chain = 1..Len(chain)
  BY <1>2, ChainType
<1>4. PICK n \in DOMAIN chain : k = chain[n].key
  BY DEF Chained
<1> HIDE DEF t, b, k
<1>5. /\ now \in Iterators /\ now.live = it.live /\ now.table = t /\ now.index = b
      /\ now.entry = k /\ k \in Keys /\ Value(d, k) # NoVal
      /\ now.next # NoKey => Chained(d.ht[t].table[b], now.next)
      /\ \A x \in Keys : Saved(d, now, x) <=> \E m \in DOMAIN chain : m > n /\ chain[m].key = x
      /\ ~ToCome(d, now, k)
  <2>1. StandsOn(it, t, b, n, k)
    BY <1>1, <1>4, Standing
  <2>2. QED BY <2>1 DEF StandsOn
<1> HIDE DEF now, chain
<1>6. ASSUME NEW x \in Keys PROVE Saved(d, it, x) <=> x = k \/ Saved(d, now, x)
  <2>0. Saved(d, it, x) <=> Follows(chain, k, x)
    BY DEF Saved, chain, t, b, k
  <2>1. ASSUME Follows(chain, k, x) PROVE x = k \/ \E m \in DOMAIN chain : m > n /\ chain[m].key = x
    <3>1. PICK i, m \in DOMAIN chain : i <= m /\ chain[i].key = k /\ chain[m].key = x
      BY <2>1 DEF Follows
    <3>2. i = n
      BY <1>2, <1>4, <3>1 DEF OnceEach
    <3>3. m = n \/ m > n
      <4>1. m \in Nat /\ n \in Nat
        BY <1>3
      <4>2. QED BY <3>1, <3>2, <4>1
    <3>4. QED BY <1>4, <3>1, <3>3
  <2>2. ASSUME x = k \/ \E m \in DOMAIN chain : m > n /\ chain[m].key = x PROVE Follows(chain, k, x)
    <3>1. PICK m \in DOMAIN chain : n <= m /\ chain[m].key = x
      <4>1. \A m \in DOMAIN chain : m \in Nat
        BY <1>3
      <4>2. n <= n
        BY <4>1
      <4>3. \A m \in DOMAIN chain : m > n => n <= m
        BY <4>1
      <4>4. QED BY <1>4, <2>2, <4>2, <4>3
    <3>2. QED BY <1>4, <3>1 DEF Follows
  <2>3. QED BY <1>5, <2>0, <2>1, <2>2
<1>7. ASSUME NEW x \in Keys PROVE Later(d, it, x) <=> Later(d, now, x)
  BY <1>5 DEF Later, t, b
<1>8. \A x \in Keys : ToCome(d, it, x) <=> x = k \/ ToCome(d, now, x)
  BY <1>6, <1>7 DEF ToCome
<1>9. now.index \in 0..d.ht[now.table].size - 1
  BY <1>1, <1>5
<1>10. Passes(it, now, k)
  BY <1>5, <1>8, <1>9 DEF Passes
<1>11. QED BY <1>10 DEF now, t, b, k

LEMMA LaterOn ==
  ASSUME DictFits(d), NEW it \in Iterators, NEW t \in {0, 1}, NEW b \in 0..d.ht[t].size - 1,
         NEW x, Chained(d.ht[t].table[b], x)
  PROVE  t > it.table \/ (t = it.table /\ b > it.index) => Later(d, it, x)
<1>1. PICK n \in DOMAIN d.ht[t].table[b] : d.ht[t].table[b][n].key = x
  BY DEF Chained
<1>2. TableFits(d.ht[t])
  BY DEF DictFits
<1>3. In(d.ht[t], x) # NoVal /\ Bucket(d.ht[t], x) = b
  BY <1>1, <1>2, EntryIn, NothingAssumption
<1>4. QED BY <1>3 DEF Later

LEMMA FoundPasses ==
  ASSUME DictFits(d), NEW it \in Iterators, it.next = NoKey, Ahead(it) # {},
         NEW p, p = Nearest(Ahead(it)), NEW k, k = d.ht[p[1]].table[p[2]][1].key
  PROVE  Passes(it, Stands(it, p[1], p[2], k), k)
<1> DEFINE t == p[1]
           b == p[2]
           chain == d.ht[t].table[b]
           now == Stands(it, t, b, k)
<1>1. Ahead(it) \subseteq {0, 1} \X Nat
  BY AheadIs
<1>2. p \in Ahead(it) /\ \A q \in Ahead(it) : p[1] < q[1] \/ (p[1] = q[1] /\ p[2] <= q[2])
  BY <1>1, NearestIs
<1>3. /\ t \in {0, 1} /\ b \in 0..d.ht[t].size - 1 /\ 1 \in DOMAIN chain
      /\ t > it.table \/ (t = it.table /\ b > it.index)
  BY <1>2, AheadIs
<1>4. TableFits(d.ht[t]) /\ chain \in Chains /\ DOMAIN chain = 1..Len(chain) /\ Len(chain) \in Nat
  <2> HIDE DEF t, b
  <2>1. TableFits(d.ht[t]) /\ chain \in Chains
    BY <1>3 DEF DictFits, TableFits
  <2>2. QED BY <2>1, ChainType
<1>5. \A q \in Ahead(it) : t < q[1] \/ (t = q[1] /\ b <= q[2])
  BY <1>2
<1> HIDE DEF t, b
<1>6. /\ now \in Iterators /\ now.live = it.live /\ now.table = t /\ now.index = b
      /\ now.entry = k /\ k \in Keys /\ Value(d, k) # NoVal
      /\ now.next # NoKey => Chained(d.ht[t].table[b], now.next)
      /\ \A x \in Keys : Saved(d, now, x) <=> \E m \in DOMAIN chain : m > 1 /\ chain[m].key = x
      /\ ~ToCome(d, now, k)
  <2>1. k = chain[1].key
    BY DEF t, b
  <2>2. StandsOn(it, t, b, 1, k)
    BY <1>3, <2>1, Standing
  <2>3. QED BY <2>2 DEF StandsOn
<1> HIDE DEF now
<1>7. ASSUME NEW x \in Keys, ToCome(d, it, x) PROVE x = k \/ ToCome(d, now, x)
  <2>1. Later(d, it, x)
    BY <1>7 DEF ToCome, Saved
  <2>2. PICK u \in {0, 1} : In(d.ht[u], x) # NoVal /\ <<u, Bucket(d.ht[u], x)>> \in Ahead(it)
    BY <2>1, LaterAhead
  <2>3. t < u \/ (t = u /\ b <= Bucket(d.ht[u], x))
    <3> DEFINE q == <<u, Bucket(d.ht[u], x)>>
    <3>1. t < q[1] \/ (t = q[1] /\ b <= q[2])
      BY <1>5, <2>2
    <3>2. QED BY <3>1
  <2>4. CASE t = u /\ b = Bucket(d.ht[u], x)
    <3>1. Holds(d.ht[t], x) /\ d.ht[t].size # 0
      BY <1>4, <2>2, <2>4, InType
    <3>2. Chain(d.ht[t], x) = chain
      BY <1>4, <2>4, <3>1, ChainIn
    <3>3. PICK m \in DOMAIN chain : chain[m].key = x
      BY <3>1, <3>2 DEF Holds, Chained
    <3>4. CASE m = 1
      BY <3>3, <3>4 DEF t, b
    <3>5. CASE m # 1
      <4>1. m > 1
        <5> HIDE DEF chain
        <5>1. QED BY <1>4, <3>5
      <4>2. QED BY <1>6, <3>3, <4>1 DEF ToCome
    <3>6. QED BY <3>4, <3>5
  <2>5. CASE ~(t = u /\ b = Bucket(d.ht[u], x))
    <3>1. u > t \/ (u = t /\ Bucket(d.ht[u], x) > b)
      <4>1. b \in Int /\ Bucket(d.ht[u], x) \in Int
        <5>1. TableFits(d.ht[u]) /\ d.ht[u].size # 0
          BY <2>2, InType DEF DictFits
        <5>2. Bucket(d.ht[u], x) \in 0..d.ht[u].size - 1
          BY <5>1, ChainIn
        <5>3. QED BY <1>3, <5>2
      <4>2. QED BY <1>3, <2>3, <2>5, <4>1
    <3>2. Later(d, now, x)
      BY <1>6, <2>2, <3>1 DEF Later
    <3>3. QED BY <3>2 DEF ToCome
  <2>6. QED BY <2>4, <2>5
<1>8. ASSUME NEW x, Chained(chain, x) PROVE ToCome(d, it, x)
  <2>1. \A y : Chained(d.ht[t].table[b], y) => Later(d, it, y)
    BY <1>3, LaterOn
  <2>2. QED BY <1>8, <2>1 DEF ToCome
<1>9. ASSUME NEW x \in Keys, x = k \/ ToCome(d, now, x) PROVE ToCome(d, it, x)
  <2>1. CASE x = k
    <3>1. Chained(chain, x)
      BY <1>3, <2>1 DEF Chained, t, b
    <3>2. QED BY <1>8, <3>1
  <2>2. CASE Saved(d, now, x)
    <3>1. Chained(chain, x)
      BY <1>6, <2>2 DEF Chained
    <3>2. QED BY <1>8, <3>1
  <2>3. CASE Later(d, now, x)
    <3>1. PICK u \in {0, 1} : /\ In(d.ht[u], x) # NoVal
                              /\ u > t \/ (u = t /\ Bucket(d.ht[u], x) > b)
      BY <1>6, <2>3 DEF Later
    <3>2. Bucket(d.ht[u], x) \in Int
      <4>1. TableFits(d.ht[u]) /\ d.ht[u].size # 0
        BY <3>1, InType DEF DictFits
      <4>2. Bucket(d.ht[u], x) \in 0..d.ht[u].size - 1
        BY <4>1, ChainIn
      <4>3. QED BY <4>2
    <3>3. u > it.table \/ (u = it.table /\ Bucket(d.ht[u], x) > it.index)
      BY <1>3, <3>1, <3>2, IterType
    <3>4. Later(d, it, x)
      BY <3>1, <3>3 DEF Later
    <3>5. QED BY <3>4 DEF ToCome
  <2>4. QED BY <1>9, <2>1, <2>2, <2>3 DEF ToCome
<1>10. now.index \in 0..d.ht[now.table].size - 1
  BY <1>3, <1>6
<1>11. Passes(it, now, k)
  BY <1>6, <1>7, <1>9, <1>10 DEF Passes
<1>12. QED BY <1>11 DEF now, t, b

(* What is to come and what was returned are apart, and hold what is stable.  *)
Ready(it, c) ==
  /\ \A k \in c.returned : Value(d, k) # NoVal
  /\ \A k \in Keys : ToCome(d, it, k) => k \notin c.returned
  /\ \A k \in c.stable : k \in c.returned \/ ToCome(d, it, k)

Returns(c, k) == [c EXCEPT !.returned = @ \cup ({k} \ {NoKey})]

LEMMA ReturnsType ==
  ASSUME NEW c \in Cursors, NEW k \in Keys \cup {NoKey}
  PROVE  /\ Returns(c, k) \in Cursors /\ Returns(c, k).open = c.open
         /\ Returns(c, k).stable = c.stable
         /\ Returns(c, k).returned = c.returned \cup ({k} \ {NoKey})
<1>1. c.returned \cup ({k} \ {NoKey}) \in SUBSET Keys
  BY DEF Cursors
<1>2. QED BY <1>1 DEF Cursors, Returns

LEMMA PassesFits ==
  ASSUME DictFits(d), NEW it \in Iterators, it.live, NEW c \in Cursors, c.open, Ready(it, c),
         NEW now, NEW k, Passes(it, now, k)
  PROVE  /\ IterFits(d, now, Returns(c, k)) /\ now.index # -1 /\ now.live /\ now.entry = k
         /\ k \in Keys /\ Value(d, k) # NoVal /\ k \notin c.returned
<1> DEFINE r == Returns(c, k)
<1>1. /\ now \in Iterators /\ now.live = it.live /\ now.entry = k
      /\ now.index \in 0..d.ht[now.table].size - 1
      /\ k \in Keys /\ Value(d, k) # NoVal
      /\ now.next # NoKey => Chained(d.ht[now.table].table[now.index], now.next)
      /\ \A x \in Keys : ToCome(d, it, x) <=> x = k \/ ToCome(d, now, x)
      /\ ~ToCome(d, now, k)
  BY DEF Passes
<1>2. k # NoKey
  BY <1>1, NothingAssumption
<1>3. r \in Cursors /\ r.open = c.open /\ r.stable = c.stable /\ r.returned = c.returned \cup {k}
  <2>1. c.returned \cup ({k} \ {NoKey}) = c.returned \cup {k}
    BY <1>2
  <2>2. QED BY <1>1, <2>1, ReturnsType
<1> HIDE DEF r
<1>4. k \notin c.returned
  BY <1>1 DEF Ready
<1>5. /\ \A x \in r.returned : Value(d, x) # NoVal
      /\ \A x \in Keys : ToCome(d, now, x) => x \notin r.returned
      /\ \A x \in r.stable : x \in r.returned \/ ToCome(d, now, x)
  <2>1. c.stable \subseteq Keys
    BY DEF Cursors
  <2>2. QED BY <1>1, <1>3, <2>1 DEF Ready
<1>6. /\ now.index # -1 /\ now.index >= 0 /\ now.index < d.ht[now.table].size
  <2>1. now.table \in {0, 1} /\ now.index \in Int
    BY <1>1, IterType
  <2>2. d.ht[now.table].size \in Nat
    BY <2>1, DictType, TableType DEF DictFits
  <2>3. QED BY <1>1, <2>1, <2>2
<1>7. IterFits(d, now, r)
  BY <1>1, <1>2, <1>3, <1>5, <1>6 DEF IterFits
<1>8. QED BY <1>1, <1>4, <1>6, <1>7 DEF r

Ends(it) ==
  LET last == IF IsRehashing(d) THEN 1 ELSE 0
  IN  [it EXCEPT !.table = last, !.index = d.ht[last].size, !.entry = NoKey]

LEMMA EndsFits ==
  ASSUME DictFits(d), NEW it \in Iterators, it.live, NEW c \in Cursors, c.open, Ready(it, c),
         it.next = NoKey, Ahead(it) = {}
  PROVE  /\ IterFits(d, Ends(it), c) /\ Ends(it).index # -1 /\ Ends(it).live
         /\ Ends(it).entry = NoKey /\ c.stable \subseteq c.returned
<1> DEFINE last == IF IsRehashing(d) THEN 1 ELSE 0
           now == Ends(it)
<1>1. last \in {0, 1} /\ d.ht[last].size \in Nat
  <2>1. d.ht[0].size \in Nat /\ d.ht[1].size \in Nat
    BY DictType, TableType DEF DictFits
  <2>2. QED BY <2>1
<1>2. now = [it EXCEPT !.table = last, !.index = d.ht[last].size, !.entry = NoKey]
  BY DEF Ends
<1> HIDE DEF last, now
<1>3. /\ now \in Iterators /\ now.live = it.live /\ now.table = last
      /\ now.index = d.ht[last].size /\ now.entry = NoKey /\ now.next = NoKey
  <2>1. d.ht[last].size \in Int
    BY <1>1
  <2>2. QED BY <1>1, <1>2, <2>1 DEF Iterators
<1>4. now.index # -1 /\ now.index >= 0
  BY <1>1, <1>3
<1>5. IterFits(d, now, c)
  BY <1>3, <1>4 DEF IterFits, Under
<1>6. \A k \in Keys : ~ToCome(d, it, k)
  BY LaterAhead DEF ToCome, Saved
<1>7. c.stable \subseteq c.returned
  <2>1. c.stable \subseteq Keys
    BY DEF Cursors
  <2>2. QED BY <1>6, <2>1 DEF Ready
<1>8. QED BY <1>3, <1>4, <1>5, <1>7 DEF now

LEMMA AdvancedFits ==
  ASSUME DictFits(d), NEW it \in Iterators, it.live, NEW c \in Cursors, c.open, Ready(it, c),
         it.next # NoKey => /\ it.index \in 0..d.ht[it.table].size - 1
                            /\ Chained(d.ht[it.table].table[it.index], it.next)
  PROVE  LET now == Advanced(it)
         IN  /\ IterFits(d, now, Returns(c, now.entry)) /\ now.index # -1 /\ now.live
             /\ \/ /\ now.entry \in Keys /\ now.entry # NoKey
                   /\ Value(d, now.entry) # NoVal /\ now.entry \notin c.returned
                \/ now.entry = NoKey /\ Returns(c, NoKey) = c /\ c.stable \subseteq c.returned
<1> DEFINE now == Advanced(it)
<1>1. CASE it.next # NoKey
  <2>1. now = Stands(it, it.table, it.index, it.next)
    BY <1>1 DEF Advanced, Stands
  <2>2. Passes(it, now, it.next)
    BY <1>1, <2>1, SavedPasses
  <2> HIDE DEF now
  <2>3. /\ IterFits(d, now, Returns(c, it.next)) /\ now.index # -1 /\ now.live
        /\ now.entry = it.next /\ it.next \in Keys /\ Value(d, it.next) # NoVal
        /\ it.next \notin c.returned
    BY <2>2, PassesFits
  <2>4. QED BY <1>1, <2>3 DEF now
<1>2. CASE it.next = NoKey /\ Ahead(it) # {}
  <2> DEFINE p == Nearest(Ahead(it))
             k == d.ht[p[1]].table[p[2]][1].key
  <2>1. now = Stands(it, p[1], p[2], k)
    BY <1>2 DEF Advanced, Stands
  <2>2. Passes(it, now, k)
    BY <1>2, <2>1, FoundPasses
  <2> HIDE DEF now, k
  <2>3. /\ IterFits(d, now, Returns(c, k)) /\ now.index # -1 /\ now.live
        /\ now.entry = k /\ k \in Keys /\ Value(d, k) # NoVal
        /\ k \notin c.returned
    BY <2>2, PassesFits
  <2>4. k # NoKey
    BY <2>3, NothingAssumption
  <2>5. QED BY <2>3, <2>4 DEF now
<1>3. CASE it.next = NoKey /\ Ahead(it) = {}
  <2>1. now = Ends(it)
    BY <1>3 DEF Advanced, Ends
  <2>2. /\ IterFits(d, now, c) /\ now.index # -1 /\ now.live
        /\ now.entry = NoKey /\ c.stable \subseteq c.returned
    BY <1>3, <2>1, EndsFits
  <2> HIDE DEF now
  <2>3. Returns(c, NoKey) = c
    <3>1. c.returned \cup ({NoKey} \ {NoKey}) = c.returned
      OBVIOUS
    <3>2. QED BY <3>1 DEF Returns, Cursors
  <2>4. QED BY <2>2, <2>3 DEF now
<1>4. QED BY <1>1, <1>2, <1>3

-----------------------------------------------------------------------------
(* The calls.                                                                *)
LEMMA BeforeAddFits ==
  ASSUME DictFits(d)
  PROVE  Rearranged(d, BeforeAdd) /\ (~IsRehashing(BeforeAdd) => BeforeAdd.ht[0].size # 0)
<1>1. Rearranged(d, RehashStep(d))
  BY RehashStepFits
<1>2. DictFits(RehashStep(d))
  BY <1>1 DEF Rearranged
<1>3. /\ Rearranged(RehashStep(d), BeforeAdd)
      /\ ~IsRehashing(BeforeAdd) => BeforeAdd.ht[0].size # 0
  BY <1>2, ExpandIfNeededFits DEF BeforeAdd
<1>4. QED BY <1>1, <1>3, RearrangedAgain

LEMMA CounterFits ==
  ASSUME NEW dd, DictFits(dd), NEW n \in Int
  PROVE  LET ee == [dd EXCEPT !.iterators = n]
         IN  /\ DictFits(ee) /\ ee.iterators = n /\ Keeps(dd, ee, {})
             /\ \A k \in Keys : Value(ee, k) = Value(dd, k)
<1> DEFINE ee == [dd EXCEPT !.iterators = n]
<1>1. ee \in Dicts /\ ee.ht = dd.ht /\ ee.rehashidx = dd.rehashidx /\ ee.iterators = n
  BY DEF DictFits, Dicts
<1> HIDE DEF ee
<1>2. IsRehashing(ee) <=> IsRehashing(dd)
  BY <1>1 DEF IsRehashing
<1>3. DictFits(ee)
  BY <1>1, <1>2 DEF DictFits
<1>4. Keeps(dd, ee, {})
  BY <1>1 DEF Keeps
<1>5. \A k \in Keys : Value(ee, k) = Value(dd, k)
  BY <1>1, <1>3, ValueIs
<1>6. QED BY <1>1, <1>3, <1>4, <1>5 DEF ee

(* A call that leaves the iterators alone.                                   *)
LEMMA InvKept ==
  ASSUME DictInv, DictFits(d'), d'.iterators = d.iterators, canResize' \in BOOLEAN, iter' = iter,
         cursor' \in [Iters -> Cursors], \A i \in Iters : IterFits(d', iter[i], cursor'[i])
  PROVE  DictInv'
<1>1. {i \in Iters : Started(i)}' = {i \in Iters : Started(i)}
  BY DEF Started
<1>2. IsFiniteSet({i \in Iters : Started(i)})' /\ IteratorsCounted'
  BY <1>1 DEF DictInv, IteratorsCounted
<1>3. QED BY <1>2 DEF DictInv

LEMMA InvRearranged ==
  ASSUME DictInv, Rearranged(d, d'), canResize' \in BOOLEAN, UNCHANGED <<iter, cursor>>
  PROVE  DictInv' /\ Map' = Map
<1>1. \A i \in Iters : IterFits(d', iter[i], cursor'[i])
  BY ItersRearranged
<1>2. DictInv'
  BY <1>1, InvKept DEF Rearranged, DictInv
<1>3. Map' = Map
  BY DEF Map, Rearranged
<1>4. QED BY <1>2, <1>3

(* What a call does, seen as a step of the map.                              *)
MapStep == [Abstract!Next]_(Abstract!vars)

LEMMA MapIs ==
  ASSUME DictInv, NEW k \in Keys
  PROVE  /\ Map[k] = Value(d, k) /\ DOMAIN Map = Keys
         /\ Abstract!IsIn(k) <=> Value(d, k) # NoVal
         /\ k \in Abstract!Present <=> Value(d, k) # NoVal
  BY DEF Map, Abstract!IsIn, Abstract!Present

LEMMA DictAddStep ==
  ASSUME DictInv, NEW k \in Keys, NEW v \in Vals, DictAdd(k, v)
  PROVE  DictInv' /\ MapStep
<1>1. /\ Rearranged(d, BeforeAdd) /\ DictFits(d) /\ DictFits(BeforeAdd)
      /\ ~IsRehashing(BeforeAdd) => BeforeAdd.ht[0].size # 0
      /\ BeforeAdd.iterators = d.iterators
      /\ \A y \in Keys : Value(BeforeAdd, y) = Value(d, y)
  BY BeforeAddFits DEF DictInv, Rearranged
<1>2. Has(BeforeAdd, k) <=> Value(d, k) # NoVal
  BY <1>1, ValueIs
<1>3. /\ d' = IF Has(BeforeAdd, k) THEN BeforeAdd ELSE Added(BeforeAdd, k, v)
      /\ reply' = [op |-> "dictAdd", ok |-> ~Has(BeforeAdd, k)]
      /\ UNCHANGED <<canResize, iter, cursor>>
  BY DEF DictAdd
<1> HIDE DEF BeforeAdd
<1>4. CASE Value(d, k) # NoVal
  <2>1. Rearranged(d, d')
    BY <1>1, <1>2, <1>3, <1>4
  <2>2. DictInv' /\ Map' = Map
    BY <1>3, <2>1, InvRearranged DEF DictInv
  <2>3. Abstract!Add(k, v)
    BY <1>2, <1>3, <1>4, <2>2, MapIs DEF Abstract!Add
  <2>4. Abstract!Calls("dictAdd")
    BY <1>3 DEF Abstract!Calls
  <2>5. QED BY <2>2, <2>3, <2>4 DEF MapStep, Abstract!Next
<1>5. CASE Value(d, k) = NoVal
  <2>1. d' = Added(BeforeAdd, k, v)
    BY <1>2, <1>3, <1>5
  <2>2. Sets(BeforeAdd, d', k, v)
    BY <1>1, <1>5, <2>1, AddedSets
  <2>3. ASSUME NEW i \in Iters PROVE IterFits(d', iter[i], cursor'[i])
    <3>1. IterFits(BeforeAdd, iter[i], cursor[i])
      BY <1>1, ItersRearranged
    <3>2. IterFits(d', iter[i], cursor[i])
      BY <1>1, <1>5, <2>2, <3>1, IterAdded
    <3>3. QED BY <1>3, <3>2
  <2>4. DictInv'
    BY <1>1, <1>3, <2>2, <2>3, InvKept DEF Sets, DictInv
  <2>5. Map' = [Map EXCEPT ![k] = v]
    <3>1. \A y \in Keys : Value(d', y) = IF y = k THEN v ELSE Value(d, y)
      BY <1>1, <2>2 DEF Sets
    <3>2. QED BY <3>1 DEF Map
  <2>6. Abstract!Add(k, v)
    BY <1>2, <1>3, <1>5, <2>5, MapIs DEF Abstract!Add
  <2>7. Abstract!Calls("dictAdd")
    BY <1>3 DEF Abstract!Calls
  <2>8. QED BY <2>4, <2>6, <2>7 DEF MapStep, Abstract!Next
<1>6. QED BY <1>4, <1>5

LEMMA DictReplaceStep ==
  ASSUME DictInv, NEW k \in Keys, NEW v \in Vals, DictReplace(k, v)
  PROVE  DictInv' /\ MapStep
<1>1. /\ Rearranged(d, BeforeAdd) /\ DictFits(d) /\ DictFits(BeforeAdd)
      /\ ~IsRehashing(BeforeAdd) => BeforeAdd.ht[0].size # 0
      /\ BeforeAdd.iterators = d.iterators
      /\ \A y \in Keys : Value(BeforeAdd, y) = Value(d, y)
  BY BeforeAddFits DEF DictInv, Rearranged
<1>2. Has(BeforeAdd, k) <=> Value(d, k) # NoVal
  BY <1>1, ValueIs
<1>3. /\ d' = IF Has(BeforeAdd, k) THEN Assigned(RehashStep(BeforeAdd), k, v)
              ELSE Added(BeforeAdd, k, v)
      /\ reply' = [op |-> "dictReplace", ok |-> ~Has(BeforeAdd, k)]
      /\ UNCHANGED <<canResize, iter, cursor>>
  BY DEF DictReplace
<1> HIDE DEF BeforeAdd
<1>4. /\ \A i \in Iters : IterFits(d', iter[i], cursor'[i])
      /\ \A y \in Keys : Value(d', y) = IF y = k THEN v ELSE Value(d, y)
      /\ DictFits(d') /\ d'.iterators = d.iterators
  <2>1. CASE Value(d, k) # NoVal
    <3> DEFINE dd == RehashStep(BeforeAdd)
    <3>1. Rearranged(BeforeAdd, dd)
      BY <1>1, RehashStepFits
    <3>2. Rearranged(d, dd)
      BY <1>1, <3>1, RearrangedAgain
    <3>3. d' = Assigned(dd, k, v)
      BY <1>2, <1>3, <2>1
    <3> HIDE DEF dd
    <3>4. /\ DictFits(dd) /\ dd.iterators = d.iterators
          /\ \A y \in Keys : Value(dd, y) = Value(d, y)
      BY <3>2 DEF Rearranged
    <3>5. Sets(dd, d', k, v) /\ Keeps(dd, d', {})
      BY <2>1, <3>3, <3>4, AssignedSets
    <3>6. ASSUME NEW i \in Iters PROVE IterFits(d', iter[i], cursor'[i])
      <4>1. IterFits(dd, iter[i], cursor[i])
        BY <3>2, ItersRearranged
      <4>2. DictFits(d')
        BY <3>5 DEF Sets
      <4>3. IterFits(d', iter[i], cursor[i])
        BY <3>4, <3>5, <4>1, <4>2, IterAssigned
      <4>4. QED BY <1>3, <4>3
    <3>7. QED BY <3>4, <3>5, <3>6 DEF Sets
  <2>2. CASE Value(d, k) = NoVal
    <3>1. d' = Added(BeforeAdd, k, v)
      BY <1>2, <1>3, <2>2
    <3>2. Sets(BeforeAdd, d', k, v)
      BY <1>1, <2>2, <3>1, AddedSets
    <3>3. ASSUME NEW i \in Iters PROVE IterFits(d', iter[i], cursor'[i])
      <4>1. IterFits(BeforeAdd, iter[i], cursor[i])
        BY <1>1, ItersRearranged
      <4>2. IterFits(d', iter[i], cursor[i])
        BY <1>1, <2>2, <3>2, <4>1, IterAdded
      <4>3. QED BY <1>3, <4>2
    <3>4. QED BY <1>1, <3>2, <3>3 DEF Sets
  <2>3. QED BY <2>1, <2>2
<1>5. DictInv'
  BY <1>3, <1>4, InvKept DEF DictInv
<1>6. Map' = [Map EXCEPT ![k] = v]
  BY <1>4 DEF Map
<1>7. Abstract!Replace(k, v)
  BY <1>2, <1>3, <1>6, MapIs DEF Abstract!Replace
<1>8. Abstract!Calls("dictReplace")
  BY <1>3 DEF Abstract!Calls
<1>9. QED BY <1>5, <1>7, <1>8 DEF MapStep, Abstract!Next

LEMMA DictDeleteStep ==
  ASSUME DictInv, NEW k \in Keys, DictDelete(k)
  PROVE  DictInv' /\ MapStep
<1> DEFINE dd == RehashStep(d)
<1>1. /\ Rearranged(d, dd) /\ DictFits(d) /\ DictFits(dd) /\ dd.iterators = d.iterators
      /\ \A y \in Keys : Value(dd, y) = Value(d, y)
  BY RehashStepFits DEF DictInv, Rearranged
<1>2. Has(dd, k) <=> Value(d, k) # NoVal
  BY <1>1, ValueIs
<1>3. /\ \A i \in Iters : iter[i].next # k
      /\ d' = IF Has(dd, k) THEN Unlinked(dd, k) ELSE dd
      /\ reply' = [op |-> "dictDelete", ok |-> Has(dd, k)]
      /\ cursor' = [i \in Iters |-> Forgets(cursor[i], k)]
      /\ UNCHANGED <<canResize, iter>>
  BY DEF DictDelete, Forgets
<1> HIDE DEF dd
<1>4. Sets(dd, d', k, NoVal) \/ (d' = dd /\ Value(dd, k) = NoVal)
  BY <1>1, <1>2, <1>3, UnlinkedSets
<1>5. /\ DictFits(d') /\ d'.iterators = d.iterators
      /\ \A y \in Keys : Value(d', y) = IF y = k THEN NoVal ELSE Value(d, y)
  BY <1>1, <1>4 DEF Sets
<1>6. ASSUME NEW i \in Iters PROVE IterFits(d', iter[i], cursor'[i]) /\ cursor'[i] \in Cursors
  <2>1. IterFits(dd, iter[i], cursor[i]) /\ cursor[i] \in Cursors
    BY <1>1, ItersRearranged DEF DictInv
  <2>2. IterFits(d', iter[i], Forgets(cursor[i], k))
    BY <1>1, <1>3, <1>4, <2>1, IterDeleted
  <2>3. cursor'[i] = Forgets(cursor[i], k)
    BY <1>3
  <2>4. QED BY <2>1, <2>2, <2>3, ForgetsType
<1>7. DictInv'
  <2>1. cursor' \in [Iters -> Cursors]
    BY <1>3, <1>6
  <2>2. QED BY <1>3, <1>5, <1>6, <2>1, InvKept DEF DictInv
<1>8. Map' = [Map EXCEPT ![k] = NoVal]
  BY <1>5 DEF Map
<1>9. Abstract!Delete(k)
  <2>1. cursor' = [i \in Iters |-> Abstract!Without(cursor[i], {k})]
    BY <1>3 DEF Forgets, Abstract!Without
  <2>2. Has(dd, k) = Abstract!IsIn(k)
    BY <1>2, MapIs DEF Has, Abstract!IsIn
  <2>3. reply' = [op |-> "dictDelete", ok |-> Abstract!IsIn(k)]
    BY <1>3, <2>2
  <2>4. QED BY <1>8, <2>1, <2>3 DEF Abstract!Delete
<1>10. Abstract!Calls("dictDelete")
  BY <1>3 DEF Abstract!Calls
<1>11. QED BY <1>7, <1>9, <1>10 DEF MapStep, Abstract!Next

LEMMA DictFetchStep ==
  ASSUME DictInv, NEW k \in Keys, DictFetchValue(k)
  PROVE  DictInv' /\ MapStep
<1>1. /\ d' = RehashStep(d)
      /\ reply' = [op |-> "dictFetchValue", val |-> Value(RehashStep(d), k)]
      /\ UNCHANGED <<canResize, iter, cursor>>
  BY DEF DictFetchValue
<1>2. Rearranged(d, d')
  BY <1>1, RehashStepFits DEF DictInv
<1>3. DictInv' /\ Map' = Map
  BY <1>1, <1>2, InvRearranged DEF DictInv
<1>4. Value(RehashStep(d), k) = Value(d, k)
  BY <1>1, <1>2 DEF Rearranged
<1>5. Abstract!Fetch(k)
  BY <1>1, <1>3, <1>4, MapIs DEF Abstract!Fetch
<1>6. Abstract!Calls("dictFetchValue")
  BY <1>1 DEF Abstract!Calls
<1>7. QED BY <1>3, <1>5, <1>6 DEF MapStep, Abstract!Next

LEMMA DictGetRandomKeyStep ==
  ASSUME DictInv, DictGetRandomKey
  PROVE  DictInv' /\ MapStep
<1> DEFINE dd == RehashStep(d)
<1>1. Rearranged(d, dd) /\ DictFits(d) /\ DictFits(dd) /\ \A y \in Keys : Value(dd, y) = Value(d, y)
  BY RehashStepFits DEF DictInv, Rearranged
<1>2. CASE d.ht[0].used + d.ht[1].used = 0
  <2>1. d' = d /\ reply' = [op |-> "dictGetRandomKey", key |-> NoKey] /\ UNCHANGED <<canResize, iter, cursor>>
    BY <1>2 DEF DictGetRandomKey
  <2>2. DictInv' /\ Map' = Map
    BY <1>1, <2>1, RearrangedSame, InvRearranged DEF DictInv
  <2>3. d.ht[0].used = 0 /\ d.ht[1].used = 0
    <3>1. d.ht[0].used \in Nat /\ d.ht[1].used \in Nat
      BY <1>1, DictType, TableType DEF DictFits
    <3>2. QED BY <1>2, <3>1
  <2>4. \A k \in Keys : In(d.ht[0], k) = NoVal /\ In(d.ht[1], k) = NoVal
    BY <1>1, <2>3, UsedCounts DEF DictFits
  <2>5. \A k \in Keys : Value(d, k) = NoVal
    BY <1>1, <2>4, Present
  <2>6. Abstract!Present = {}
    BY <2>5, MapIs DEF Abstract!Present
  <2>7. Abstract!Random
    BY <2>1, <2>2, <2>6 DEF Abstract!Random
  <2>8. Abstract!Calls("dictGetRandomKey")
    BY <2>1 DEF Abstract!Calls
  <2>9. QED BY <2>2, <2>7, <2>8 DEF MapStep, Abstract!Next
<1>3. CASE d.ht[0].used + d.ht[1].used # 0
  <2>1. d' = dd /\ UNCHANGED <<canResize, iter, cursor>>
    BY <1>3 DEF DictGetRandomKey
  <2>2. PICK t \in InUse(dd) : \E b \in DOMAIN dd.ht[t].table :
               \E n \in DOMAIN dd.ht[t].table[b] :
                 reply' = [op |-> "dictGetRandomKey", key |-> dd.ht[t].table[b][n].key]
    BY <1>3 DEF DictGetRandomKey
  <2> HIDE DEF dd
  <2>3. PICK b \in DOMAIN dd.ht[t].table : \E n \in DOMAIN dd.ht[t].table[b] :
                 reply' = [op |-> "dictGetRandomKey", key |-> dd.ht[t].table[b][n].key]
    BY <2>2
  <2>4. PICK n \in DOMAIN dd.ht[t].table[b] :
                 reply' = [op |-> "dictGetRandomKey", key |-> dd.ht[t].table[b][n].key]
    BY <2>3
  <2>5. t \in {0, 1} /\ TableFits(dd.ht[t])
    BY <1>1 DEF InUse, DictFits
  <2>6. b \in 0..dd.ht[t].size - 1
    BY <2>5 DEF TableFits
  <2> DEFINE k == dd.ht[t].table[b][n].key
  <2>7. k \in Keys /\ In(dd.ht[t], k) # NoVal
    BY <2>5, <2>6, EntryIn, NothingAssumption
  <2> HIDE DEF k
  <2>8. Value(d, k) # NoVal
    BY <1>1, <2>5, <2>7, Present
  <2>9. k \in Abstract!Present
    BY <2>7, <2>8, MapIs
  <2>10. DictInv' /\ Map' = Map
    BY <1>1, <2>1, InvRearranged DEF DictInv
  <2>11. reply' = [op |-> "dictGetRandomKey", key |-> k]
    BY <2>4 DEF k
  <2>12. Abstract!Random
    BY <2>1, <2>9, <2>10, <2>11 DEF Abstract!Random
  <2>13. Abstract!Calls("dictGetRandomKey")
    BY <2>11 DEF Abstract!Calls
  <2>14. QED BY <2>10, <2>12, <2>13 DEF MapStep, Abstract!Next
<1>4. QED BY <1>2, <1>3

LEMMA NoDictFits == DictFits(NoDict) /\ \A k \in Keys : Value(NoDict, k) = NoVal
<1>1. /\ TableFits(NoTable) /\ NoTable \in Tables /\ NoTable.size = 0
      /\ \A k \in Keys : In(NoTable, k) = NoVal
  BY NoTableFits, NewTableFits DEF TableFits
<1>2. /\ NoDict \in Dicts /\ NoDict.ht[0] = NoTable /\ NoDict.ht[1] = NoTable
      /\ NoDict.rehashidx = -1
  BY <1>1 DEF NoDict, Dicts
<1>3. ~IsRehashing(NoDict) /\ NoDict.rehashidx \in -1..NoDict.ht[0].size
      /\ 0..NoDict.rehashidx - 1 = {}
  BY <1>1, <1>2 DEF IsRehashing
<1>4. DictFits(NoDict)
  BY <1>1, <1>2, <1>3 DEF DictFits
<1>5. QED BY <1>1, <1>2, <1>4, Present

LEMMA DictEmptyStep ==
  ASSUME ~EmptiesEarly, DictInv, DictEmpty
  PROVE  DictInv' /\ MapStep
<1>1. /\ \A i \in Iters : iter[i] = NoIter
      /\ d' = NoDict /\ reply' = [op |-> "dictEmpty"] /\ UNCHANGED <<canResize, iter, cursor>>
  BY DEF DictEmpty
<1>2. {i \in Iters : Started(i)} = {}
  BY <1>1 DEF Started, NoIter
<1>3. d.iterators = 0
  BY <1>2, FS_EmptySet DEF DictInv, IteratorsCounted
<1>4. DictFits(d') /\ d'.iterators = 0 /\ \A k \in Keys : Value(d', k) = NoVal
  BY <1>1, NoDictFits DEF NoDict
<1>5. ASSUME NEW i \in Iters PROVE IterFits(d', iter[i], cursor'[i])
  <2>1. iter[i].index = -1 /\ IterFits(d, iter[i], cursor[i])
    BY <1>1 DEF NoIter, DictInv
  <2>2. QED BY <1>1, <2>1, IterIdle
<1>6. DictInv'
  BY <1>1, <1>3, <1>4, <1>5, InvKept DEF DictInv
<1>7. Map' = [k \in Keys |-> NoVal]
  BY <1>4 DEF Map
<1>8. Abstract!Empty
  BY <1>1, <1>7 DEF Abstract!Empty
<1>9. Abstract!Calls("dictEmpty")
  BY <1>1 DEF Abstract!Calls
<1>10. QED BY <1>6, <1>8, <1>9 DEF MapStep, Abstract!Next

(* dictExpand, dictResize, dictRehash and the switch for resizing.           *)
LEMMA ReorganiseStep ==
  ASSUME DictInv, Rearranged(d, d'), canResize' \in BOOLEAN, reply' = NoReply,
         UNCHANGED <<iter, cursor>>
  PROVE  DictInv' /\ MapStep
<1>1. DictInv' /\ Map' = Map
  BY InvRearranged
<1>2. Abstract!Reorganise
  BY <1>1 DEF Abstract!Reorganise, NoReply
<1>3. Abstract!Calls("none")
  BY DEF Abstract!Calls, NoReply
<1>4. QED BY <1>1, <1>2, <1>3 DEF MapStep, Abstract!Next

LEMMA DictExpandStep ==
  ASSUME DictInv, NEW n \in ExpandSizes, DictExpand(n)
  PROVE  DictInv' /\ MapStep
<1>1. n \in Nat /\ DictFits(d)
  BY CallsAssumption DEF DictInv
<1>2. Rearranged(d, d')
  BY <1>1, ExpandFits DEF DictExpand
<1>3. QED BY <1>2, ReorganiseStep DEF DictExpand, DictInv

LEMMA DictResizeStep ==
  ASSUME DictInv, DictResize
  PROVE  DictInv' /\ MapStep
<1>1. DictFits(d) /\ Larger(d.ht[0].used, InitialSize) \in Nat
  <2>1. d.ht[0].used \in Nat
    BY DictType, TableType DEF DictInv, DictFits
  <2>2. QED BY <2>1, SizeAssumption DEF DictInv, Larger
<1>2. d' = d \/ d' = Expand(d, Larger(d.ht[0].used, InitialSize))
  BY DEF DictResize
<1>3. Rearranged(d, d')
  <2>1. Rearranged(d, Expand(d, Larger(d.ht[0].used, InitialSize)))
    BY <1>1, ExpandFits
  <2>2. Rearranged(d, d)
    BY <1>1, RearrangedSame
  <2>3. QED BY <1>2, <2>1, <2>2
<1>4. QED BY <1>3, ReorganiseStep DEF DictResize, DictInv

LEMMA DictEnableResizeStep ==
  ASSUME DictInv, NEW can \in BOOLEAN, DictEnableResize(can)
  PROVE  DictInv' /\ MapStep
<1>1. Rearranged(d, d')
  BY RearrangedSame DEF DictEnableResize, DictInv
<1>2. QED BY <1>1, ReorganiseStep DEF DictEnableResize

LEMMA DictRehashStep ==
  ASSUME DictInv, NEW n \in RehashSteps, DictRehash(n)
  PROVE  DictInv' /\ MapStep
<1>1. n \in Nat /\ DictFits(d) /\ d.iterators = 0 /\ d' = RehashRounds(d, n)
  BY CallsAssumption DEF DictRehash, DictInv
<1>2. Rearranged(d, d')
  BY <1>1, RoundsFit DEF Rearranged
<1>3. QED BY <1>2, ReorganiseStep DEF DictRehash, DictInv

(* Iterators come and go.                                                    *)
LEMMA DictGetIteratorStep ==
  ASSUME DictInv, NEW i \in Iters, DictGetIterator(i)
  PROVE  DictInv' /\ MapStep
<1> DEFINE new == [NoIter EXCEPT !.live = TRUE]
<1>1. /\ ~iter[i].live /\ iter' = [iter EXCEPT ![i] = new]
      /\ reply' = NoReply /\ UNCHANGED <<d, canResize, cursor>>
  BY DEF DictGetIterator
<1>2. /\ new \in Iterators /\ new.index = -1 /\ new.table = 0 /\ new.entry = NoKey
      /\ new.next = NoKey
  <2>1. NoIter \in Iterators
    BY DEF Iterators, NoIter
  <2>2. new \in Iterators /\ new.index = NoIter.index /\ new.table = NoIter.table
        /\ new.entry = NoIter.entry /\ new.next = NoIter.next
    BY <2>1 DEF Iterators
  <2>3. QED BY <2>2 DEF NoIter
<1> HIDE DEF new
<1>3. /\ DictFits(d) /\ canResize \in BOOLEAN /\ iter \in [Iters -> Iterators]
      /\ cursor \in [Iters -> Cursors] /\ \A j \in Iters : IterFits(d, iter[j], cursor[j])
  BY DEF DictInv
<1>4. iter[i].index = -1 /\ cursor[i] = NoCursor
  BY <1>1, <1>3 DEF IterFits
<1>5. iter' \in [Iters -> Iterators] /\ iter'[i] = new /\ \A j \in Iters : j # i => iter'[j] = iter[j]
  BY <1>1, <1>2, <1>3
<1>6. ASSUME NEW j \in Iters PROVE IterFits(d', iter'[j], cursor'[j]) /\ (Started(j)' <=> Started(j))
  <2>1. CASE j = i
    <3>1. cursor[j] \in Cursors
      BY <1>3
    <3>2. IterFits(d, new, NoCursor)
      BY <1>2, <1>4, <2>1, <3>1 DEF IterFits, Under
    <3>3. QED BY <1>1, <1>2, <1>4, <1>5, <2>1, <3>2 DEF Started
  <2>2. CASE j # i
    BY <1>1, <1>3, <1>5, <2>2 DEF Started
  <2>3. QED BY <2>1, <2>2
<1>7. {j \in Iters : Started(j)}' = {j \in Iters : Started(j)}
  BY <1>6
<1>8. IsFiniteSet({j \in Iters : Started(j)})' /\ IteratorsCounted'
  BY <1>1, <1>7 DEF DictInv, IteratorsCounted
<1>9. DictInv'
  BY <1>1, <1>3, <1>5, <1>6, <1>8 DEF DictInv
<1>10. Map' = Map
  BY <1>1 DEF Map
<1>11. Abstract!Reorganise
  BY <1>1, <1>10 DEF Abstract!Reorganise, NoReply
<1>12. Abstract!Calls("none")
  BY <1>1 DEF Abstract!Calls, NoReply
<1>13. QED BY <1>9, <1>11, <1>12 DEF MapStep, Abstract!Next

LEMMA DictReleaseIteratorStep ==
  ASSUME DictInv, NEW i \in Iters, DictReleaseIterator(i)
  PROVE  DictInv' /\ MapStep
<1>1. /\ iter[i].live
      /\ d' = IF iter[i].index = -1 /\ iter[i].table = 0 THEN d ELSE [d EXCEPT !.iterators = @ - 1]
      /\ iter' = [iter EXCEPT ![i] = NoIter] /\ cursor' = [cursor EXCEPT ![i] = NoCursor]
      /\ reply' = [op |-> "dictReleaseIterator"] /\ UNCHANGED canResize
  BY DEF DictReleaseIterator
<1>2. /\ NoIter \in Iterators /\ NoIter.index = -1 /\ NoIter.table = 0 /\ NoIter.entry = NoKey
      /\ NoIter.next = NoKey /\ ~NoIter.live /\ NoCursor \in Cursors
  BY DEF Iterators, NoIter, Cursors, NoCursor
<1>3. /\ DictFits(d) /\ canResize \in BOOLEAN /\ iter \in [Iters -> Iterators]
      /\ cursor \in [Iters -> Cursors] /\ \A j \in Iters : IterFits(d, iter[j], cursor[j])
      /\ d.iterators \in Int
  BY DictType DEF DictInv, DictFits
<1>4. iter[i].index = -1 => iter[i].table = 0
  BY <1>3 DEF IterFits
<1>5. /\ iter' \in [Iters -> Iterators] /\ iter'[i] = NoIter
      /\ \A j \in Iters : j # i => iter'[j] = iter[j]
      /\ cursor' \in [Iters -> Cursors] /\ cursor'[i] = NoCursor
      /\ \A j \in Iters : j # i => cursor'[j] = cursor[j]
  BY <1>1, <1>2, <1>3
<1>6. /\ DictFits(d') /\ Keeps(d, d', {}) /\ \A k \in Keys : Value(d', k) = Value(d, k)
      /\ d'.iterators = IF iter[i].index = -1 THEN d.iterators ELSE d.iterators - 1
  <2>1. CASE iter[i].index = -1
    <3>1. d' = d
      BY <1>1, <1>4, <2>1
    <3>2. QED BY <1>3, <2>1, <3>1 DEF Keeps
  <2>2. CASE iter[i].index # -1
    <3>1. d' = [d EXCEPT !.iterators = d.iterators - 1] /\ d.iterators - 1 \in Int
      BY <1>1, <1>3, <2>2
    <3>2. QED BY <1>3, <2>2, <3>1, CounterFits
  <2>3. QED BY <2>1, <2>2
<1>7. ASSUME NEW j \in Iters
      PROVE  IterFits(d', iter'[j], cursor'[j]) /\ (Started(j)' <=> Started(j) /\ j # i)
  <2>1. CASE j = i
    <3>1. IterFits(d', NoIter, NoCursor)
      BY <1>2 DEF IterFits, Under
    <3>2. QED BY <1>2, <1>5, <2>1, <3>1 DEF Started
  <2>2. CASE j # i
    <3>1. IterFits(d', iter[j], cursor[j])
      BY <1>3, <1>6, IterAssigned
    <3>2. QED BY <1>5, <2>2, <3>1 DEF Started
  <2>3. QED BY <2>1, <2>2
<1>8. IsFiniteSet({j \in Iters : Started(j)})' /\ IteratorsCounted'
  <2>1. {j \in Iters : Started(j)}' = {j \in Iters : Started(j)} \ {i}
    BY <1>7
  <2>2. IsFiniteSet({j \in Iters : Started(j)}) /\ d.iterators = Cardinality({j \in Iters : Started(j)})
    BY DEF DictInv, IteratorsCounted
  <2>3. i \in {j \in Iters : Started(j)} <=> iter[i].index # -1
    BY <1>1 DEF Started
  <2> DEFINE S == {j \in Iters : Started(j)}
  <2> HIDE DEF S
  <2>4. IsFiniteSet(S \ {i}) /\ Cardinality(S \ {i}) = IF i \in S THEN Cardinality(S) - 1 ELSE Cardinality(S)
    BY <2>2, FS_RemoveElement DEF S
  <2>5. IsFiniteSet({j \in Iters : Started(j)}') /\ d'.iterators = Cardinality({j \in Iters : Started(j)}')
    BY <1>6, <2>1, <2>2, <2>3, <2>4 DEF S
  <2>6. QED BY <2>5 DEF IteratorsCounted
<1>9. DictInv'
  BY <1>1, <1>3, <1>5, <1>6, <1>7, <1>8 DEF DictInv
<1>10. Map' = Map
  BY <1>6 DEF Map
<1>11. Abstract!Release(i)
  BY <1>1, <1>10 DEF Abstract!Release, Abstract!NoCursor, NoCursor
<1>12. Abstract!Calls("dictReleaseIterator")
  BY <1>1 DEF Abstract!Calls
<1>13. QED BY <1>9, <1>11, <1>12 DEF MapStep, Abstract!Next

Opening == [open |-> TRUE, stable |-> {k \in Keys : Map[k] # NoVal}, returned |-> {}]

LEMMA OpeningReady ==
  ASSUME DictInv, NEW it \in Iterators, it.index = -1, it.table = 0, it.next = NoKey
  PROVE  Opening \in Cursors /\ Opening.open /\ Ready(it, Opening)
<1>1. Opening \in Cursors /\ Opening.open /\ Opening.returned = {}
      /\ Opening.stable = {k \in Keys : Map[k] # NoVal}
  BY DEF Opening, Cursors
<1>2. DictFits(d)
  BY DEF DictInv
<1>3. ASSUME NEW k \in Keys, Value(d, k) # NoVal PROVE ToCome(d, it, k)
  <2>1. PICK t \in {0, 1} : In(d.ht[t], k) # NoVal
    BY <1>2, <1>3, Present
  <2>2. Bucket(d.ht[t], k) \in Nat
    <3>1. TableFits(d.ht[t]) /\ d.ht[t].size # 0
      BY <1>2, <2>1, InType DEF DictFits
    <3>2. Bucket(d.ht[t], k) \in 0..d.ht[t].size - 1
      BY <3>1, ChainIn
    <3>3. QED BY <3>2
  <2>3. t > it.table \/ (t = it.table /\ Bucket(d.ht[t], k) > it.index)
    BY <2>2
  <2>4. QED BY <2>1, <2>3 DEF ToCome, Later
<1>4. Ready(it, Opening)
  BY <1>1, <1>3, MapIs DEF Ready
<1>5. QED BY <1>1, <1>4

LEMMA DictNextStep ==
  ASSUME DictInv, NEW i \in Iters, DictNext(i)
  PROVE  DictInv' /\ MapStep
<1> DEFINE it    == iter[i]
           first == it.index = -1 /\ it.table = 0
           now   == Advanced(it)
           c     == IF first THEN Opening ELSE cursor[i]
<1>1. /\ it.live /\ (first \/ it.entry # NoKey)
      /\ iter' = [iter EXCEPT ![i] = now]
      /\ d' = IF first THEN [d EXCEPT !.iterators = @ + 1] ELSE d
      /\ cursor' = [cursor EXCEPT ![i] = Returns(c, now.entry)]
      /\ reply' = [op |-> "dictNext", iter |-> i, key |-> now.entry]
      /\ UNCHANGED canResize
  BY DEF DictNext, Returns, Opening
<1>2. /\ DictFits(d) /\ canResize \in BOOLEAN /\ iter \in [Iters -> Iterators]
      /\ cursor \in [Iters -> Cursors] /\ \A j \in Iters : IterFits(d, iter[j], cursor[j])
      /\ d.iterators \in Int /\ it \in Iterators
  BY DictType DEF DictInv, DictFits
<1>3. IterFits(d, it, cursor[i])
  BY <1>2
<1>4. /\ c \in Cursors /\ c.open /\ Ready(it, c)
      /\ it.next # NoKey => /\ it.index \in 0..d.ht[it.table].size - 1
                            /\ Chained(d.ht[it.table].table[it.index], it.next)
  <2>1. CASE first
    <3>1. it.next = NoKey
      BY <1>3, <2>1 DEF IterFits
    <3>2. QED BY <1>2, <2>1, <3>1, OpeningReady
  <2>2. CASE ~first
    <3>1. it.entry # NoKey /\ it.index # -1 /\ Under(it) /\ c = cursor[i]
      BY <1>1, <1>3, <2>2 DEF IterFits, Under
    <3>2. it.index >= 0 /\ it.index < d.ht[it.table].size /\ c.open /\ c \in Cursors
          /\ (it.next # NoKey => Chained(d.ht[it.table].table[it.index], it.next))
      BY <1>3, <3>1 DEF IterFits
    <3>3. Ready(it, c)
      BY <1>3, <3>1 DEF IterFits, Ready
    <3>4. it.index \in Int /\ d.ht[it.table].size \in Nat
      <4>1. it.table \in {0, 1} /\ it.index \in Int
        BY <1>2, IterType
      <4>2. QED BY <1>2, <4>1, DictType, TableType DEF DictFits
    <3>5. it.index \in 0..d.ht[it.table].size - 1
      BY <3>2, <3>4
    <3>6. QED BY <3>2, <3>3, <3>5
  <2>3. QED BY <2>1, <2>2
<1>5. first <=> it.index = -1
  BY <1>3 DEF IterFits
<1> HIDE DEF it, first, c
<1>6. /\ IterFits(d, now, Returns(c, now.entry)) /\ now.index # -1 /\ now.live
      /\ \/ /\ now.entry \in Keys /\ now.entry # NoKey
            /\ Value(d, now.entry) # NoVal /\ now.entry \notin c.returned
         \/ now.entry = NoKey /\ Returns(c, NoKey) = c /\ c.stable \subseteq c.returned
  BY <1>1, <1>2, <1>4, AdvancedFits
<1> HIDE DEF now
<1>7. now \in Iterators /\ Returns(c, now.entry) \in Cursors
  BY <1>6 DEF IterFits
<1>8. /\ iter' \in [Iters -> Iterators] /\ iter'[i] = now
      /\ \A j \in Iters : j # i => iter'[j] = iter[j]
      /\ cursor' \in [Iters -> Cursors] /\ cursor'[i] = Returns(c, now.entry)
      /\ \A j \in Iters : j # i => cursor'[j] = cursor[j]
  BY <1>1, <1>2, <1>7
<1>9. /\ DictFits(d') /\ Keeps(d, d', {}) /\ \A k \in Keys : Value(d', k) = Value(d, k)
      /\ d'.iterators = IF first THEN d.iterators + 1 ELSE d.iterators
  <2>1. CASE first
    <3>1. d' = [d EXCEPT !.iterators = d.iterators + 1] /\ d.iterators + 1 \in Int
      BY <1>1, <1>2, <2>1
    <3>2. QED BY <1>2, <2>1, <3>1, CounterFits
  <2>2. CASE ~first
    <3>1. d' = d
      BY <1>1, <2>2
    <3>2. QED BY <1>2, <2>2, <3>1 DEF Keeps
  <2>3. QED BY <2>1, <2>2
<1>10. ASSUME NEW j \in Iters
       PROVE  IterFits(d', iter'[j], cursor'[j]) /\ (Started(j)' <=> Started(j) \/ j = i)
  <2>1. CASE j = i
    <3>1. IterFits(d', now, Returns(c, now.entry))
      BY <1>2, <1>6, <1>9, IterAssigned
    <3>2. QED BY <1>6, <1>8, <2>1, <3>1 DEF Started
  <2>2. CASE j # i
    <3>1. IterFits(d', iter[j], cursor[j])
      BY <1>2, <1>9, IterAssigned
    <3>2. QED BY <1>8, <2>2, <3>1 DEF Started
  <2>3. QED BY <2>1, <2>2
<1>11. IsFiniteSet({j \in Iters : Started(j)})' /\ IteratorsCounted'
  <2>1. {j \in Iters : Started(j)}' = {j \in Iters : Started(j)} \cup {i}
    BY <1>10
  <2>2. IsFiniteSet({j \in Iters : Started(j)}) /\ d.iterators = Cardinality({j \in Iters : Started(j)})
    BY DEF DictInv, IteratorsCounted
  <2>3. i \in {j \in Iters : Started(j)} <=> ~first
    BY <1>1, <1>5 DEF Started, it
  <2> DEFINE S == {j \in Iters : Started(j)}
  <2> HIDE DEF S
  <2>4. IsFiniteSet(S \cup {i}) /\ Cardinality(S \cup {i}) = IF i \in S THEN Cardinality(S) ELSE Cardinality(S) + 1
    BY <2>2, FS_AddElement DEF S
  <2>5. IsFiniteSet({j \in Iters : Started(j)}') /\ d'.iterators = Cardinality({j \in Iters : Started(j)}')
    BY <1>9, <2>1, <2>2, <2>3, <2>4 DEF S
  <2>6. QED BY <2>5 DEF IteratorsCounted
<1>12. DictInv'
  BY <1>1, <1>2, <1>8, <1>9, <1>10, <1>11 DEF DictInv
<1>13. Map' = Map
  BY <1>9 DEF Map
<1>14. c = Abstract!Opened(cursor[i])
  <2>1. CASE first
    <3>1. cursor[i] = NoCursor
      BY <1>3, <1>5, <2>1 DEF IterFits
    <3>2. Abstract!Present = {k \in Keys : Map[k] # NoVal}
      BY DEF Abstract!Present, Abstract!IsIn
    <3>3. QED BY <2>1, <3>1, <3>2 DEF c, Opening, Abstract!Opened, NoCursor
  <2>2. CASE ~first
    <3>1. cursor[i].open
      BY <1>3, <1>5, <2>2 DEF IterFits
    <3>2. QED BY <2>2, <3>1 DEF c, Abstract!Opened
  <2>3. QED BY <2>1, <2>2
<1>15. Abstract!NextKey(i)
  <2>1. CASE now.entry # NoKey
    <3>1. now.entry \in Abstract!Present \ c.returned
      BY <1>6, <2>1, MapIs
    <3>2. Returns(c, now.entry) = [c EXCEPT !.returned = @ \cup {now.entry}]
      <4>1. {now.entry} \ {NoKey} = {now.entry}
        BY <2>1
      <4>2. QED BY <4>1 DEF Returns
    <3>3. cursor' = [cursor EXCEPT ![i] = [c EXCEPT !.returned = @ \cup {now.entry}]]
      BY <1>1, <3>2
    <3>4. QED BY <1>1, <1>13, <1>14, <3>1, <3>3 DEF Abstract!NextKey
  <2>2. CASE now.entry = NoKey
    <3>1. cursor' = [cursor EXCEPT ![i] = c] /\ c.stable \subseteq c.returned
      BY <1>1, <1>6, <2>2, NothingAssumption
    <3>2. QED BY <1>1, <1>13, <1>14, <2>2, <3>1 DEF Abstract!NextKey
  <2>3. QED BY <2>1, <2>2
<1>16. Abstract!Calls("dictNext")
  BY <1>1 DEF Abstract!Calls
<1>17. QED BY <1>12, <1>15, <1>16 DEF MapStep, Abstract!Next

-----------------------------------------------------------------------------
(* The invariant holds in every state.                                       *)
LEMMA InitInv == Init => DictInv
<1>1. SUFFICES ASSUME Init PROVE DictInv
  OBVIOUS
<1>2. /\ NoIter \in Iterators /\ NoIter.index = -1 /\ NoIter.table = 0 /\ NoIter.entry = NoKey
      /\ NoIter.next = NoKey /\ ~NoIter.live /\ NoCursor \in Cursors
  BY DEF Iterators, NoIter, Cursors, NoCursor
<1>3. /\ iter \in [Iters -> Iterators] /\ cursor \in [Iters -> Cursors]
      /\ \A i \in Iters : iter[i] = NoIter /\ cursor[i] = NoCursor
  BY <1>1, <1>2 DEF Init
<1>4. DictFits(d) /\ d.iterators = 0 /\ canResize \in BOOLEAN
  BY <1>1, NoDictFits DEF Init, NoDict
<1>5. ASSUME NEW i \in Iters PROVE IterFits(d, iter[i], cursor[i]) /\ ~Started(i)
  BY <1>2, <1>3 DEF IterFits, Under, Started
<1>6. {i \in Iters : Started(i)} = {}
  BY <1>5
<1>7. IsFiniteSet({i \in Iters : Started(i)}) /\ IteratorsCounted
  BY <1>4, <1>6, FS_EmptySet DEF IteratorsCounted
<1>8. QED BY <1>3, <1>4, <1>5, <1>7 DEF DictInv

LEMMA NextStep ==
  ASSUME ~EmptiesEarly, DictInv, [Next]_vars
  PROVE  DictInv' /\ MapStep
<1>1. CASE Next
  <2>1. CASE \E k \in Keys, v \in Vals : DictAdd(k, v) \/ DictReplace(k, v)
    BY <2>1, DictAddStep, DictReplaceStep
  <2>2. CASE \E k \in Keys : DictDelete(k) \/ DictFetchValue(k)
    BY <2>2, DictDeleteStep, DictFetchStep
  <2>3. CASE DictGetRandomKey
    BY <2>3, DictGetRandomKeyStep
  <2>4. CASE DictEmpty
    BY <2>4, DictEmptyStep
  <2>5. CASE DictResize
    BY <2>5, DictResizeStep
  <2>6. CASE \E n \in ExpandSizes : DictExpand(n)
    BY <2>6, DictExpandStep
  <2>7. CASE \E n \in RehashSteps : DictRehash(n)
    BY <2>7, DictRehashStep
  <2>8. CASE \E can \in BOOLEAN : DictEnableResize(can)
    BY <2>8, DictEnableResizeStep
  <2>9. CASE \E i \in Iters : DictGetIterator(i) \/ DictNext(i) \/ DictReleaseIterator(i)
    BY <2>9, DictGetIteratorStep, DictNextStep, DictReleaseIteratorStep
  <2>10. QED BY <1>1, <2>1, <2>2, <2>3, <2>4, <2>5, <2>6, <2>7, <2>8, <2>9 DEF Next
<1>2. CASE UNCHANGED vars
  <2>1. /\ d' = d /\ canResize' = canResize /\ iter' = iter /\ cursor' = cursor
        /\ reply' = reply
    BY <1>2 DEF vars
  <2>2. Rearranged(d, d')
    BY <2>1, RearrangedSame DEF DictInv
  <2>3. DictInv' /\ Map' = Map
    BY <2>1, <2>2, InvRearranged DEF DictInv
  <2>4. QED BY <2>1, <2>3 DEF MapStep, Abstract!vars
<1>3. QED BY <1>1, <1>2

LEMMA InvHolds == ASSUME ~EmptiesEarly PROVE Spec => []DictInv
<1>1. DictInv /\ [Next]_vars => DictInv'
  BY NextStep
<1>2. QED BY InitInv, <1>1, PTL DEF Spec

-----------------------------------------------------------------------------
(* What the invariant says of a state.                                       *)
LEMMA Placed ==
  ASSUME DictInv, NEW k \in Keys
  PROVE  /\ Cardinality(Spots(k)) <= 1
         /\ \A p \in Spots(k) : p[2] = Bucket(d.ht[p[1]], k)
<1>1. DictFits(d)
  BY DEF DictInv
<1>2. ASSUME NEW p \in Spots(k)
      PROVE  /\ p = <<p[1], p[2], p[3]>> /\ p[1] \in {0, 1} /\ p[2] \in 0..d.ht[p[1]].size - 1
             /\ p[3] \in DOMAIN d.ht[p[1]].table[p[2]]
             /\ d.ht[p[1]].table[p[2]][p[3]].key = k
  <2> DEFINE At(t, b) == {<<t, b, n>> : n \in {n \in DOMAIN d.ht[t].table[b] :
                                                d.ht[t].table[b][n].key = k}}
             InTable(t) == UNION {At(t, b) : b \in DOMAIN d.ht[t].table}
  <2>a. Spots(k) = UNION {InTable(t) : t \in {0, 1}}
    BY DEF Spots
  <2>b. ASSUME NEW t \in {0, 1}, NEW b \in DOMAIN d.ht[t].table, p \in At(t, b)
        PROVE  \E n \in DOMAIN d.ht[t].table[b] : d.ht[t].table[b][n].key = k /\ p = <<t, b, n>>
    BY <2>b
  <2> HIDE DEF At
  <2>c. ASSUME NEW t \in {0, 1}, p \in InTable(t)
        PROVE  \E b \in DOMAIN d.ht[t].table : p \in At(t, b)
    BY <2>c
  <2> HIDE DEF InTable
  <2>d. \E t \in {0, 1} : p \in InTable(t)
    BY <2>a
  <2>1. PICK t \in {0, 1} : \E b \in DOMAIN d.ht[t].table :
             \E n \in DOMAIN d.ht[t].table[b] : d.ht[t].table[b][n].key = k /\ p = <<t, b, n>>
    BY <2>b, <2>c, <2>d
  <2>2. PICK b \in DOMAIN d.ht[t].table :
             \E n \in DOMAIN d.ht[t].table[b] : d.ht[t].table[b][n].key = k /\ p = <<t, b, n>>
    BY <2>1
  <2>3. PICK n \in DOMAIN d.ht[t].table[b] : d.ht[t].table[b][n].key = k /\ p = <<t, b, n>>
    BY <2>2
  <2>4. DOMAIN d.ht[t].table = 0..d.ht[t].size - 1
    BY <1>1 DEF DictFits, TableFits
  <2>5. QED BY <2>2, <2>3, <2>4
<1>3. ASSUME NEW p \in Spots(k)
      PROVE  /\ TableFits(d.ht[p[1]]) /\ In(d.ht[p[1]], k) # NoVal /\ p[2] = Bucket(d.ht[p[1]], k)
             /\ p[3] = Position(d.ht[p[1]].table[p[2]], k)
  <2> DEFINE t == p[1]
             b == p[2]
             n == p[3]
  <2>1. /\ t \in {0, 1} /\ b \in 0..d.ht[t].size - 1 /\ n \in DOMAIN d.ht[t].table[b]
        /\ d.ht[t].table[b][n].key = k
    BY <1>2
  <2> HIDE DEF t, b, n
  <2>2. TableFits(d.ht[t])
    BY <1>1, <2>1 DEF DictFits
  <2>3. /\ In(d.ht[t], k) # NoVal /\ b = Bucket(d.ht[t], k)
        /\ n = Position(d.ht[t].table[b], k)
    BY <2>1, <2>2, EntryIn, NothingAssumption
  <2>4. QED BY <2>2, <2>3 DEF t, b, n
<1>4. ASSUME NEW p \in Spots(k), NEW q \in Spots(k) PROVE p = q
  <2>1. In(d.ht[0], k) = NoVal \/ In(d.ht[1], k) = NoVal
    BY <1>1 DEF DictFits
  <2>2. p[1] = q[1]
    BY <1>2, <1>3, <2>1
  <2>3. p[2] = q[2]
    BY <1>3, <2>2
  <2>4. p[3] = q[3]
    BY <1>3, <2>2, <2>3
  <2>5. p = <<p[1], p[2], p[3]>> /\ q = <<q[1], q[2], q[3]>>
    BY <1>2
  <2>6. QED BY <2>2, <2>3, <2>4, <2>5
<1>5. Cardinality(Spots(k)) <= 1
  <2>1. CASE Spots(k) = {}
    BY <2>1, FS_EmptySet
  <2>2. CASE Spots(k) # {}
    <3>1. PICK p \in Spots(k) : TRUE
      BY <2>2
    <3>2. Spots(k) = {p}
      BY <1>4
    <3>3. Cardinality({p}) = 1
      BY FS_Singleton
    <3>4. QED BY <3>2, <3>3
  <2>3. QED BY <2>1, <2>2
<1>6. QED BY <1>3, <1>5

LEMMA InvSound == DictInv => TableSound
<1>1. SUFFICES ASSUME DictInv PROVE TableSound
  OBVIOUS
<1>2. /\ DictFits(d) /\ d \in Dicts /\ TableFits(d.ht[0]) /\ TableFits(d.ht[1])
      /\ d.ht[0].size \in Nat /\ d.ht[1].size \in Nat
  BY <1>1, DictType, TableType DEF DictInv, DictFits
<1>3. ASSUME NEW t \in {0, 1} PROVE IsTable(d.ht[t])
  <2>1. /\ d.ht[t] \in Tables /\ d.ht[t].size \in Nat /\ d.ht[t].used \in Nat
        /\ d.ht[t].table \in [0..d.ht[t].size - 1 -> Chains]
    BY <1>2, TableType DEF TableFits
  <2>2. DOMAIN d.ht[t].table = 0..d.ht[t].size - 1
    BY <2>1
  <2>3. d.ht[t].size = 0 => 0..d.ht[t].size - 1 = {}
    OBVIOUS
  <2>4. \A b \in DOMAIN d.ht[t].table : d.ht[t].table[b] \in Seq(Entries)
    BY <2>1, <2>2 DEF Chains
  <2>5. QED BY <2>1, <2>2, <2>3, <2>4 DEF IsTable
<1>4. TypeOK
  <2>1. /\ d.rehashidx \in -1..d.ht[0].size /\ d.iterators \in Int
        /\ IsRehashing(d) <=> d.ht[1].size > 0
    BY <1>2, DictType DEF DictFits
  <2>2. \A i \in Iters : iter[i].table \in {0, 1} /\ iter[i].entry \in Keys \cup {NoKey}
    BY <1>1, IterType DEF DictInv
  <2>3. Placement
    BY <1>1, Placed DEF Placement
  <2>4. canResize \in BOOLEAN /\ IteratorsCounted
    BY <1>1 DEF DictInv
  <2>5. QED BY <1>3, <2>1, <2>2, <2>3, <2>4 DEF TypeOK
<1>5. ScanInBounds
  <2>1. SUFFICES ASSUME IsRehashing(d)
        PROVE  /\ \A b \in 0..d.rehashidx - 1 : d.ht[0].table[b] = << >>
               /\ d.ht[0].used > 0 =>
                    \E b \in d.rehashidx..d.ht[0].size - 1 : d.ht[0].table[b] # << >>
    BY DEF ScanInBounds
  <2>2. d.ht[0].used > 0 => d.ht[0].used # 0
    OBVIOUS
  <2>3. QED BY <1>2, <2>1, <2>2, NextBucketIn DEF DictFits
<1>6. SavedNextLive
  <2>1. SUFFICES ASSUME NEW i \in Iters, iter[i].next # NoKey
                 PROVE  Chained(d.ht[iter[i].table].table[iter[i].index], iter[i].next)
    BY DEF SavedNextLive
  <2>2. IterFits(d, iter[i], cursor[i])
    BY <1>1 DEF DictInv
  <2>3. Under(iter[i])
    BY <2>1, <2>2, NotUnder
  <2>4. QED BY <2>1, <2>2, <2>3 DEF IterFits
<1>7. QED BY <1>4, <1>5, <1>6 DEF TableSound

(* In every state entries are where lookups search, the scan for the next    *)
(* bucket ends inside the table, and iterators stand on entries that are     *)
(* there: whatever the calls, when callers do not empty the dict under an     *)
(* iterator.                                                                 *)
THEOREM TableStaysSound == ASSUME ~EmptiesEarly PROVE Spec => []TableSound
  BY InvHolds, InvSound, PTL

LEMMA MapInit == Init => Abstract!Init
<1>1. SUFFICES ASSUME Init PROVE Abstract!Init
  OBVIOUS
<1>2. Map = [k \in Keys |-> NoVal]
  BY <1>1, NoDictFits DEF Init, Map
<1>3. cursor = [i \in Iters |-> Abstract!NoCursor] /\ reply = [op |-> "none"]
  BY <1>1 DEF Init, NoReply, NoCursor, Abstract!NoCursor
<1>4. QED BY <1>2, <1>3 DEF Abstract!Init

(* Every call replies what a map would, whatever expansion and rehashing are *)
(* under way, and an iterator returns every key that is there all along,     *)
(* once.                                                                     *)
THEOREM DictIsAMap == ASSUME ~EmptiesEarly PROVE Spec => IsAMap
<1>1. DictInv /\ [Next]_vars => MapStep
  BY NextStep
<1>2. DictInv /\ [Next]_vars => [Abstract!Next]_(Abstract!vars)
  BY <1>1 DEF MapStep
<1>3. QED BY MapInit, InvHolds, <1>2, PTL DEF Spec, IsAMap, Abstract!Spec

=============================================================================
