--------------------------------- MODULE BTree ---------------------------------
(***************************************************************************)
(* A B+ tree under every sequence of calls.  No function looks at the data,   *)
(* so a state has none of interest; where a property tells equal keys apart,  *)
(* the pairs of the tree are numbered first.                                 *)
(***************************************************************************)
EXTENDS BTreeNodes

CONSTANTS
  Keys,     \* the keys, integers
  MaxPairs    \* bound: pairs in the tree

VARIABLE bt

Init == bt = EmptyBTree

RECURSIVE ChainFrom(_, _, _)
(* The leaves as they are chained, steps of them at most.                    *)
ChainFrom(t, n, steps) ==
  IF n = NoNode \/ steps = 0 THEN << >> ELSE <<n>> \o ChainFrom(t, t.node[n].next, steps - 1)
Chain(t) == ChainFrom(t, t.head, Cardinality(DOMAIN t.node))

(* The pairs in the order of the leaves.                                     *)
Contents(t) ==
  FoldLeft(LAMBDA pairs, n : pairs \o t.node[n].pairs, << >>, Chain(t))

(* The iterators on pairs, in order.                                         *)
Spots(t) ==
  LET chain == Chain(t)
      In(n) == [i \in 1..SlotUse(t, n) |-> [leaf |-> n, slot |-> i - 1]]
  IN  FlattenSeq([i \in 1..Len(chain) |-> In(chain[i])])

Pair(k, d) == [key |-> k, data |-> d]

Insert(k) == bt.itemcount < MaxPairs /\ bt' = Renumbered(insert_start(bt, Pair(k, 0)))
EraseOne(k) == bt' = Renumbered(erase_one(bt, k))
EraseAll(k) == bt' = Renumbered(erase(bt, k))
EraseIter(it) == bt' = Renumbered(erase_iter(bt, it))

(* clear, and also what is left when an image cannot be read from its root.   *)
Clear == bt' = EmptyBTree

(* The program goes on with a copy of the tree, or with its image read back.  *)
Copy == bt' = Renumbered(copy(bt))
Restore == bt' = Renumbered(restore(bt))

Next ==
  \/ \E k \in Keys : Insert(k) \/ EraseOne(k) \/ EraseAll(k)
  \/ \E i \in 1..bt.itemcount : EraseIter(Spots(bt)[i])
  \/ Clear \/ Copy \/ Restore

Spec == Init /\ [][Next]_bt

-----------------------------------------------------------------------------
InKeyOrder(keys) == \A i \in 2..Len(keys) : keys[i - 1] <= keys[i]

KeysBelow(t, n) ==
  LET leaves == SelectSeq(Below(t, n), LAMBDA m : IsLeaf(t, m))
  IN  FlattenSeq([i \in 1..Len(leaves) |-> SlotKeys(t, leaves[i])])

(* The separators of an inner node: each is the last key on its left.        *)
Separates(t, n) ==
  \A slot \in 0..SlotUse(t, n) :
    LET keys == KeysBelow(t, Kid(t, n, slot))
    IN  /\ t.node[Kid(t, n, slot)].level + 1 = t.node[n].level
        /\ slot > 0 => t.node[n].keys[slot] <= Head(keys)
        /\ slot < SlotUse(t, n) => t.node[n].keys[slot + 1] = Last(keys)

(* What verify() asserts.  A node that underflows, a separator that is not    *)
(* the last key on its left, a chain of leaves that is not in the order of     *)
(* the tree, counts that are wrong, a node lost: none survives any sequence    *)
(* of insertions and erasures.                                               *)
BTreeVerified ==
  IF bt.root = NoNode THEN bt = EmptyBTree
  ELSE LET nodes == Below(bt, bt.root)
           leaves == SelectSeq(nodes, LAMBDA n : IsLeaf(bt, n))
       IN  /\ Range(nodes) = DOMAIN bt.node
           /\ \A n \in DOMAIN bt.node :
                /\ SlotUse(bt, n) > 0
                /\ n = bt.root \/ ~IsUnderflow(bt, n)
                /\ InKeyOrder(SlotKeys(bt, n))
                /\ IsLeaf(bt, n) \/ Separates(bt, n)
           /\ bt.head = Head(leaves) /\ bt.tail = Last(leaves)
           /\ \A i \in 1..Len(leaves) :
                /\ bt.node[leaves[i]].prev = IF i = 1 THEN NoNode ELSE leaves[i - 1]
                /\ bt.node[leaves[i]].next = IF i = Len(leaves) THEN NoNode ELSE leaves[i + 1]
           /\ bt.leaves = Len(leaves) /\ bt.innernodes = Len(nodes) - Len(leaves)
           /\ bt.itemcount = Len(KeysBelow(bt, bt.root))

(* Searches and iterators agree with the sequence of the pairs: the bounds of  *)
(* every key, also of one that is not there, its count, and each step from a   *)
(* pair to its neighbour, over the borders of leaves.                        *)
BTreeLookups ==
  LET spots == Append(Spots(bt), end(bt))
      n == Len(spots) - 1
      Under(k) == Cardinality({i \in 1..n : PairAt(bt, spots[i]).key < k})
      UpTo(k) == Cardinality({i \in 1..n : PairAt(bt, spots[i]).key <= k})
  IN  /\ \A k \in Keys \cup {Min(Keys) - 1} :
           /\ lower_bound(bt, k) = spots[Under(k) + 1]
           /\ upper_bound(bt, k) = spots[UpTo(k) + 1]
           /\ count(bt, k) = UpTo(k) - Under(k)
           /\ find(bt, k) = IF count(bt, k) = 0 THEN end(bt) ELSE spots[Under(k) + 1]
      /\ \A i \in 1..n : Forward(bt, spots[i]) = spots[i + 1]
      /\ \A i \in 2..n : Backward(bt, spots[i]) = spots[i - 1]
      /\ begin(bt) = spots[1]

(* The tree with its pairs numbered by their place.                          *)
Numbered(t) ==
  LET chain == Chain(t)
      Before(i) == FoldLeft(LAMBDA sum, n : sum + SlotUse(t, n), 0, SubSeq(chain, 1, i - 1))
  IN  FoldLeft(LAMBDA u, i :
                 [u EXCEPT !.node[chain[i]].pairs =
                    [j \in 1..Len(@) |-> Pair(@[j].key, Before(i) + j)]],
               t, [i \in 1..Len(chain) |-> i])

(* What each call does to the sequence of pairs: an insertion puts one among   *)
(* its equals, an erasure by key takes the first or all of them, one by        *)
(* iterator the very pair it references; the splits, merges and shifts that    *)
(* follow, and copies, neither move nor lose any.                            *)
BTreeKeepsPairs ==
  \A t \in {Numbered(bt)} : \A s \in {Contents(t)} : \A spots \in {Spots(t)} :
    /\ \A k \in Keys :
         LET first == SelectInSeq(s, LAMBDA x : x.key = k)
         IN  /\ \A u \in {Contents(insert_start(t, Pair(k, 0)))} :
                  LET at == SelectInSeq(u, LAMBDA x : x = Pair(k, 0))
                  IN  at > 0 /\ RemoveAt(u, at) = s /\ InKeyOrder(KeysOf(u))
             /\ Contents(erase_one(t, k)) = IF first = 0 THEN s ELSE RemoveAt(s, first)
             /\ Contents(erase(t, k)) = SelectSeq(s, LAMBDA x : x.key # k)
    /\ \A i \in 1..Len(s) : Contents(erase_iter(t, spots[i])) = RemoveAt(s, i)
    /\ Contents(copy(t)) = s /\ Contents(restore(t)) = s

(* In every state: the tree is as verify() asserts and every search in it    *)
(* finds what it should.                                                     *)
BTreeSound == BTreeVerified /\ BTreeLookups
=============================================================================
