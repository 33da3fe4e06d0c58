------------------------------- MODULE BTreeNodes -------------------------------
(***************************************************************************)
(* stx::btree (datastruct/tree/btree/stx/btree.h) with duplicates allowed,    *)
(* as btree_multimap and btree_multiset use it: the nodes, the searches, the  *)
(* insertion with its splits, the two ways to erase with their merges and     *)
(* shifts, the copy, and the dump read back.  Operators take a tree and       *)
(* return it changed; slots count from 0 as in the code, sequences from 1.    *)
(***************************************************************************)
EXTENDS Integers, FiniteSets, SequencesExt

CONSTANTS
  NoNode,      \* NULL
  LeafSlots,   \* traits::leafslots
  InnerSlots   \* traits::innerslots

(* A leaf left without a pair by an erase would hand on its slotkey[-1].      *)
ASSUME SlotsAssumption ==
  /\ LeafSlots \in Nat /\ LeafSlots >= 4
  /\ InnerSlots \in Nat /\ InnerSlots >= 2

minleafslots == LeafSlots \div 2
mininnerslots == InnerSlots \div 2

EmptyBTree ==
  [root |-> NoNode, head |-> NoNode, tail |-> NoNode,
   node |-> << >>,                              \* the nodes allocated, by address
   itemcount |-> 0, leaves |-> 0, innernodes |-> 0]

Leaf(pairs, prev, next) == [level |-> 0, pairs |-> pairs, prev |-> prev, next |-> next]
Inner(level, keys, kids) == [level |-> level, keys |-> keys, kids |-> kids]

IsLeaf(t, n) == t.node[n].level = 0
KeysOf(pairs) == [i \in 1..Len(pairs) |-> pairs[i].key]
SlotKeys(t, n) == IF IsLeaf(t, n) THEN KeysOf(t.node[n].pairs) ELSE t.node[n].keys
SlotUse(t, n) == Len(SlotKeys(t, n))
Kid(t, n, slot) == t.node[n].kids[slot + 1]

IsFull(t, n) == SlotUse(t, n) = IF IsLeaf(t, n) THEN LeafSlots ELSE InnerSlots
MinSlots(t, n) == IF IsLeaf(t, n) THEN minleafslots ELSE mininnerslots
IsFew(t, n) == SlotUse(t, n) <= MinSlots(t, n)
IsUnderflow(t, n) == SlotUse(t, n) < MinSlots(t, n)

Fresh(t) == CHOOSE n \in 1..Cardinality(DOMAIN t.node) + 1 : n \notin DOMAIN t.node
SetNode(t, n, rec) ==
  [t EXCEPT !.node = [m \in DOMAIN t.node \cup {n} |-> IF m = n THEN rec ELSE t.node[m]]]
AllocateLeaf(t, n, rec) == [SetNode(t, n, rec) EXCEPT !.leaves = @ + 1]
AllocateInner(t, n, rec) == [SetNode(t, n, rec) EXCEPT !.innernodes = @ + 1]
FreeNode(t, n) ==
  [t EXCEPT !.node = [m \in DOMAIN t.node \ {n} |-> t.node[m]],
            !.leaves = @ - (IF IsLeaf(t, n) THEN 1 ELSE 0),
            !.innernodes = @ - (IF IsLeaf(t, n) THEN 0 ELSE 1)]

(* Neighbours in the chain of leaves; next or prev of no leaf is the end.     *)
LinkBack(t, n, to) == IF n = NoNode THEN [t EXCEPT !.tail = to] ELSE [t EXCEPT !.node[n].prev = to]
LinkOn(t, n, to) == IF n = NoNode THEN [t EXCEPT !.head = to] ELSE [t EXCEPT !.node[n].next = to]

-----------------------------------------------------------------------------
(* Searches.                                                                 *)

RECURSIVE Narrow(_, _, _, _, _)
(* The binary search of find_lower and, when strict, of find_upper.          *)
Narrow(keys, key, lo, hi, strict) ==
  LET mid == (lo + hi) \div 2
      below == IF strict THEN key < keys[mid + 1] ELSE key <= keys[mid + 1]
  IN  CASE lo >= hi -> hi
        [] lo < hi /\ below -> Narrow(keys, key, lo, mid - 1, strict)
        [] lo < hi /\ ~below -> Narrow(keys, key, mid + 1, hi, strict)

find_lower(keys, key) ==
  LET hi == Narrow(keys, key, 0, Len(keys) - 1, FALSE)
  IN  IF keys # << >> /\ (hi < 0 \/ keys[hi + 1] < key) THEN hi + 1 ELSE Max({hi, 0})

find_upper(keys, key) ==
  LET hi == Narrow(keys, key, 0, Len(keys) - 1, TRUE)
  IN  IF keys # << >> /\ (hi < 0 \/ keys[hi + 1] <= key) THEN hi + 1 ELSE Max({hi, 0})

RECURSIVE Descend(_, _, _, _)
(* The position that a search for key, strict or not, ends at.               *)
Descend(t, n, key, strict) ==
  LET slot == IF strict THEN find_upper(SlotKeys(t, n), key) ELSE find_lower(SlotKeys(t, n), key)
  IN  IF IsLeaf(t, n) THEN [leaf |-> n, slot |-> slot]
      ELSE Descend(t, Kid(t, n, slot), key, strict)

Valid(t, it) == it.leaf # NoNode /\ it.slot < SlotUse(t, it.leaf)
PairAt(t, it) == t.node[it.leaf].pairs[it.slot + 1]

begin(t) == [leaf |-> t.head, slot |-> 0]
end(t) == [leaf |-> t.tail, slot |-> IF t.tail = NoNode THEN 0 ELSE SlotUse(t, t.tail)]

lower_bound(t, key) == IF t.root = NoNode THEN end(t) ELSE Descend(t, t.root, key, FALSE)
upper_bound(t, key) == IF t.root = NoNode THEN end(t) ELSE Descend(t, t.root, key, TRUE)
find(t, key) ==
  LET it == lower_bound(t, key)
  IN  IF Valid(t, it) /\ PairAt(t, it).key = key THEN it ELSE end(t)

(* operator++ and operator-- of an iterator.                                 *)
Forward(t, it) ==
  LET next == t.node[it.leaf].next
  IN  CASE it.slot + 1 < SlotUse(t, it.leaf) -> [it EXCEPT !.slot = @ + 1]
        [] it.slot + 1 >= SlotUse(t, it.leaf) /\ next # NoNode -> [leaf |-> next, slot |-> 0]
        [] OTHER -> [it EXCEPT !.slot = SlotUse(t, it.leaf)]

Backward(t, it) ==
  LET prev == t.node[it.leaf].prev
  IN  CASE it.slot > 0 -> [it EXCEPT !.slot = @ - 1]
        [] it.slot = 0 /\ prev # NoNode -> [leaf |-> prev, slot |-> SlotUse(t, prev) - 1]
        [] OTHER -> it

RECURSIVE CountFrom(_, _, _, _)
CountFrom(t, leaf, slot, key) ==
  IF leaf = NoNode \/ ~Valid(t, [leaf |-> leaf, slot |-> slot])
                   \/ SlotKeys(t, leaf)[slot + 1] # key THEN 0
  ELSE 1 + IF slot + 1 >= SlotUse(t, leaf) THEN CountFrom(t, t.node[leaf].next, 0, key)
           ELSE CountFrom(t, leaf, slot + 1, key)

count(t, key) ==
  IF t.root = NoNode THEN 0
  ELSE LET it == Descend(t, t.root, key, FALSE) IN CountFrom(t, it.leaf, it.slot, key)

-----------------------------------------------------------------------------
(* Insertion.  A result is the tree, the node split off or NoNode, and the    *)
(* key that separates the two.                                               *)

Inserted(t, new, key) == [tree |-> t, new |-> new, key |-> key]

split_leaf_node(t, n) ==
  LET leaf == t.node[n]
      mid == Len(leaf.pairs) \div 2
      new == Fresh(t)
      left == SubSeq(leaf.pairs, 1, mid)
      right == SubSeq(leaf.pairs, mid + 1, Len(leaf.pairs))
      t1 == LinkBack(AllocateLeaf(t, new, Leaf(right, n, leaf.next)), leaf.next, new)
  IN  Inserted(SetNode(t1, n, Leaf(left, leaf.prev, new)), new, Last(left).key)

split_inner_node(t, n, addslot) ==
  LET inner == t.node[n]
      use == Len(inner.keys)
      half == use \div 2
      mid == IF addslot <= half /\ half > use - (half + 1) THEN half - 1 ELSE half
      new == Fresh(t)
      right == Inner(inner.level, SubSeq(inner.keys, mid + 2, use), SubSeq(inner.kids, mid + 2, use + 1))
      left == Inner(inner.level, SubSeq(inner.keys, 1, mid), SubSeq(inner.kids, 1, mid + 1))
  IN  Inserted(SetNode(AllocateInner(t, new, right), n, left), new, inner.keys[mid + 1])

InsertInLeaf(t, n, x) ==
  LET slot == find_lower(SlotKeys(t, n), x.key)
      s == IF IsFull(t, n) THEN split_leaf_node(t, n) ELSE Inserted(t, NoNode, x.key)
      inright == s.new # NoNode /\ slot >= SlotUse(s.tree, n)
      leaf == IF inright THEN s.new ELSE n
      keys == SlotKeys(s.tree, leaf)
      after == Max({0} \cup {i \in 1..Len(keys) : keys[i] <= x.key})
      t1 == [s.tree EXCEPT !.node[leaf].pairs = InsertAt(@, after + 1, x)]
  IN  Inserted(t1, s.new, IF ~inright /\ slot = SlotUse(t1, leaf) - 1 THEN x.key ELSE s.key)

PutKid(t, n, slot, key, new) ==
  [t EXCEPT !.node[n].keys = InsertAt(@, slot + 1, key),
            !.node[n].kids = InsertAt(@, slot + 2, new)]

(* The split of an inner node, and the new kid put in one of the halves, or   *)
(* between them: then its key is the one that separates the halves.          *)
PutKidInSplit(t, n, slot, key, new) ==
  LET s == split_inner_node(t, n, slot)
      use == SlotUse(s.tree, n)
  IN  CASE slot = use + 1 /\ use < SlotUse(s.tree, s.new) ->
             Inserted([s.tree EXCEPT !.node[n].keys = Append(@, s.key),
                                     !.node[n].kids = Append(@, Kid(s.tree, s.new, 0)),
                                     !.node[s.new].kids[1] = new], s.new, key)
        [] slot >= use + 1 /\ ~(slot = use + 1 /\ use < SlotUse(s.tree, s.new)) ->
             Inserted(PutKid(s.tree, s.new, slot - (use + 1), key, new), s.new, s.key)
        [] slot < use + 1 -> Inserted(PutKid(s.tree, n, slot, key, new), s.new, s.key)

RECURSIVE insert_descend(_, _, _)
insert_descend(t, n, x) ==
  IF IsLeaf(t, n) THEN InsertInLeaf(t, n, x)
  ELSE LET slot == find_lower(SlotKeys(t, n), x.key)
           r == insert_descend(t, Kid(t, n, slot), x)
       IN  CASE r.new = NoNode -> r
             [] r.new # NoNode /\ IsFull(r.tree, n) -> PutKidInSplit(r.tree, n, slot, r.key, r.new)
             [] OTHER -> Inserted(PutKid(r.tree, n, slot, r.key, r.new), NoNode, r.key)

insert_start(t, x) ==
  LET t0 == IF t.root # NoNode THEN t
            ELSE LET n == Fresh(t)
                 IN  [AllocateLeaf(t, n, Leaf(<< >>, NoNode, NoNode))
                        EXCEPT !.root = n, !.head = n, !.tail = n]
      r == insert_descend(t0, t0.root, x)
      new == Fresh(r.tree)
      t1 == IF r.new = NoNode THEN r.tree
            ELSE [AllocateInner(r.tree, new,
                                Inner(r.tree.node[t0.root].level + 1, <<r.key>>, <<t0.root, r.new>>))
                    EXCEPT !.root = new]
  IN  [t1 EXCEPT !.itemcount = @ + 1]

-----------------------------------------------------------------------------
(* Erasing.  A call on a node is given its neighbours on its level, as the    *)
(* code finds them, the parents of those, its own parent and its slot there.  *)
(* A result is the tree, flags as in result_flags_t, and the last key.       *)

Place(left, right, leftparent, rightparent, parent, slot) ==
  [left |-> left, right |-> right, leftparent |-> leftparent, rightparent |-> rightparent,
   parent |-> parent, slot |-> slot]
RootPlace == Place(NoNode, NoNode, NoNode, NoNode, NoNode, 0)

Erased(t, flags, key) == [tree |-> t, flags |-> flags, key |-> key]
Ok(t) == Erased(t, {}, 0)
NotFound(t) == Erased(t, {"not_found"}, 0)

(* The place of the kid at slot.  On the first slot its left neighbour is     *)
(* taken to be the last but one kid of the left inner node.                  *)
KidPlace(t, n, slot, c) ==
  LET use == SlotUse(t, n)
  IN  Place(CASE slot > 0 -> Kid(t, n, slot - 1)
              [] slot = 0 /\ c.left = NoNode -> NoNode
              [] slot = 0 /\ c.left # NoNode -> Kid(t, c.left, SlotUse(t, c.left) - 1),
            CASE slot < use -> Kid(t, n, slot + 1)
              [] slot = use /\ c.right = NoNode -> NoNode
              [] slot = use /\ c.right # NoNode -> Kid(t, c.right, 0),
            IF slot > 0 THEN n ELSE c.leftparent,
            IF slot < use THEN n ELSE c.rightparent,
            n, slot)

(* Mutant of UpdateLastKey: nothing is handed up.                            *)
UpdateLastKeyHere(t, key, c) ==
  IF c.parent # NoNode /\ c.slot < SlotUse(t, c.parent)
  THEN Ok([t EXCEPT !.node[c.parent].keys[c.slot + 1] = key])
  ELSE Ok(t)

(* The last key under the node at c has become key: the separator in its      *)
(* parent, or the business of a node further up.                             *)
UpdateLastKey(t, key, c) ==
  IF c.parent # NoNode /\ c.slot < SlotUse(t, c.parent)
  THEN Ok([t EXCEPT !.node[c.parent].keys[c.slot + 1] = key])
  ELSE Erased(t, {"update_lastkey"}, key)

merge_leaves(t, left, right) ==
  LET next == t.node[right].next
      t1 == [t EXCEPT !.node[left].pairs = @ \o t.node[right].pairs,
                      !.node[left].next = next,
                      !.node[right].pairs = << >>]
  IN  LinkBack(t1, next, left)

merge_inner(t, left, right, parent, slot) ==
  [t EXCEPT !.node[left].keys = Append(@, t.node[parent].keys[slot + 1]) \o t.node[right].keys,
            !.node[left].kids = @ \o t.node[right].kids,
            !.node[right].keys = << >>]

shift_left_leaf(t, left, right, parent, slot) ==
  LET shiftnum == (SlotUse(t, right) - SlotUse(t, left)) \div 2
      moved == SubSeq(t.node[right].pairs, 1, shiftnum)
      t1 == [t EXCEPT !.node[left].pairs = @ \o moved,
                      !.node[right].pairs = SubSeq(@, shiftnum + 1, Len(@))]
  IN  UpdateLastKey(t1, Last(moved).key, [RootPlace EXCEPT !.parent = parent, !.slot = slot])

shift_right_leaf(t, left, right, parent, slot) ==
  LET shiftnum == (SlotUse(t, left) - SlotUse(t, right)) \div 2
      pairs == t.node[left].pairs
      stay == SubSeq(pairs, 1, Len(pairs) - shiftnum)
  IN  [t EXCEPT !.node[right].pairs = SubSeq(pairs, Len(stay) + 1, Len(pairs)) \o @,
                !.node[left].pairs = stay,
                !.node[parent].keys[slot + 1] = Last(stay).key]

(* The separator comes down on one side and another goes up from the other.   *)
shift_left_inner(t, left, right, parent, slot) ==
  LET shiftnum == (SlotUse(t, right) - SlotUse(t, left)) \div 2
      keys == t.node[right].keys
  IN  [t EXCEPT !.node[left].keys = Append(@, t.node[parent].keys[slot + 1]) \o SubSeq(keys, 1, shiftnum - 1),
                !.node[left].kids = @ \o SubSeq(t.node[right].kids, 1, shiftnum),
                !.node[parent].keys[slot + 1] = keys[shiftnum],
                !.node[right].keys = SubSeq(@, shiftnum + 1, Len(@)),
                !.node[right].kids = SubSeq(@, shiftnum + 1, Len(@))]

shift_right_inner(t, left, right, parent, slot) ==
  LET shiftnum == (SlotUse(t, left) - SlotUse(t, right)) \div 2
      keys == t.node[left].keys
      stay == Len(keys) - shiftnum
  IN  [t EXCEPT !.node[right].keys = Append(SubSeq(keys, stay + 2, Len(keys)), t.node[parent].keys[slot + 1]) \o @,
                !.node[right].kids = SubSeq(t.node[left].kids, stay + 2, Len(keys) + 1) \o @,
                !.node[parent].keys[slot + 1] = keys[stay + 1],
                !.node[left].keys = SubSeq(@, 1, stay),
                !.node[left].kids = SubSeq(@, 1, stay + 1)]

(* What is done about a node n that underflows.                              *)
Remedy(t, n, c) ==
  LET leftfew == c.left # NoNode /\ IsFew(t, c.left)
      rightfew == c.right # NoNode /\ IsFew(t, c.right)
      leftrich == c.left # NoNode /\ ~IsFew(t, c.left)
      rightrich == c.right # NoNode /\ ~IsFew(t, c.right)
      ownleft == c.leftparent = c.parent
      ownright == c.rightparent = c.parent
  IN  CASE ~leftrich /\ ~rightrich -> IF ownleft THEN "merge left" ELSE "merge right"
        [] leftfew /\ rightrich -> IF ownright THEN "shift left" ELSE "merge left"
        [] leftrich /\ rightfew -> IF ownleft THEN "shift right" ELSE "merge right"
        [] OTHER ->
             IF c.leftparent = c.rightparent
             THEN IF SlotUse(t, c.left) <= SlotUse(t, c.right) THEN "shift left" ELSE "shift right"
             ELSE IF ownleft THEN "shift right" ELSE "shift left"

Underflows(t, n) == IsUnderflow(t, n) /\ ~(n = t.root /\ SlotUse(t, n) >= 1)

(* The result so far, of an erase in the leaf n, and what its underflow adds. *)
FixLeaf(r, n, c) ==
  LET t == r.tree
      remedy == Remedy(t, n, c)
      With(r1) == Erased(r1.tree, r.flags \cup r1.flags, IF r1.flags = {} THEN r.key ELSE r1.key)
      Merged(t1) == Erased(t1, r.flags \cup {"fixmerge"}, r.key)
  IN  CASE ~Underflows(t, n) -> r
        [] Underflows(t, n) /\ c.left = NoNode /\ c.right = NoNode ->
             Ok([FreeNode(t, n) EXCEPT !.root = NoNode, !.head = NoNode, !.tail = NoNode])
        [] Underflows(t, n) /\ (c.left # NoNode \/ c.right # NoNode) ->
             CASE remedy = "merge left" -> Merged(merge_leaves(t, c.left, n))
               [] remedy = "merge right" -> Merged(merge_leaves(t, n, c.right))
               [] remedy = "shift left" -> With(shift_left_leaf(t, n, c.right, c.rightparent, c.slot))
               [] remedy = "shift right" ->
                    [r EXCEPT !.tree = shift_right_leaf(t, c.left, n, c.leftparent, c.slot - 1)]

EraseInLeaf(t, n, slot, c) ==
  LET t1 == [t EXCEPT !.node[n].pairs = RemoveAt(@, slot + 1)]
      pairs == t1.node[n].pairs
      r == IF slot = Len(pairs) /\ pairs # << >> THEN UpdateLastKey(t1, Last(pairs).key, c) ELSE Ok(t1)
  IN  FixLeaf(r, n, c)

(* The kid of n at slot, or the one after it, was emptied by a merge.         *)
FixMerge(t, n, slot) ==
  LET gone == IF SlotUse(t, Kid(t, n, slot)) # 0 THEN slot + 1 ELSE slot
      t1 == [FreeNode(t, Kid(t, n, gone)) EXCEPT !.node[n].keys = RemoveAt(@, gone),
                                                 !.node[n].kids = RemoveAt(@, gone + 1)]
      use == SlotUse(t1, n)
  IN  IF t.node[n].level = 1 /\ gone - 1 < use
      THEN [t1 EXCEPT !.node[n].keys[gone] = Last(SlotKeys(t1, Kid(t1, n, gone - 1)))]
      ELSE t1

FixInner(r, n, c) ==
  LET t == r.tree
      remedy == Remedy(t, n, c)
      Merged(t1) == Erased(t1, r.flags \cup {"fixmerge"}, r.key)
  IN  CASE ~Underflows(t, n) -> r
        [] Underflows(t, n) /\ c.left = NoNode /\ c.right = NoNode ->
             Ok([FreeNode(t, n) EXCEPT !.root = Kid(t, n, 0)])
        [] Underflows(t, n) /\ (c.left # NoNode \/ c.right # NoNode) ->
             CASE remedy = "merge left" -> Merged(merge_inner(t, c.left, n, c.leftparent, c.slot - 1))
               [] remedy = "merge right" -> Merged(merge_inner(t, n, c.right, c.rightparent, c.slot))
               [] remedy = "shift left" ->
                    [r EXCEPT !.tree = shift_left_inner(t, n, c.right, c.rightparent, c.slot)]
               [] remedy = "shift right" ->
                    [r EXCEPT !.tree = shift_right_inner(t, c.left, n, c.leftparent, c.slot - 1)]

(* The rest of a call on the inner node n, after the call on its kid at slot  *)
(* has found the pair, with result r.                                        *)
EraseBelow(r, n, slot, c) ==
  LET r1 == IF "update_lastkey" \in r.flags THEN UpdateLastKey(r.tree, r.key, c) ELSE Ok(r.tree)
  IN  FixInner(IF "fixmerge" \in r.flags THEN [r1 EXCEPT !.tree = FixMerge(r1.tree, n, slot)] ELSE r1,
               n, c)

RECURSIVE erase_one_descend(_, _, _, _)
erase_one_descend(t, key, n, c) ==
  LET slot == find_lower(SlotKeys(t, n), key)
      found == slot < SlotUse(t, n) /\ SlotKeys(t, n)[slot + 1] = key
      r == erase_one_descend(t, key, Kid(t, n, slot), KidPlace(t, n, slot, c))
  IN  CASE IsLeaf(t, n) -> IF found THEN EraseInLeaf(t, n, slot, c) ELSE NotFound(t)
        [] ~IsLeaf(t, n) -> IF "not_found" \in r.flags THEN r ELSE EraseBelow(r, n, slot, c)

RECURSIVE EraseIterFrom(_, _, _, _, _)
(* erase_iter_descend, the search of an inner node n going on at slot: the    *)
(* leaf may be under any of the kids that can hold the key.                  *)
EraseIterFrom(t, it, n, slot, c) ==
  LET keys == SlotKeys(t, n)
      kid == Kid(t, n, slot)
      key == PairAt(t, it).key
      r == EraseIterFrom(t, it, kid, find_lower(SlotKeys(t, kid), key), KidPlace(t, n, slot, c))
  IN  CASE IsLeaf(t, n) -> IF n = it.leaf /\ Valid(t, it) THEN EraseInLeaf(t, n, it.slot, c) ELSE NotFound(t)
        [] ~IsLeaf(t, n) /\ slot > Len(keys) -> NotFound(t)
        [] ~IsLeaf(t, n) /\ slot <= Len(keys) ->
             CASE "not_found" \notin r.flags -> EraseBelow(r, n, slot, c)
               [] "not_found" \in r.flags /\ slot < Len(keys) /\ keys[slot + 1] < key -> NotFound(t)
               [] OTHER -> EraseIterFrom(t, it, n, slot + 1, c)

(* Mutant of erase_iter_descend: it takes the first pair with the key.        *)
EraseFirstOf(t, it, n, c) == erase_one_descend(t, PairAt(t, it).key, n, c)

erase_iter_descend(t, it, n, c) ==
  EraseIterFrom(t, it, n, find_lower(SlotKeys(t, n), PairAt(t, it).key), c)

CountErased(r) ==
  IF "not_found" \in r.flags THEN r.tree ELSE [r.tree EXCEPT !.itemcount = @ - 1]

erase_one(t, key) ==
  IF t.root = NoNode THEN t ELSE CountErased(erase_one_descend(t, key, t.root, RootPlace))
erase_iter(t, it) ==
  IF t.root = NoNode THEN t ELSE CountErased(erase_iter_descend(t, it, t.root, RootPlace))

RECURSIVE erase(_, _)
(* Erases one pair after the other until none is found.                      *)
erase(t, key) == LET t1 == erase_one(t, key) IN IF t1 = t THEN t ELSE erase(t1, key)

-----------------------------------------------------------------------------
(* Copies.                                                                   *)

RECURSIVE Below(_, _)
(* The node n and those below it, in the order in which they are dumped.      *)
Below(t, n) ==
  <<n>> \o IF IsLeaf(t, n) THEN << >>
           ELSE FlattenSeq([i \in 1..Len(t.node[n].kids) |-> Below(t, t.node[n].kids[i])])

RECURSIVE Rebuild(_, _)
(* A node and those below it made from the first nodes of image, the leaves   *)
(* chained as they come; what is left of the image.                          *)
Rebuild(image, t) ==
  LET x == Head(image)
      n == Fresh(t)
      leaf == LinkOn(AllocateLeaf(t, n, Leaf(x.pairs, t.tail, NoNode)), t.tail, n)
      below == FoldLeft(LAMBDA done, i :
                          LET kid == Rebuild(done.rest, done.tree)
                          IN  [kid EXCEPT !.kids = Append(done.kids, kid.node)],
                        [tree |-> AllocateInner(t, n, x), rest |-> Tail(image), node |-> n, kids |-> << >>],
                        [i \in 1..Len(x.kids) |-> i])
  IN  IF x.level = 0
      THEN [tree |-> [leaf EXCEPT !.tail = n], rest |-> Tail(image), node |-> n, kids |-> << >>]
      ELSE [tree |-> [below.tree EXCEPT !.node[n].kids = below.kids],
            rest |-> below.rest, node |-> n, kids |-> << >>]

dump(t) == LET order == Below(t, t.root) IN [i \in 1..Len(order) |-> t.node[order[i]]]

(* The tree read back from the image of t; the counts of nodes are new.       *)
restore(t) ==
  IF t.itemcount = 0 THEN EmptyBTree
  ELSE LET r == Rebuild(dump(t), EmptyBTree)
       IN  [r.tree EXCEPT !.root = r.node, !.itemcount = t.itemcount]

(* The copy of t; the counts of nodes are those of t.                        *)
copy(t) ==
  IF t.itemcount = 0 THEN EmptyBTree
  ELSE LET r == Rebuild(dump(t), EmptyBTree)
       IN  [r.tree EXCEPT !.root = r.node, !.itemcount = t.itemcount,
                          !.leaves = t.leaves, !.innernodes = t.innernodes]

(* Addresses do not matter: the nodes numbered from the root down.           *)
Renumbered(t) ==
  LET reached == IF t.root = NoNode THEN << >> ELSE Below(t, t.root)
      order == reached \o SetToSeq(DOMAIN t.node \ Range(reached))
      number == [n \in DOMAIN t.node \cup {NoNode} |->
                   IF n = NoNode THEN NoNode ELSE CHOOSE i \in 1..Len(order) : order[i] = n]
      Moved(x) == IF x.level = 0 THEN [x EXCEPT !.prev = number[@], !.next = number[@]]
                  ELSE [x EXCEPT !.kids = [i \in 1..Len(@) |-> number[@[i]]]]
  IN  [t EXCEPT !.root = number[@], !.head = number[@], !.tail = number[@],
                !.node = [i \in 1..Len(order) |-> Moved(t.node[order[i]])]]
=============================================================================
