-------------------------------- MODULE Libavl --------------------------------
(***************************************************************************)
(* A table of one of the twelve libraries of datastruct/tree/avl, which one    *)
(* being chosen at the start, and what all of them promise.                  *)
(***************************************************************************)
EXTENDS LibavlPlain, LibavlThreaded, LibavlRightThreaded, LibavlParents

Init ==
  \/ bst_create \/ avl_create \/ rb_create
  \/ tbst_create \/ tavl_create \/ trb_create
  \/ rtbst_create \/ rtavl_create \/ rtrb_create
  \/ pbst_create \/ pavl_create \/ prb_create

Next ==
  \/ bstNext \/ avlNext \/ rbNext
  \/ tbstNext \/ tavlNext \/ trbNext
  \/ rtbstNext \/ rtavlNext \/ rtrbNext
  \/ pbstNext \/ pavlNext \/ prbNext

Spec == Init /\ [][Next]_vars

-----------------------------------------------------------------------------
(* The members of S, a set of keys, in order; the keys are 1 and up.          *)
Sorted(S) == SelectSeq([i \in 1..Cardinality(Keys) |-> i], LAMBDA i : i \in S)
Beyond(S, k, d) == {i \in S : IF d = 1 THEN i > k ELSE i < k}
(* The item next to k on side d, or Nil.                                     *)
Neighbour(S, k, d) ==
  LET B == Beyond(S, k, d) IN CASE B = {} -> Nil [] d = 1 -> Min(B) [] OTHER -> Max(B)

RECURSIVE InOrder(_, _)
InOrder(t, n) ==
  IF n = Nil THEN << >> ELSE InOrder(t, Child(t, n, 0)) \o <<n>> \o InOrder(t, Child(t, n, 1))

RECURSIVE Height(_, _)
Height(t, n) ==
  IF n = Nil THEN 0 ELSE 1 + Max({Height(t, Child(t, n, 0)), Height(t, Child(t, n, 1))})

RECURSIVE BlackHeight(_, _)
BlackHeight(t, n) ==
  IF n = Nil THEN 0 ELSE BlackHeight(t, Child(t, n, 0)) + (IF t.tag[n] = Black THEN 1 ELSE 0)

RightTags(t) ==
  /\ t.balance = "avl" => \A n \in t.nodes :
       /\ t.tag[n] = Height(t, Child(t, n, 1)) - Height(t, Child(t, n, 0))
       /\ t.tag[n] \in -1..1
  /\ t.balance = "rb" => \A n \in t.nodes :
       /\ BlackHeight(t, Child(t, n, 0)) = BlackHeight(t, Child(t, n, 1))
       /\ IsRed(t, n) => n # Root(t) /\ \A d \in 0..1 : ~IsRed(t, Child(t, n, d))

RightLinks(t) ==
  /\ InOrder(t, Root(t)) = Sorted(t.nodes)
  /\ \A n \in t.nodes, d \in 0..1 :
       /\ t.thread[n][d] = (Threads(t, n, d) /\ Child(t, n, d) = Nil)
       /\ t.thread[n][d] => t.link[n][d] = Neighbour(t.nodes, n, d)
       /\ t.links = "parents" /\ Child(t, n, d) # Nil => t.up[t.link[n][d]] = n
  /\ t.links = "parents" /\ Root(t) # Nil => t.up[Root(t)] = Nil

(* In every library, after every operation: the nodes in order are the items  *)
(* sorted, no node is lost, each thread leads to the neighbour in order, each *)
(* parent link to the parent; and the AVL or red-black rules hold, so that   *)
(* retracing after an insertion or deletion ended where it should.           *)
TreeShape == RightLinks(tree) /\ RightTags(tree)

(* Wherever a traverser is, and whatever happened to the tree since it came   *)
(* there: its item is in the tree; if it believes its stack is good then that *)
(* is the way to it; the stack fits when it is made again (trav_refresh       *)
(* asserts it); and t_next and t_prev lead to the neighbours in order, from   *)
(* nowhere to the first and the last.                                        *)
TraversersInOrder ==
  \A c \in DOMAIN cursor :
    LET cur == cursor[c]
        Reached(d) ==
          IF cur.at = Nil THEN IF d = 1 THEN Neighbour(tree.nodes, 0, 1)
                                        ELSE Neighbour(tree.nodes, 100, 0)
                          ELSE Neighbour(tree.nodes, cur.at, d)
    IN  /\ cur.at \in tree.nodes \cup {Nil}
        /\ tree.links = "plain" /\ cur.at # Nil =>
             /\ tree.balance = "none" => Len(StackTo(tree, cur.at)) <= MaxHeight
             /\ ~cur.stale => cur.stack = StackTo(tree, cur.at)
        /\ \A d \in 0..1 : Step(tree, cur, d).at = Reached(d)

Unused == \A c \in DOMAIN cursor : cursor[c].at = Nil
Least(n) == CHOOSE h \in 0..n : 2 ^ h > n /\ \A g \in 0..n : 2 ^ g > n => g >= h

(* A copy is the same tree down to its threads and tags; destroying a tree    *)
(* applies destroy() once to each item, in order, and frees each node.  When   *)
(* an allocation or the user's copy function fails copy_error_recovery finds   *)
(* every link that still leads nowhere, so that destroying the part that was   *)
(* made frees each node of it and applies destroy() to each item copied.  In   *)
(* a library with links to the parents this takes a table without a param.    *)
(* Balancing an unbalanced tree keeps the items and makes it as low as can be. *)
WholeTree ==
  Unused =>
    /\ Destroyed(tree) = Sorted(tree.nodes)
    /\ Copied(tree) = tree
    /\ \A k \in 0..Len(Copying(tree)) - 1 :
         /\ Destroyed(Recovered(tree, k)) = Sorted(Recovered(tree, k).nodes)
         /\ SelectSeq(HandedOver(tree, k), LAMBDA n : n # Garbage) = Sorted(ItemsSet(tree, k))
    /\ tree.balance = "none" =>
         LET b == Balanced(tree)
         IN  RightLinks(b) /\ b.nodes = tree.nodes
               /\ Height(b, Root(b)) = Least(Cardinality(tree.nodes))
=============================================================================
