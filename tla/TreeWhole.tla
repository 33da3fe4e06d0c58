------------------------------- MODULE TreeWhole -------------------------------
(***************************************************************************)
(* What the libraries of datastruct/tree/avl do with a whole tree: balance    *)
(* it (the unbalanced libraries), copy it, and destroy it.                   *)
(***************************************************************************)
EXTENDS TreeNodes

CONSTANT Garbage  \* a link or an item nothing was written to; a node that is none

-----------------------------------------------------------------------------
(* Balancing in linear time by way of a vine, a tree of left children only.   *)

RECURSIVE PlainVine(_, _, _)
PlainVine(t, q, p) ==
  CASE p = Nil -> t
    [] p # Nil /\ Child(t, p, 1) = Nil -> PlainVine(t, p, Child(t, p, 0))
    [] OTHER -> PlainVine(Rotate(t, q, p, 1), q, Child(t, p, 1))

RECURSIVE ThreadedVine(_, _)
(* The nodes up to p are a vine; it goes on with the node after p.            *)
ThreadedVine(t, p) ==
  LET q == IF t.thread[p][1] THEN t.link[p][1] ELSE Extreme(t, t.link[p][1], 0)
      cut == [t EXCEPT !.link[p][1] = q, !.thread[p][1] = TRUE]
  IN  IF q = Nil THEN Hang(cut, Anchor, 0, p) ELSE ThreadedVine(Hang(cut, q, 0, p), q)

tree_to_vine(t) ==
  CASE t.links \in {"plain", "parents"} -> PlainVine(t, Anchor, Root(t))
    [] Root(t) = Nil -> t
    [] OTHER -> ThreadedVine(t, Extreme(t, Root(t), 0))

(* Every second node of the vine, from below root on, is turned to the right  *)
(* of the next.  A nonthreaded step moves a right child of the next over;    *)
(* a threaded one is for a next node that has none.                          *)
NonthreadedStep(t, root) ==
  LET red == t.link[root][0]
      black == t.link[red][0]
  IN  [t EXCEPT !.link[root][0] = black, !.link[red][0] = t.link[black][1],
                !.link[black][1] = red]
ThreadedStep(t, root) ==
  LET red == t.link[root][0]
      black == t.link[red][0]
      bare == Bare(t, red, 0, black)
  IN  [bare EXCEPT !.link[root][0] = black, !.thread[black][1] = FALSE]

RECURSIVE compress(_, _, _, _)
compress(t, root, nonthread, thread) ==
  LET next == t.link[t.link[root][0]][0]
  IN  CASE nonthread > 0 -> compress(NonthreadedStep(t, root), next, nonthread - 1, thread)
        [] nonthread = 0 /\ thread > 0 -> compress(ThreadedStep(t, root), next, 0, thread - 1)
        [] OTHER -> t

RECURSIVE Halve(_, _)
Halve(t, vine) ==
  IF vine > 1 THEN Halve(compress(t, Anchor, vine \div 2, 0), vine \div 2) ELSE t

PowerOfTwoBelow(m) == Max({k \in 1..m : k \in {1, 2, 4, 8, 16}})

(* The incomplete bottom level first, then half of what is left, and so on.   *)
(* The nodes that got a right child in the first pass are the first the      *)
(* second one meets, and only these need nonthreaded steps.                  *)
vine_to_tree(t) ==
  LET count == Cardinality(t.nodes)
      leaves == count + 1 - PowerOfTwoBelow(count + 1)
      vine == count - leaves
      full == Min({leaves \div 2, vine \div 2})
      second == compress(compress(t, Anchor, 0, leaves), Anchor, full, vine \div 2 - full)
  IN  CASE t.links \in {"plain", "parents"} -> Halve(compress(t, Anchor, leaves, 0), vine)
        [] vine <= 1 -> compress(t, Anchor, 0, leaves)
        [] OTHER -> Halve(second, vine \div 2)

(* Links to the parents are set anew once the tree has its shape.            *)
update_parents(t) ==
  [t EXCEPT !.up = [n \in DOMAIN t.up |->
     IF \E p \in t.nodes, d \in 0..1 : Child(t, p, d) = n
     THEN CHOOSE p \in t.nodes : \E d \in 0..1 : Child(t, p, d) = n ELSE Nil]]

Balanced(t) ==
  LET b == vine_to_tree(tree_to_vine(t))
  IN  IF t.links = "parents" THEN update_parents(b) ELSE b

-----------------------------------------------------------------------------
(* Destroying: the items in the order in which destroy() is applied to them.  *)
(* Where it comes to what is no node the order ends in Garbage.              *)

RECURSIVE PlainDestroy(_, _)
(* The root is rotated to the right until it has no left child; then it goes. *)
PlainDestroy(t, p) ==
  LET q == Child(t, p, 0)
  IN  CASE p = Nil -> << >>
        [] p = Garbage \/ q = Garbage -> <<Garbage>>
        [] p \in t.nodes /\ q = Nil -> <<p>> \o PlainDestroy(t, Child(t, p, 1))
        [] OTHER -> PlainDestroy([t EXCEPT !.link[p][0] = t.link[q][1], !.link[q][1] = p], q)

RECURSIVE ThreadedDestroy(_, _)
ThreadedDestroy(t, p) ==
  LET q == t.link[p][1]
      next == IF t.thread[p][1] \/ q = Nil THEN q ELSE Extreme(t, q, 0)
  IN  CASE p = Nil -> << >>
        [] p = Anchor -> <<Garbage>>
        [] OTHER -> <<p>> \o ThreadedDestroy(t, next)

Destroyed(t) ==
  CASE t.links \in {"plain", "parents"} -> PlainDestroy(t, Root(t))
    [] Root(t) = Nil -> << >>
    [] OTHER -> ThreadedDestroy(t, Extreme(t, Root(t), 0))

-----------------------------------------------------------------------------
(* Copying: what is allocated, and what data is set, one after the other.     *)

Alloc(n) == [what |-> "node", node |-> n]
Data(n)  == [what |-> "data", node |-> n]

RECURSIVE PlainCopying(_, _)
(* Below n, which has been allocated: an item is set when the left subtree is *)
(* complete.                                                                 *)
PlainCopying(t, n) ==
  LET left == Child(t, n, 0)
      right == Child(t, n, 1)
  IN  (IF left = Nil THEN << >> ELSE <<Alloc(left)>> \o PlainCopying(t, left))
        \o (IF n = Anchor THEN << >> ELSE <<Data(n)>>)
        \o (IF right = Nil THEN << >> ELSE <<Alloc(right)>> \o PlainCopying(t, right))

RECURSIVE ThreadedCopying(_, _)
(* Below n, which has been made: its children are made with their items, the  *)
(* right one first.                                                          *)
ThreadedCopying(t, n) ==
  LET left == Child(t, n, 0)
      right == Child(t, n, 1)
      Make(c) == IF c = Nil THEN << >> ELSE <<Alloc(c), Data(c)>>
      Below(c) == IF c = Nil THEN << >> ELSE ThreadedCopying(t, c)
  IN  Make(right) \o Make(left) \o Below(left) \o Below(right)

Copying(t) ==
  IF t.links \in {"plain", "parents"} THEN PlainCopying(t, Anchor) ELSE ThreadedCopying(t, Anchor)

(* Mutant of CopiedNode: copy_node leaves out the tag.                       *)
UntaggedNode(t, c, n) == LET p == Last(PathTo(t, n)) IN Attach(c, p, SideOf(t, p, n), n)

(* The copy c of t with a node for n.                                        *)
CopiedNode(t, c, n) ==
  LET p == Last(PathTo(t, n))
  IN  [Attach(c, p, SideOf(t, p, n), n) EXCEPT !.tag[n] = t.tag[n]]

(* The nodes of the copy of t after the first k steps, linked as they are     *)
(* meant to be in the end.                                                   *)
CopiedUpTo(t, k) ==
  LET nothing == EmptyTree(t.links, t.balance, DOMAIN t.up, t.param)
      made == SelectSeq(SubSeq(Copying(t), 1, k), LAMBDA e : e.what = "node")
  IN  FoldLeft(LAMBDA c, e : CopiedNode(t, c, e.node), nothing, made)

Copied(t) == CopiedUpTo(t, Len(Copying(t)))

-----------------------------------------------------------------------------
(* A copy of which the step after the first k fails.                         *)

(* The nodes whose item is set, and the node the copy is at.                 *)
ItemsSet(t, k) == {e.node : e \in {e \in ToSet(SubSeq(Copying(t), 1, k)) : e.what = "data"}}
InHand(t, k) ==
  LET failed == Copying(t)[k + 1]
  IN  IF failed.what = "node" THEN Last(PathTo(t, failed.node)) ELSE failed.node

(* Nothing has written the right links of the nodes that wait for their left  *)
(* subtree; and the last node's thread, or the root's link to its parent,     *)
(* still leads to the table, or to the node that stands for it.              *)
Unfinished(t, k) ==
  LET c == CopiedUpTo(t, k)
      waiting == c.nodes \ (ItemsSet(t, k) \cup {InHand(t, k)})
      root == Root(c)
  IN  CASE root = Nil -> c
        [] root # Nil /\ t.links = "plain" ->
             [c EXCEPT !.link = [n \in waiting |-> [@[n] EXCEPT ![1] = Garbage]] @@ @]
        [] root # Nil /\ t.links = "parents" ->
             [c EXCEPT !.link = [n \in waiting |-> [@[n] EXCEPT ![1] = Garbage]] @@ @,
                       !.up[root] = Anchor]
        [] OTHER -> [c EXCEPT !.link[Extreme(c, root, 1)][1] = Anchor]

(* The right links of the nodes on the stack, which wait for their left       *)
(* subtree while the copy c is at the node at.                               *)
CutStacked(c, at) ==
  LET stacked == {n \in ToSet(PathTo(c, at)) \ {Anchor} : at < n}
  IN  [c EXCEPT !.link = [n \in stacked |-> [@[n] EXCEPT ![1] = Nil]] @@ @]

RECURSIVE CutAbove(_, _)
(* The same, from p up by the links to the parents.  These go on from the     *)
(* root to the table, where the param takes the place of a parent: if there   *)
(* is one the user's data is read, and may be written, as a node.            *)
CutAbove(c, p) ==
  LET q == IF p = Anchor THEN c.param ELSE c.up[p]
  IN  CASE q = Nil -> c
        [] q \in c.nodes \cup {Anchor} ->
             CutAbove(IF p = c.link[q][0] THEN [c EXCEPT !.link[q][1] = Nil] ELSE c, q)
        [] OTHER -> [c EXCEPT !.link[Anchor][0] = Garbage]

(* The last node's thread.                                                   *)
CutLast(c) ==
  IF Root(c) = Nil THEN c ELSE [c EXCEPT !.link[Extreme(c, Root(c), 1)][1] = Nil]

(* copy_error_recovery, up to the call that destroys the tree.               *)
Recovered(t, k) ==
  LET c == Unfinished(t, k)
  IN  CASE t.links = "plain" -> CutStacked(c, InHand(t, k))
        [] t.links = "parents" -> CutAbove(c, InHand(t, k))
        [] OTHER -> CutLast(c)

(* What destroy() is then applied to: to no item of the node the copy was at, *)
(* whose data is NULL unless it was set, and to whatever is in the others.    *)
HandedOver(t, k) ==
  LET isSet == ItemsSet(t, k)
      order == SelectSeq(Destroyed(Recovered(t, k)), LAMBDA n : n \in isSet \/ n # InHand(t, k))
  IN  [j \in DOMAIN order |-> IF order[j] \in isSet THEN order[j] ELSE Garbage]

=============================================================================
