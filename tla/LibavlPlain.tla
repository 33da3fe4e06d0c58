------------------------------ MODULE LibavlPlain ------------------------------
(***************************************************************************)
(* bst.c, avl.c and rb.c: binary search trees, AVL trees and red-black trees   *)
(* of datastruct/tree/avl whose nodes link to their children only.  Their    *)
(* traversers keep stacks; bst_ trees grow as high as they are made to, and   *)
(* are balanced by the functions whose stack they would overflow.            *)
(***************************************************************************)
EXTENDS TreeTable

(* How often the way from the table to i turns left.                         *)
LeftTurns(t, i) ==
  LET path == PathTo(t, i)
  IN  Cardinality({k \in DOMAIN path : Toward(path[k], i) = 0})

(* avl_probe changes the generation when nodes have turned.                  *)
Turned(i) == AvlGrown(i).link # Grown(i).link

(* A traverser of a bst_ tree comes to a position.  When the stack for that   *)
(* is too high the tree is balanced, and the traverser starts again: there,   *)
(* it comes to the position given last.                                      *)
Overflows(position) == Len(position.stack) > MaxHeight
BstMove(c, position, again) ==
  IF Overflows(position)
  THEN /\ c \in DOMAIN cursor
       /\ tree' = Balanced(tree)
       /\ cursor' = [AllStale EXCEPT ![c] = Settled(again)]
  ELSE Move(c, position)

-----------------------------------------------------------------------------
(* bst.c *)

bst_create == Create("plain", "none")

bst_probe(i) == Is("plain", "none") /\ Probe(i, Grown(i), FALSE)

bst_delete(i) == Is("plain", "none") /\ Delete(i, BstDeleted(i))

bst_t_init(c) == Is("plain", "none") /\ Reinit(c)

bst_t_first(c) == Is("plain", "none") /\ BstMove(c, First, EndPosition(Balanced(tree), 0))

bst_t_last(c) == Is("plain", "none") /\ BstMove(c, Final, EndPosition(Balanced(tree), 1))

bst_t_find(c, i) ==
  /\ Is("plain", "none") /\ i \in Keys
  /\ BstMove(c, FindPosition(tree, i), FindPosition(Balanced(tree), i))

(* The traverser inserts on its own, with the stack of the way down; memory is *)
(* whether there is any.                                                     *)
bst_t_insert(c, i, memory) ==
  LET over == Overflows(FindPosition(tree, i))
      t == IF over THEN Balanced(tree) ELSE tree
      p == Last(PathTo(t, i))
      found == Find(t, i) # Nil
  IN  /\ Is("plain", "none") /\ c \in DOMAIN cursor /\ i \in Keys
      /\ tree' = IF found \/ ~memory THEN t ELSE Attach(t, p, Toward(p, i), i)
      /\ cursor' = [(IF over THEN AllStale ELSE cursor) EXCEPT
           ![c] = IF found \/ memory THEN At(i, StackTo(t, i)) ELSE Nowhere]

bst_t_copy(c, from) == Is("plain", "none") /\ CopyCursor(c, from)

bst_t_next(c) ==
  Is("plain", "none") /\ BstMove(c, Following(c), Step(Balanced(tree), AllStale[c], 1))

bst_t_prev(c) ==
  Is("plain", "none") /\ BstMove(c, Preceding(c), Step(Balanced(tree), AllStale[c], 0))

(* A tree that goes left too often for the stack is balanced before it is     *)
(* copied, though it is the original; then another attempt is made, and the   *)
(* traversers of the original are left behind.                               *)
bst_copy ==
  /\ Is("plain", "none")
  /\ IF \A i \in tree.nodes : LeftTurns(tree, i) <= MaxHeight + 1
     THEN Copy
     ELSE tree' = Balanced(tree) /\ cursor' = AllStale

bst_destroy == Is("plain", "none") /\ Destroy

bst_balance == Is("plain", "none") /\ tree' = Balanced(tree) /\ cursor' = AllStale

bstNext ==
  \/ \E i \in Keys : bst_probe(i) \/ bst_delete(i)
  \/ bst_copy \/ bst_destroy \/ bst_balance
  \/ \E c \in DOMAIN cursor :
       \/ bst_t_init(c) \/ bst_t_first(c) \/ bst_t_last(c) \/ bst_t_next(c) \/ bst_t_prev(c)
       \/ \E i \in Keys : bst_t_find(c, i)
       \/ \E i \in Keys, memory \in BOOLEAN : bst_t_insert(c, i, memory)
       \/ \E from \in DOMAIN cursor : bst_t_copy(c, from)

-----------------------------------------------------------------------------
(* avl.c *)

avl_create == Create("plain", "avl")

avl_probe(i) == Is("plain", "avl") /\ Probe(i, AvlGrown(i), Turned(i))

avl_delete(i) == Is("plain", "avl") /\ Delete(i, AvlDeleted(tree, i))

avl_t_init(c) == Is("plain", "avl") /\ Reinit(c)

avl_t_first(c) == Is("plain", "avl") /\ Move(c, First)

avl_t_last(c) == Is("plain", "avl") /\ Move(c, Final)

avl_t_find(c, i) == Is("plain", "avl") /\ i \in Keys /\ Move(c, FindPosition(tree, i))

avl_t_insert(c, i, memory) ==
  /\ Is("plain", "avl")
  /\ IF memory \/ Find(tree, i) # Nil THEN CursorInsert(c, i, AvlGrown(i), Turned(i)) ELSE Reinit(c)

avl_t_copy(c, from) == Is("plain", "avl") /\ CopyCursor(c, from)

avl_t_next(c) == Is("plain", "avl") /\ Move(c, Following(c))

avl_t_prev(c) == Is("plain", "avl") /\ Move(c, Preceding(c))

avl_copy == Is("plain", "avl") /\ Copy

avl_destroy == Is("plain", "avl") /\ Destroy

avlNext ==
  \/ \E i \in Keys : avl_probe(i) \/ avl_delete(i)
  \/ avl_copy \/ avl_destroy
  \/ \E c \in DOMAIN cursor :
       \/ avl_t_init(c) \/ avl_t_first(c) \/ avl_t_last(c) \/ avl_t_next(c) \/ avl_t_prev(c)
       \/ \E i \in Keys : avl_t_find(c, i)
       \/ \E i \in Keys, memory \in BOOLEAN : avl_t_insert(c, i, memory)
       \/ \E from \in DOMAIN cursor : avl_t_copy(c, from)

-----------------------------------------------------------------------------
(* rb.c *)

rb_create == Create("plain", "rb")

rb_probe(i) == Is("plain", "rb") /\ Probe(i, RbGrown(i), TRUE)

rb_delete(i) == Is("plain", "rb") /\ Delete(i, RbDeleted(tree, i))

rb_t_init(c) == Is("plain", "rb") /\ Reinit(c)

rb_t_first(c) == Is("plain", "rb") /\ Move(c, First)

rb_t_last(c) == Is("plain", "rb") /\ Move(c, Final)

rb_t_find(c, i) == Is("plain", "rb") /\ i \in Keys /\ Move(c, FindPosition(tree, i))

rb_t_insert(c, i, memory) ==
  /\ Is("plain", "rb")
  /\ IF memory \/ Find(tree, i) # Nil THEN CursorInsert(c, i, RbGrown(i), TRUE) ELSE Reinit(c)

rb_t_copy(c, from) == Is("plain", "rb") /\ CopyCursor(c, from)

rb_t_next(c) == Is("plain", "rb") /\ Move(c, Following(c))

rb_t_prev(c) == Is("plain", "rb") /\ Move(c, Preceding(c))

rb_copy == Is("plain", "rb") /\ Copy

rb_destroy == Is("plain", "rb") /\ Destroy

rbNext ==
  \/ \E i \in Keys : rb_probe(i) \/ rb_delete(i)
  \/ rb_copy \/ rb_destroy
  \/ \E c \in DOMAIN cursor :
       \/ rb_t_init(c) \/ rb_t_first(c) \/ rb_t_last(c) \/ rb_t_next(c) \/ rb_t_prev(c)
       \/ \E i \in Keys : rb_t_find(c, i)
       \/ \E i \in Keys, memory \in BOOLEAN : rb_t_insert(c, i, memory)
       \/ \E from \in DOMAIN cursor : rb_t_copy(c, from)

=============================================================================
