---------------------------- MODULE LibavlThreaded -----------------------------
(***************************************************************************)
(* tbst.c, tavl.c and trb.c: the threaded trees of datastruct/tree/avl.  A     *)
(* traverser is a pointer to a node, and no change of the tree but the        *)
(* deletion of its item concerns it.                                         *)
(***************************************************************************)
EXTENDS TreeTable

-----------------------------------------------------------------------------
(* tbst.c *)

tbst_create == Create("threaded", "none")

tbst_probe(i) == Is("threaded", "none") /\ Probe(i, Grown(i), FALSE)

tbst_delete(i) == Is("threaded", "none") /\ Delete(i, BstDeleted(i))

tbst_t_init(c) == Is("threaded", "none") /\ Reinit(c)

tbst_t_first(c) == Is("threaded", "none") /\ Move(c, First)

tbst_t_last(c) == Is("threaded", "none") /\ Move(c, Final)

tbst_t_find(c, i) == Is("threaded", "none") /\ i \in Keys /\ Move(c, FindPosition(tree, i))

tbst_t_insert(c, i, memory) ==
  /\ Is("threaded", "none")
  /\ IF memory \/ Find(tree, i) # Nil THEN CursorInsert(c, i, Grown(i), FALSE) ELSE Reinit(c)

tbst_t_copy(c, from) == Is("threaded", "none") /\ CopyCursor(c, from)

tbst_t_next(c) == Is("threaded", "none") /\ Move(c, Following(c))

tbst_t_prev(c) == Is("threaded", "none") /\ Move(c, Preceding(c))

tbst_copy == Is("threaded", "none") /\ Copy

tbst_destroy == Is("threaded", "none") /\ Destroy

tbst_balance == Is("threaded", "none") /\ tree' = Balanced(tree) /\ cursor' = AllStale

tbstNext ==
  \/ \E i \in Keys : tbst_probe(i) \/ tbst_delete(i)
  \/ tbst_copy \/ tbst_destroy \/ tbst_balance
  \/ \E c \in DOMAIN cursor :
       \/ tbst_t_init(c) \/ tbst_t_first(c) \/ tbst_t_last(c) \/ tbst_t_next(c) \/ tbst_t_prev(c)
       \/ \E i \in Keys : tbst_t_find(c, i)
       \/ \E i \in Keys, memory \in BOOLEAN : tbst_t_insert(c, i, memory)
       \/ \E from \in DOMAIN cursor : tbst_t_copy(c, from)

-----------------------------------------------------------------------------
(* tavl.c *)

tavl_create == Create("threaded", "avl")

tavl_probe(i) == Is("threaded", "avl") /\ Probe(i, AvlGrown(i), FALSE)

tavl_delete(i) == Is("threaded", "avl") /\ Delete(i, AvlDeleted(tree, i))

tavl_t_init(c) == Is("threaded", "avl") /\ Reinit(c)

tavl_t_first(c) == Is("threaded", "avl") /\ Move(c, First)

tavl_t_last(c) == Is("threaded", "avl") /\ Move(c, Final)

tavl_t_find(c, i) == Is("threaded", "avl") /\ i \in Keys /\ Move(c, FindPosition(tree, i))

tavl_t_insert(c, i, memory) ==
  /\ Is("threaded", "avl")
  /\ IF memory \/ Find(tree, i) # Nil THEN CursorInsert(c, i, AvlGrown(i), FALSE) ELSE Reinit(c)

tavl_t_copy(c, from) == Is("threaded", "avl") /\ CopyCursor(c, from)

tavl_t_next(c) == Is("threaded", "avl") /\ Move(c, Following(c))

tavl_t_prev(c) == Is("threaded", "avl") /\ Move(c, Preceding(c))

tavl_copy == Is("threaded", "avl") /\ Copy

tavl_destroy == Is("threaded", "avl") /\ Destroy

tavlNext ==
  \/ \E i \in Keys : tavl_probe(i) \/ tavl_delete(i)
  \/ tavl_copy \/ tavl_destroy
  \/ \E c \in DOMAIN cursor :
       \/ tavl_t_init(c) \/ tavl_t_first(c) \/ tavl_t_last(c) \/ tavl_t_next(c) \/ tavl_t_prev(c)
       \/ \E i \in Keys : tavl_t_find(c, i)
       \/ \E i \in Keys, memory \in BOOLEAN : tavl_t_insert(c, i, memory)
       \/ \E from \in DOMAIN cursor : tavl_t_copy(c, from)

-----------------------------------------------------------------------------
(* trb.c *)

trb_create == Create("threaded", "rb")

trb_probe(i) == Is("threaded", "rb") /\ Probe(i, RbGrown(i), FALSE)

trb_delete(i) == Is("threaded", "rb") /\ Delete(i, RbDeleted(tree, i))

trb_t_init(c) == Is("threaded", "rb") /\ Reinit(c)

trb_t_first(c) == Is("threaded", "rb") /\ Move(c, First)

trb_t_last(c) == Is("threaded", "rb") /\ Move(c, Final)

trb_t_find(c, i) == Is("threaded", "rb") /\ i \in Keys /\ Move(c, FindPosition(tree, i))

trb_t_insert(c, i, memory) ==
  /\ Is("threaded", "rb")
  /\ IF memory \/ Find(tree, i) # Nil THEN CursorInsert(c, i, RbGrown(i), FALSE) ELSE Reinit(c)

trb_t_copy(c, from) == Is("threaded", "rb") /\ CopyCursor(c, from)

trb_t_next(c) == Is("threaded", "rb") /\ Move(c, Following(c))

trb_t_prev(c) == Is("threaded", "rb") /\ Move(c, Preceding(c))

trb_copy == Is("threaded", "rb") /\ Copy

trb_destroy == Is("threaded", "rb") /\ Destroy

trbNext ==
  \/ \E i \in Keys : trb_probe(i) \/ trb_delete(i)
  \/ trb_copy \/ trb_destroy
  \/ \E c \in DOMAIN cursor :
       \/ trb_t_init(c) \/ trb_t_first(c) \/ trb_t_last(c) \/ trb_t_next(c) \/ trb_t_prev(c)
       \/ \E i \in Keys : trb_t_find(c, i)
       \/ \E i \in Keys, memory \in BOOLEAN : trb_t_insert(c, i, memory)
       \/ \E from \in DOMAIN cursor : trb_t_copy(c, from)

=============================================================================
