-------------------------- MODULE LibavlRightThreaded --------------------------
(***************************************************************************)
(* rtbst.c, rtavl.c and rtrb.c: the trees of datastruct/tree/avl with threads  *)
(* to the right only.  A node without left child is deleted by linking its    *)
(* right subtree up, and a traverser without left child searches for the     *)
(* previous item from the root.                                              *)
(***************************************************************************)
EXTENDS TreeTable

-----------------------------------------------------------------------------
(* rtbst.c *)

rtbst_create == Create("right", "none")

rtbst_probe(i) == Is("right", "none") /\ Probe(i, Grown(i), FALSE)

rtbst_delete(i) == Is("right", "none") /\ Delete(i, BstDeleted(i))

rtbst_t_init(c) == Is("right", "none") /\ Reinit(c)

rtbst_t_first(c) == Is("right", "none") /\ Move(c, First)

rtbst_t_last(c) == Is("right", "none") /\ Move(c, Final)

rtbst_t_find(c, i) == Is("right", "none") /\ i \in Keys /\ Move(c, FindPosition(tree, i))

rtbst_t_insert(c, i, memory) ==
  /\ Is("right", "none")
  /\ IF memory \/ Find(tree, i) # Nil THEN CursorInsert(c, i, Grown(i), FALSE) ELSE Reinit(c)

rtbst_t_copy(c, from) == Is("right", "none") /\ CopyCursor(c, from)

rtbst_t_next(c) == Is("right", "none") /\ Move(c, Following(c))

rtbst_t_prev(c) == Is("right", "none") /\ Move(c, Preceding(c))

rtbst_copy == Is("right", "none") /\ Copy

rtbst_destroy == Is("right", "none") /\ Destroy

rtbst_balance == Is("right", "none") /\ tree' = Balanced(tree) /\ cursor' = AllStale

rtbstNext ==
  \/ \E i \in Keys : rtbst_probe(i) \/ rtbst_delete(i)
  \/ rtbst_copy \/ rtbst_destroy \/ rtbst_balance
  \/ \E c \in DOMAIN cursor :
       \/ rtbst_t_init(c) \/ rtbst_t_first(c) \/ rtbst_t_last(c) \/ rtbst_t_next(c) \/ rtbst_t_prev(c)
       \/ \E i \in Keys : rtbst_t_find(c, i)
       \/ \E i \in Keys, memory \in BOOLEAN : rtbst_t_insert(c, i, memory)
       \/ \E from \in DOMAIN cursor : rtbst_t_copy(c, from)

-----------------------------------------------------------------------------
(* rtavl.c *)

rtavl_create == Create("right", "avl")

rtavl_probe(i) == Is("right", "avl") /\ Probe(i, AvlGrown(i), FALSE)

rtavl_delete(i) == Is("right", "avl") /\ Delete(i, AvlDeleted(tree, i))

rtavl_t_init(c) == Is("right", "avl") /\ Reinit(c)

rtavl_t_first(c) == Is("right", "avl") /\ Move(c, First)

rtavl_t_last(c) == Is("right", "avl") /\ Move(c, Final)

rtavl_t_find(c, i) == Is("right", "avl") /\ i \in Keys /\ Move(c, FindPosition(tree, i))

rtavl_t_insert(c, i, memory) ==
  /\ Is("right", "avl")
  /\ IF memory \/ Find(tree, i) # Nil THEN CursorInsert(c, i, AvlGrown(i), FALSE) ELSE Reinit(c)

rtavl_t_copy(c, from) == Is("right", "avl") /\ CopyCursor(c, from)

rtavl_t_next(c) == Is("right", "avl") /\ Move(c, Following(c))

rtavl_t_prev(c) == Is("right", "avl") /\ Move(c, Preceding(c))

rtavl_copy == Is("right", "avl") /\ Copy

rtavl_destroy == Is("right", "avl") /\ Destroy

rtavlNext ==
  \/ \E i \in Keys : rtavl_probe(i) \/ rtavl_delete(i)
  \/ rtavl_copy \/ rtavl_destroy
  \/ \E c \in DOMAIN cursor :
       \/ rtavl_t_init(c) \/ rtavl_t_first(c) \/ rtavl_t_last(c) \/ rtavl_t_next(c) \/ rtavl_t_prev(c)
       \/ \E i \in Keys : rtavl_t_find(c, i)
       \/ \E i \in Keys, memory \in BOOLEAN : rtavl_t_insert(c, i, memory)
       \/ \E from \in DOMAIN cursor : rtavl_t_copy(c, from)

-----------------------------------------------------------------------------
(* rtrb.c *)

rtrb_create == Create("right", "rb")

rtrb_probe(i) == Is("right", "rb") /\ Probe(i, RbGrown(i), FALSE)

rtrb_delete(i) == Is("right", "rb") /\ Delete(i, RbDeleted(tree, i))

rtrb_t_init(c) == Is("right", "rb") /\ Reinit(c)

rtrb_t_first(c) == Is("right", "rb") /\ Move(c, First)

rtrb_t_last(c) == Is("right", "rb") /\ Move(c, Final)

rtrb_t_find(c, i) == Is("right", "rb") /\ i \in Keys /\ Move(c, FindPosition(tree, i))

rtrb_t_insert(c, i, memory) ==
  /\ Is("right", "rb")
  /\ IF memory \/ Find(tree, i) # Nil THEN CursorInsert(c, i, RbGrown(i), FALSE) ELSE Reinit(c)

rtrb_t_copy(c, from) == Is("right", "rb") /\ CopyCursor(c, from)

rtrb_t_next(c) == Is("right", "rb") /\ Move(c, Following(c))

rtrb_t_prev(c) == Is("right", "rb") /\ Move(c, Preceding(c))

rtrb_copy == Is("right", "rb") /\ Copy

rtrb_destroy == Is("right", "rb") /\ Destroy

rtrbNext ==
  \/ \E i \in Keys : rtrb_probe(i) \/ rtrb_delete(i)
  \/ rtrb_copy \/ rtrb_destroy
  \/ \E c \in DOMAIN cursor :
       \/ rtrb_t_init(c) \/ rtrb_t_first(c) \/ rtrb_t_last(c) \/ rtrb_t_next(c) \/ rtrb_t_prev(c)
       \/ \E i \in Keys : rtrb_t_find(c, i)
       \/ \E i \in Keys, memory \in BOOLEAN : rtrb_t_insert(c, i, memory)
       \/ \E from \in DOMAIN cursor : rtrb_t_copy(c, from)

=============================================================================
