----------------------------- MODULE LibavlParents -----------------------------
(***************************************************************************)
(* pbst.c, pavl.c and prb.c: the trees of datastruct/tree/avl whose nodes link *)
(* to their parents.                                                         *)
(***************************************************************************)
EXTENDS TreeTable

-----------------------------------------------------------------------------
(* pbst.c *)

pbst_create == Create("parents", "none")

pbst_probe(i) == Is("parents", "none") /\ Probe(i, Grown(i), FALSE)

pbst_delete(i) == Is("parents", "none") /\ Delete(i, BstDeleted(i))

pbst_t_init(c) == Is("parents", "none") /\ Reinit(c)

pbst_t_first(c) == Is("parents", "none") /\ Move(c, First)

pbst_t_last(c) == Is("parents", "none") /\ Move(c, Final)

pbst_t_find(c, i) == Is("parents", "none") /\ i \in Keys /\ Move(c, FindPosition(tree, i))

pbst_t_insert(c, i, memory) ==
  /\ Is("parents", "none")
  /\ IF memory \/ Find(tree, i) # Nil THEN CursorInsert(c, i, Grown(i), FALSE) ELSE Reinit(c)

pbst_t_copy(c, from) == Is("parents", "none") /\ CopyCursor(c, from)

pbst_t_next(c) == Is("parents", "none") /\ Move(c, Following(c))

pbst_t_prev(c) == Is("parents", "none") /\ Move(c, Preceding(c))

pbst_copy == Is("parents", "none") /\ Copy

pbst_destroy == Is("parents", "none") /\ Destroy

pbst_balance == Is("parents", "none") /\ tree' = Balanced(tree) /\ cursor' = AllStale

pbstNext ==
  \/ \E i \in Keys : pbst_probe(i) \/ pbst_delete(i)
  \/ pbst_copy \/ pbst_destroy \/ pbst_balance
  \/ \E c \in DOMAIN cursor :
       \/ pbst_t_init(c) \/ pbst_t_first(c) \/ pbst_t_last(c) \/ pbst_t_next(c) \/ pbst_t_prev(c)
       \/ \E i \in Keys : pbst_t_find(c, i)
       \/ \E i \in Keys, memory \in BOOLEAN : pbst_t_insert(c, i, memory)
       \/ \E from \in DOMAIN cursor : pbst_t_copy(c, from)

-----------------------------------------------------------------------------
(* pavl.c *)

pavl_create == Create("parents", "avl")

pavl_probe(i) == Is("parents", "avl") /\ Probe(i, AvlGrown(i), FALSE)

pavl_delete(i) == Is("parents", "avl") /\ Delete(i, AvlDeleted(tree, i))

pavl_t_init(c) == Is("parents", "avl") /\ Reinit(c)

pavl_t_first(c) == Is("parents", "avl") /\ Move(c, First)

pavl_t_last(c) == Is("parents", "avl") /\ Move(c, Final)

pavl_t_find(c, i) == Is("parents", "avl") /\ i \in Keys /\ Move(c, FindPosition(tree, i))

pavl_t_insert(c, i, memory) ==
  /\ Is("parents", "avl")
  /\ IF memory \/ Find(tree, i) # Nil THEN CursorInsert(c, i, AvlGrown(i), FALSE) ELSE Reinit(c)

pavl_t_copy(c, from) == Is("parents", "avl") /\ CopyCursor(c, from)

pavl_t_next(c) == Is("parents", "avl") /\ Move(c, Following(c))

pavl_t_prev(c) == Is("parents", "avl") /\ Move(c, Preceding(c))

pavl_copy == Is("parents", "avl") /\ Copy

pavl_destroy == Is("parents", "avl") /\ Destroy

pavlNext ==
  \/ \E i \in Keys : pavl_probe(i) \/ pavl_delete(i)
  \/ pavl_copy \/ pavl_destroy
  \/ \E c \in DOMAIN cursor :
       \/ pavl_t_init(c) \/ pavl_t_first(c) \/ pavl_t_last(c) \/ pavl_t_next(c) \/ pavl_t_prev(c)
       \/ \E i \in Keys : pavl_t_find(c, i)
       \/ \E i \in Keys, memory \in BOOLEAN : pavl_t_insert(c, i, memory)
       \/ \E from \in DOMAIN cursor : pavl_t_copy(c, from)

-----------------------------------------------------------------------------
(* prb.c *)

prb_create == Create("parents", "rb")

prb_probe(i) == Is("parents", "rb") /\ Probe(i, RbGrown(i), FALSE)

prb_delete(i) == Is("parents", "rb") /\ Delete(i, RbDeleted(tree, i))

prb_t_init(c) == Is("parents", "rb") /\ Reinit(c)

prb_t_first(c) == Is("parents", "rb") /\ Move(c, First)

prb_t_last(c) == Is("parents", "rb") /\ Move(c, Final)

prb_t_find(c, i) == Is("parents", "rb") /\ i \in Keys /\ Move(c, FindPosition(tree, i))

prb_t_insert(c, i, memory) ==
  /\ Is("parents", "rb")
  /\ IF memory \/ Find(tree, i) # Nil THEN CursorInsert(c, i, RbGrown(i), FALSE) ELSE Reinit(c)

prb_t_copy(c, from) == Is("parents", "rb") /\ CopyCursor(c, from)

prb_t_next(c) == Is("parents", "rb") /\ Move(c, Following(c))

prb_t_prev(c) == Is("parents", "rb") /\ Move(c, Preceding(c))

prb_copy == Is("parents", "rb") /\ Copy

prb_destroy == Is("parents", "rb") /\ Destroy

prbNext ==
  \/ \E i \in Keys : prb_probe(i) \/ prb_delete(i)
  \/ prb_copy \/ prb_destroy
  \/ \E c \in DOMAIN cursor :
       \/ prb_t_init(c) \/ prb_t_first(c) \/ prb_t_last(c) \/ prb_t_next(c) \/ prb_t_prev(c)
       \/ \E i \in Keys : prb_t_find(c, i)
       \/ \E i \in Keys, memory \in BOOLEAN : prb_t_insert(c, i, memory)
       \/ \E from \in DOMAIN cursor : prb_t_copy(c, from)

=============================================================================
