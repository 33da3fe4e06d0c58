------------------------------- MODULE TreeNodes -------------------------------
(***************************************************************************)
(* The nodes of the binary search trees of datastruct/tree/avl and what the  *)
(* twelve libraries there do with them.  Each library is one of four ways to *)
(* link nodes and one of three ways to balance them:                         *)
(*   "plain"    bst   avl   rb     links to the children only                *)
(*   "threaded" tbst  tavl  trb    an absent child is a thread to the         *)
(*                                 neighbour in order                        *)
(*   "right"    rtbst rtavl rtrb   the same, on the right side only           *)
(*   "parents"  pbst  pavl  prb    a third link to the parent                *)
(* A node is named by the key of its item.  Anchor is the table, seen as a    *)
(* node whose left child is the root, as the code casts &tree->root.         *)
(* Operators take a tree and return it changed.                              *)
(***************************************************************************)
EXTENDS Integers, FiniteSets, SequencesExt

CONSTANTS Anchor, Nil

Red == 1
Black == 0

EmptyTree(links, balance, keys, param) ==
  [links   |-> links,   \* how nodes are linked
   balance |-> balance, \* how the tree is balanced: "none", "avl" or "rb"
   param   |-> param,   \* the user's data, or Nil
   nodes   |-> {},      \* the nodes that exist; their number is the count
   link    |-> [n \in keys \cup {Anchor} |-> [d \in 0..1 |-> Nil]],
   thread  |-> [n \in keys \cup {Anchor} |-> [d \in 0..1 |-> FALSE]],
   up      |-> [n \in keys |-> Nil],
   tag     |-> [n \in keys |-> 0]]  \* the balance factor or the colour

Child(t, n, d) == IF t.thread[n][d] THEN Nil ELSE t.link[n][d]
Root(t) == t.link[Anchor][0]
Toward(n, i) == IF n = Anchor \/ i < n THEN 0 ELSE 1
SideOf(t, n, c) == IF t.link[n][0] = c THEN 0 ELSE 1

(* Whether an absent child on side d of n is replaced by a thread.            *)
Threads(t, n, d) == n # Anchor /\ (t.links = "threaded" \/ (t.links = "right" /\ d = 1))

-----------------------------------------------------------------------------
(* Ways through a tree.                                                      *)

RECURSIVE Descend(_, _, _)
(* The nodes from n to the last one on side d.                               *)
Descend(t, n, d) ==
  IF n = Nil THEN << >> ELSE <<n>> \o Descend(t, Child(t, n, d), d)
Extreme(t, n, d) == Last(Descend(t, n, d))

RECURSIVE Search(_, _, _)
Search(t, i, path) ==
  LET n == Last(path)
      c == Child(t, n, Toward(n, i))
  IN  IF c \in {Nil, i} THEN path ELSE Search(t, i, Append(path, c))

(* The nodes, from the table on, that the search for i passes before it.     *)
PathTo(t, i) == Search(t, i, <<Anchor>>)
Find(t, i) == LET n == Last(PathTo(t, i)) IN Child(t, n, Toward(n, i))

RECURSIVE ParentByThreads(_, _, _, _)
ParentByThreads(t, n, x, y) ==
  CASE t.thread[y][1] ->
         LET p == t.link[y][1]
         IN  IF p = Nil \/ t.link[p][0] # n THEN t.link[Extreme(t, x, 0)][0] ELSE p
    [] ~t.thread[y][1] /\ t.thread[x][0] ->
         LET p == t.link[x][0]
         IN  IF p = Nil \/ t.link[p][1] # n THEN t.link[Extreme(t, y, 1)][1] ELSE p
    [] OTHER -> ParentByThreads(t, n, t.link[x][0], t.link[y][1])

(* The parent of n in a threaded tree, which has no links to parents.        *)
find_parent(t, n) == IF Root(t) = n THEN Anchor ELSE ParentByThreads(t, n, n, n)

(* The parent of n, as the functions that rebalance find it: a link, the      *)
(* threads, or the stack of the nodes passed on the way down.                *)
ParentOf(t, n) ==
  CASE t.links = "parents" -> IF t.up[n] = Nil THEN Anchor ELSE t.up[n]
    [] t.links = "threaded" /\ t.balance = "avl" -> find_parent(t, n)
    [] OTHER -> Last(PathTo(t, n))

-----------------------------------------------------------------------------
(* Links.                                                                    *)

(* Side d of n has no child; m is the neighbour there, should it be threaded. *)
Bare(t, n, d, m) ==
  [t EXCEPT !.link[n][d] = IF Threads(t, n, d) THEN m ELSE Nil,
            !.thread[n][d] = Threads(t, n, d)]
Hang(t, n, d, c) ==
  [t EXCEPT !.link[n][d] = c, !.thread[n][d] = FALSE,
            !.up[c] = IF t.links = "parents" /\ n # Anchor THEN n ELSE Nil]
Put(t, n, d, c, m) == IF c = Nil THEN Bare(t, n, d, m) ELSE Hang(t, n, d, c)

(* Mutant of Attach: the new leaf does not point back to its parent.         *)
AttachOneWay(t, p, d, n) ==
  LET m == IF p = Anchor THEN Nil ELSE t.link[p][d]
      bare == Bare(Bare(t, n, d, m), n, 1 - d, Nil)
  IN  [Hang(bare, p, d, n) EXCEPT !.nodes = @ \cup {n}]

(* A new node n below p on side d; it takes over the thread that was there.  *)
Attach(t, p, d, n) ==
  LET m == IF p = Anchor THEN Nil ELSE t.link[p][d]
      bare == Bare(Bare(t, n, d, m), n, 1 - d, IF p = Anchor THEN Nil ELSE p)
  IN  [Hang(bare, p, d, n) EXCEPT !.nodes = @ \cup {n}]

(* The child x of y on side d takes y's place below q; y goes below x.       *)
Rotate(t, q, y, d) ==
  LET x == Child(t, y, d)
      lowered == Hang(Put(t, y, d, Child(t, x, 1 - d), x), x, 1 - d, y)
  IN  Hang(lowered, q, SideOf(t, q, y), x)

(* The tree without p, as all twelve delete functions unlink it, and where    *)
(* it has become lower: side d of the node at; lost is the tag that went.    *)
(* The neighbour of p on side e, if below p, takes its place.                *)
Unlink(t, p) ==
  LET q    == Last(PathTo(t, p))
      d    == SideOf(t, q, p)
      e    == IF t.links = "right" THEN 0 ELSE 1
      far  == Child(t, p, e)
      near == Child(t, p, 1 - e)
      path == Descend(t, far, 1 - e)
      s    == Last(path)
      r    == path[Len(path) - 1]
      Rethread(u, to) ==
        LET m == Extreme(u, near, e)
        IN  IF near # Nil /\ Threads(u, m, e) THEN [u EXCEPT !.link[m][e] = to] ELSE u
      NearBelow(u, n) == Rethread(Put(u, n, 1 - e, near, t.link[p][1 - e]), n)
      Gone(u) == [u EXCEPT !.nodes = @ \ {p}, !.up[p] = Nil, !.tag[p] = 0,
                           !.link[p] = [f \in 0..1 |-> Nil],
                           !.thread[p] = [f \in 0..1 |-> FALSE]]
      InPlace(u, n) == [Hang(u, q, d, n) EXCEPT !.tag[n] = t.tag[p]]
  IN  CASE far = Nil ->
             [tree |-> Gone(Rethread(Put(t, q, d, near, t.link[p][d]), t.link[p][e])),
              at |-> q, side |-> d, lost |-> t.tag[p]]
        [] Len(path) = 1 ->
             [tree |-> Gone(InPlace(NearBelow(t, s), s)),
              at |-> s, side |-> e, lost |-> t.tag[s]]
        [] OTHER ->
             [tree |-> Gone(InPlace(Hang(NearBelow(Put(t, r, 1 - e, Child(t, s, e), s), s),
                                         s, e, far), s)),
              at |-> r, side |-> 1 - e, lost |-> t.tag[s]]

-----------------------------------------------------------------------------
(* AVL trees: the tag is the height on the right minus the one on the left.  *)

(* y below z leans by two to one side.                                       *)
AvlRebalance(t, z, y) ==
  LET s == IF t.tag[y] < 0 THEN -1 ELSE 1
      d == IF s < 0 THEN 0 ELSE 1
      x == Child(t, y, d)
      w == Child(t, x, 1 - d)
  IN  IF t.tag[x] = -s
      THEN [Rotate(Rotate(t, y, x, 1 - d), z, y, d)
              EXCEPT !.tag[x] = IF t.tag[w] = -s THEN s ELSE 0,
                     !.tag[y] = IF t.tag[w] = s THEN -s ELSE 0,
                     !.tag[w] = 0]
      ELSE [Rotate(t, z, y, d) EXCEPT !.tag[x] = IF @ = 0 THEN -s ELSE 0,
                                      !.tag[y] = IF t.tag[x] = 0 THEN s ELSE 0]

(* i was attached: the tags change from the last node on its path that was    *)
(* not balanced, and that node may have to be rebalanced.                    *)
AvlInserted(t, i) ==
  LET path == Tail(PathTo(t, i))
      uneven == {k \in DOMAIN path : t.tag[path[k]] # 0}
      from == Max(uneven \cup {1})
      y == path[from]
      below == {path[k] : k \in from..Len(path)}
      leant == [t EXCEPT !.tag = [n \in DOMAIN t.tag |->
                  CASE n \notin below -> t.tag[n]
                    [] n \in below /\ i < n -> t.tag[n] - 1
                    [] OTHER -> t.tag[n] + 1]]
  IN  IF path # << >> /\ leant.tag[y] \in {-2, 2}
      THEN AvlRebalance(leant, ParentOf(leant, y), y)
      ELSE leant

RECURSIVE AvlShrunk(_, _, _)
(* The tree below y on side d has become lower by one.                       *)
AvlShrunk(t, y, d) ==
  LET q == ParentOf(t, y)
      leant == [t EXCEPT !.tag[y] = IF d = 0 THEN @ + 1 ELSE @ - 1]
      again == AvlRebalance(leant, q, y)
      side == SideOf(t, q, y)
  IN  CASE y = Anchor -> t
        [] y # Anchor /\ leant.tag[y] \in {-1, 1} -> leant
        [] y # Anchor /\ leant.tag[y] = 0 -> AvlShrunk(leant, q, side)
        [] OTHER -> IF t.tag[Child(t, y, 1 - d)] = 0 THEN again ELSE AvlShrunk(again, q, side)

AvlDeleted(t, p) == LET u == Unlink(t, p) IN AvlShrunk(u.tree, u.at, u.side)

-----------------------------------------------------------------------------
(* Red-black trees: the tag is the colour.                                   *)

IsRed(t, n) == n # Nil /\ t.tag[n] = Red

RECURSIVE RbRaise(_, _)
(* q is red; if its parent f is red too, one of them must change.            *)
RbRaise(t, q) ==
  LET f == ParentOf(t, q)
      g == ParentOf(t, f)
      e == SideOf(t, g, f)
      uncle == Child(t, g, 1 - e)
      straight == SideOf(t, f, q) = e
      y == IF straight THEN f ELSE q
      lined == IF straight THEN t ELSE Rotate(t, g, f, 1 - e)
  IN  CASE f = Anchor \/ Root(t) = f -> t
        [] f # Anchor /\ Root(t) # f /\ ~IsRed(t, f) -> t
        [] f # Anchor /\ Root(t) # f /\ IsRed(t, f) /\ IsRed(t, uncle) ->
             RbRaise([t EXCEPT !.tag[f] = Black, !.tag[uncle] = Black, !.tag[g] = Red], g)
        [] OTHER ->
             Rotate([lined EXCEPT !.tag[g] = Red, !.tag[y] = Black], ParentOf(t, g), g, e)

RbInserted(t, i) ==
  LET raised == RbRaise([t EXCEPT !.tag[i] = Red], i)
  IN  [raised EXCEPT !.tag[Root(raised)] = Black]

RECURSIVE RbLacking(_, _, _)
(* Paths through side d of f have one black node too few.                    *)
RbLacking(t, f, d) ==
  LET x == Child(t, f, d)
      g == ParentOf(t, f)
      v == Child(t, f, 1 - d)
      swapped == Rotate([t EXCEPT !.tag[v] = Black, !.tag[f] = Red], g, f, 1 - d)
      t1 == IF IsRed(t, v) THEN swapped ELSE t
      g1 == IF IsRed(t, v) THEN v ELSE g
      w == Child(t1, f, 1 - d)
      inner == Child(t1, w, d)
      outer == Child(t1, w, 1 - d)
      lined == Rotate([t1 EXCEPT !.tag[inner] = Black, !.tag[w] = Red], f, w, d)
      t2 == IF IsRed(t1, outer) THEN t1 ELSE lined
      w2 == Child(t2, f, 1 - d)
      done == [t2 EXCEPT !.tag[w2] = t2.tag[f], !.tag[f] = Black,
                         !.tag[Child(t2, w2, 1 - d)] = Black]
  IN  CASE IsRed(t, x) -> [t EXCEPT !.tag[x] = Black]
        [] ~IsRed(t, x) /\ f = Anchor -> t
        [] ~IsRed(t, x) /\ f # Anchor /\ ~IsRed(t1, inner) /\ ~IsRed(t1, outer) ->
             RbLacking([t1 EXCEPT !.tag[w] = Red], g1, SideOf(t1, g1, f))
        [] OTHER -> Rotate(done, g1, f, 1 - d)

RbDeleted(t, p) ==
  LET u == Unlink(t, p)
  IN  IF u.lost = Black THEN RbLacking(u.tree, u.at, u.side) ELSE u.tree

=============================================================================
