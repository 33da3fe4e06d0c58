------------------------------- MODULE TreeTable -------------------------------
(***************************************************************************)
(* A table of datastruct/tree/avl and the traversers on it.  What differs    *)
(* between the libraries is how a traverser moves: "plain" ones keep a stack  *)
(* of the nodes above their own and compute it again when the tree's          *)
(* generation has changed; the others follow threads or links to parents.    *)
(* The functions of each library, by their names, are in LibavlPlain,         *)
(* LibavlThreaded, LibavlRightThreaded and LibavlParents.                    *)
(* The user re-initialises a traverser when it deletes the item it is on.    *)
(***************************************************************************)
EXTENDS TreeWhole

CONSTANTS
  MaxHeight,  \* BST_MAX_HEIGHT
  Scopes      \* per library: the keys, the traversers, and the table's param

VARIABLES
  tree,       \* the table
  cursor      \* per traverser: its node, its stack, and whether its
              \* generation is not that of the tree

vars == <<tree, cursor>>

Nowhere == [at |-> Nil, stack |-> << >>, stale |-> FALSE]
At(n, stack) == [at |-> n, stack |-> stack, stale |-> FALSE]

Keys == DOMAIN tree.up
Is(links, balance) == tree.links = links /\ tree.balance = balance

Create(links, balance) ==
  \E s \in Scopes :
    /\ s.links = links /\ s.balance = balance
    /\ tree = EmptyTree(links, balance, s.keys, s.param)
    /\ cursor = [c \in s.cursors |-> Nowhere]

-----------------------------------------------------------------------------
(* Positions in t.  The stack is that of a plain library; it is the longest  *)
(* the function uses, also when the traverser ends up nowhere.               *)

StackTo(t, i) == IF t.links = "plain" THEN Tail(PathTo(t, i)) ELSE << >>
Recorded(t, stack) == IF t.links = "plain" THEN stack ELSE << >>

(* The first item (d = 0) or the last (d = 1).                               *)
EndPosition(t, d) ==
  LET path == Descend(t, Root(t), d)
  IN  IF path = << >> THEN Nowhere ELSE At(Last(path), Recorded(t, Front(path)))

FindPosition(t, i) == At(Find(t, i), StackTo(t, i))

(* trav_refresh of the plain libraries.                                      *)
Refreshed(t, cur) == IF cur.stale THEN At(cur.at, StackTo(t, cur.at)) ELSE cur

RECURSIVE PopStack(_, _, _, _)
PopStack(t, y, stack, d) ==
  CASE stack = << >> -> Nowhere
    [] stack # << >> /\ y = t.link[Last(stack)][d] -> PopStack(t, Last(stack), Front(stack), d)
    [] OTHER -> At(Last(stack), Front(stack))

RECURSIVE ClimbUp(_, _, _)
ClimbUp(t, y, d) ==
  LET p == t.up[y]
  IN  CASE p = Nil -> Nowhere
        [] p # Nil /\ y = t.link[p][d] -> ClimbUp(t, p, d)
        [] OTHER -> At(p, << >>)

(* The last node the search for n went to the right of.                      *)
SearchBefore(t, n) ==
  LET left == SelectSeq(Tail(PathTo(t, n)), LAMBDA p : p < n)
  IN  IF left = << >> THEN Nowhere ELSE At(Last(left), << >>)

(* Mutant of Step: traversers are not refreshed.                             *)
StepUnrefreshed(t, cur, d) ==
  LET x == cur.at
      path == Descend(t, Child(t, x, d), 1 - d)
  IN  CASE x = Nil -> EndPosition(t, 1 - d)
        [] x # Nil /\ path # << >> -> At(Last(path), Recorded(t, cur.stack \o <<x>> \o Front(path)))
        [] x # Nil /\ path = << >> /\ t.links = "plain" -> PopStack(t, x, cur.stack, d)
        [] x # Nil /\ path = << >> /\ t.links = "parents" -> ClimbUp(t, x, d)
        [] x # Nil /\ path = << >> /\ t.links \in {"threaded", "right"} ->
             IF Threads(t, x, d) THEN At(t.link[x][d], << >>) ELSE SearchBefore(t, x)

(* One step from cur in order: to the next item (d = 1), the previous one     *)
(* (d = 0), or from nowhere to the first or the last.                        *)
Step(t, cur, d) ==
  LET x == cur.at
      stack == Refreshed(t, cur).stack
      path == Descend(t, Child(t, x, d), 1 - d)
  IN  CASE x = Nil -> EndPosition(t, 1 - d)
        [] x # Nil /\ path # << >> -> At(Last(path), Recorded(t, stack \o <<x>> \o Front(path)))
        [] x # Nil /\ path = << >> /\ t.links = "plain" -> PopStack(t, x, stack, d)
        [] x # Nil /\ path = << >> /\ t.links = "parents" -> ClimbUp(t, x, d)
        [] x # Nil /\ path = << >> /\ t.links \in {"threaded", "right"} ->
             IF Threads(t, x, d) THEN At(t.link[x][d], << >>) ELSE SearchBefore(t, x)

Settled(position) == IF position.at = Nil THEN Nowhere ELSE position

(* The other traversers when the tree's generation changes.  A stack of an    *)
(* old generation is never read.                                             *)
Stale(cur) ==
  IF cur.at # Nil /\ tree.links = "plain" THEN [cur EXCEPT !.stack = << >>, !.stale = TRUE] ELSE cur
AllStale == [c \in DOMAIN cursor |-> Stale(cursor[c])]

-----------------------------------------------------------------------------
(* Operations on the tree.                                                   *)

(* The tree with a new leaf i, before and after it is rebalanced.            *)
Grown(i) == LET p == Last(PathTo(tree, i)) IN Attach(tree, p, Toward(p, i), i)
AvlGrown(i) == AvlInserted(Grown(i), i)
RbGrown(i) == RbInserted(Grown(i), i)

(* Probe for i, after which the tree is t; bumps says whether the generation  *)
(* changes.                                                                  *)
Probe(i, t, bumps) ==
  /\ i \in Keys /\ Find(tree, i) = Nil
  /\ tree' = t
  /\ cursor' = IF bumps THEN AllStale ELSE cursor

(* t_insert: probe, and then onto the item that was found or inserted.  The   *)
(* plain libraries leave the traverser a generation behind.                  *)
CursorInsert(c, i, t, bumps) ==
  LET found == Find(tree, i) # Nil
  IN  /\ c \in DOMAIN cursor /\ i \in Keys
      /\ tree' = IF found THEN tree ELSE t
      /\ cursor' = [(IF ~found /\ bumps THEN AllStale ELSE cursor)
                      EXCEPT ![c] = Stale(At(i, << >>))]

(* p is deleted, after which the tree is t.                                  *)
Delete(p, t) ==
  /\ p \in Keys /\ Find(tree, p) = p
  /\ tree' = t
  /\ cursor' = [c \in DOMAIN cursor |->
                  IF cursor[c].at = p THEN Nowhere ELSE Stale(cursor[c])]

(* c comes to a position: t_first, t_last, t_find, t_next and t_prev.         *)
Move(c, position) ==
  /\ c \in DOMAIN cursor
  /\ cursor' = [cursor EXCEPT ![c] = Settled(position)]
  /\ UNCHANGED tree

(* t_init, also when t_insert gets no memory.                                *)
Reinit(c) ==
  /\ c \in DOMAIN cursor /\ cursor' = [cursor EXCEPT ![c] = Nowhere] /\ UNCHANGED tree

(* t_copy.  A stack of an old generation is not copied.                      *)
CopyCursor(c, from) ==
  /\ c \in DOMAIN cursor /\ from \in DOMAIN cursor \ {c}
  /\ cursor' = [cursor EXCEPT ![c] = cursor[from]]
  /\ UNCHANGED tree

(* A copy is made, and the program goes on with it.                          *)
Copy == tree' = Copied(tree) /\ cursor' = [c \in DOMAIN cursor |-> Nowhere]

(* The table is destroyed, and another is created.                           *)
Destroy ==
  /\ Destroyed(tree) # << >>
  /\ tree' = EmptyTree(tree.links, tree.balance, Keys, tree.param)
  /\ cursor' = [c \in DOMAIN cursor |-> Nowhere]

First == EndPosition(tree, 0)
Final == EndPosition(tree, 1)
Following(c) == Step(tree, cursor[c], 1)
Preceding(c) == Step(tree, cursor[c], 0)

BstDeleted(p) == Unlink(tree, p).tree

=============================================================================
