-------------------------------- MODULE MCTrees --------------------------------
EXTENDS Libavl

CONSTANTS ta, tb, user

(* A table whose nodes link to their parents has no param: see copy_error_recovery. *)
MCScope(links, balance, n, cursors) ==
  [links |-> links, balance |-> balance, keys |-> 1..n, cursors |-> cursors,
   param |-> IF links = "parents" THEN Nil ELSE user]

Ways == {"plain", "threaded", "right", "parents"}

(* Seven keys where the stack, the threads or the links to parents find the   *)
(* way up while the tree is rebalanced, six where only rotations are new.    *)
MCScopes ==
  {MCScope("plain", "none", 6, {ta}), MCScope("plain", "none", 3, {ta, tb})}
    \cup {MCScope("plain", x, 7, {ta}) : x \in {"avl", "rb"}}
    \cup {MCScope("plain", x, 4, {ta, tb}) : x \in {"avl", "rb"}}
    \cup {MCScope(w, "none", 5, {ta}) : w \in Ways \ {"plain"}}
    \cup {MCScope("threaded", "avl", 7, {ta}), MCScope("parents", "rb", 7, {ta})}
    \cup {MCScope("threaded", "rb", 6, {ta}), MCScope("parents", "avl", 6, {ta})}
    \cup {MCScope("right", x, 6, {ta}) : x \in {"avl", "rb"}}
    \cup {MCScope(w, x, 3, {ta, tb}) : w \in Ways \ {"plain"}, x \in {"none", "avl", "rb"}}

=============================================================================
