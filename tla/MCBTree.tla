-------------------------------- MODULE MCBTree --------------------------------
(* Nodes as small as they may be: trees of three levels with few pairs.       *)
EXTENDS BTree

MCKeys == 1..3
=============================================================================
