------------------------------ MODULE MCRunHolds ------------------------------
(* Instances of RunHolds for TLC: an image and a search job of each item.      *)
EXTENDS RunHolds

\* The (itemKey, name) order: the stages of one item follow each other.
StageOf == [j \in Jobs |-> IF j % 2 = 1 THEN "image" ELSE "search"]

\* What setup asks for: search parked.  Release drops every hold.
Wanted == {[image |-> "none", search |-> "parked"]}
=============================================================================
