---------------------------- MODULE MCNodePools ----------------------------
(***************************************************************************)
(* NodePools for TLC: settings between which a size must wait for a new    *)
(* maximum (Small to Large), is refused for the old minimum (Fixed to      *)
(* Small), and which have labels that cannot be sent (Fixed).              *)
(***************************************************************************)
EXTENDS NodePools

Small == [capacity |-> 1, min |-> 1, max |-> 2, labels |-> "none", type |-> "small"]
Large == [capacity |-> 3, min |-> 1, max |-> 4, labels |-> "pair", type |-> "large"]
Fixed == [capacity |-> 3, min |-> 3, max |-> 4, labels |-> "bare", type |-> "small"]

AllWants == {Small, Large, Fixed}
SmallWants == {Small}
=============================================================================
