--------------------------- MODULE MCVirtualPools ---------------------------
(***************************************************************************)
(* VirtualPools for TLC: two settings that differ in every field, of which *)
(* one leaves open what the other sets.                                    *)
(***************************************************************************)
EXTENDS VirtualPools

Plain == [sgs |-> <<"s">>, labels |-> <<>>, taints |-> <<>>, protection |-> {}]
Rich == [sgs |-> <<"t", "s">>, labels |-> <<"l">>, taints |-> <<>>, protection |-> {TRUE}]
MCWants == {Plain, Rich}
=============================================================================
