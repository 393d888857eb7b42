------------------------- MODULE MCIpAvailability -------------------------
(* A /28 with three pools: two that touch (the joins of _recycle_ip must    *)
(* stop at the border) and one address alone; its other addresses belong to *)
(* no pool.                                                                 *)
EXTENDS IpAvailability

MCCidr == [first |-> 0, last |-> 15]
MCPools == {[first |-> 2, last |-> 5], [first |-> 6, last |-> 7], [first |-> 9, last |-> 9]}
============================================================================
