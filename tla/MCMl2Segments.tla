--------------------------- MODULE MCMl2Segments ---------------------------
(* A physical network whose VLANs change, go and come back with the        *)
(* configuration, and tunnel ids in two ranges.                            *)
EXTENDS Ml2Segments, TLC

CONSTANTS pA, n1, n2, n3

TwoRanges == [vlan |-> pA :> <<<<1, 1>>, <<2, 2>>>>, tunnel |-> <<<<1, 1>>, <<2, 2>>>>,
              flat |-> {}, tenant |-> <<"vlan", "tunnel">>]
OneRange == [vlan |-> pA :> <<<<2, 3>>>>, tunnel |-> <<<<2, 3>>>>,
             flat |-> {pA}, tenant |-> <<"tunnel", "vlan">>]
NoRange == [TwoRanges EXCEPT !.vlan = [p \in {} |-> <<>>], !.flat = {pA}]
Three == {TwoRanges, OneRange, NoRange}
Symmetry == Permutations({n1, n2, n3})
=============================================================================
