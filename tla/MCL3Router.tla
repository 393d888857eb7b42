----------------------------- MODULE MCL3Router -----------------------------
(* Subnets sA and sB of one network, sE of the external network and sC with *)
(* the CIDR of sE: a router can not have both.                              *)
EXTENDS L3Router, TLC

CONSTANTS r1, r2, p1, p2, f1, f2, n1, n2, e1, sA, sB, sC, sE, hg, h1, h2, h3

Symmetry == Permutations(Routers) \cup Permutations(PortIds) \cup Permutations(FipIds)
            \cup Permutations(Hosts \ {hg})

Location == sA :> n1 @@ sB :> n1 @@ sE :> e1 @@ sC :> n2
Cidr == sA :> 1 @@ sB :> 2 @@ sE :> 3 @@ sC :> 3
MCNetworkOf == Restrict(Location, Subnets)
MCCidrOf == Restrict(Cidr, Subnets)

Guests == Hosts \ {hg}
On(s, h) == [subnet |-> s, host |-> h]
MCIpLists == {{On(sA, h)} : h \in Guests} \cup {{On(sA, h), On(sB, h)} : h \in Guests}
MCRouteLists == {{}} \cup {{<<1, h>>} : h \in Guests}
=============================================================================
