---------------------------- MODULE MCDhcpAgent ----------------------------
(* An instance of DhcpAgent: a network with two subnets and a port.         *)
EXTENDS DhcpAgent, TLC

CONSTANTS n1, s1, s2, p1, i1, i2

OneNetwork == s1 :> n1 @@ s2 :> n1 @@ p1 :> n1
=============================================================================
