----------------------------- MODULE MCOvsAgent -----------------------------
EXTENDS OvsAgent, TLC

CONSTANTS n1, n2, p1, p2

Apart == p1 :> n1 @@ p2 :> n2
Together == p1 :> n1 @@ p2 :> n1
=============================================================================
