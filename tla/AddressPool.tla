---------------------------- MODULE AddressPool ----------------------------
(***************************************************************************)
(* What the IP allocation of one subnet promises: a fixed set of pool      *)
(* addresses, each of them offered or in use and never both, while         *)
(* addresses outside the pool (the gateway of a router port, an address    *)
(* a user asked for) can be in use but are never offered.                  *)
(*                                                                         *)
(* IpAvailability implements this with the rows of the table               *)
(* ipavailabilityranges.                                                   *)
(***************************************************************************)
EXTENDS Naturals

CONSTANTS Usable,     \* the addresses a port of the subnet can have
          Pool        \* those of them that its allocation pools hand out

VARIABLES offered,    \* the addresses the subnet has still to give
          inUse       \* the addresses recorded for some port

vars == <<offered, inUse>>

TypeOK == /\ offered \subseteq Pool
          /\ inUse \subseteq Usable

Init == /\ offered = Pool
        /\ inUse = {}

(* The subnet chooses. *)
Generate == \E a \in offered :
              /\ offered' = offered \ {a}
              /\ inUse' = inUse \cup {a}

(* The caller chooses. *)
Claim(a) == /\ a \notin inUse
            /\ offered' = offered \ {a}
            /\ inUse' = inUse \cup {a}

(* An address in use comes back, to the offer if it is the pool's. *)
Release(a) == /\ a \in inUse
              /\ offered' = offered \cup ({a} \cap Pool)
              /\ inUse' = inUse \ {a}

Next == \/ Generate
        \/ \E a \in Usable : Claim(a) \/ Release(a)

Spec == Init /\ [][Next]_vars

----------------------------------------------------------------------------
(* No address is offered to a second port, none is lost to the pool.       *)
Partition == offered = Pool \ inUse
============================================================================
