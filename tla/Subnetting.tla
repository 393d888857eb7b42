----------------------------- MODULE Subnetting -----------------------------
(***************************************************************************)
(* The address arithmetic of neutron/db/db_base_plugin_v2: which addresses *)
(* of a CIDR a port can have, and which allocation pools a subnet can.     *)
(* Addresses are numbers; a CIDR is the interval from its network address  *)
(* to its broadcast address, an allocation pool an interval as well.       *)
(***************************************************************************)
EXTENDS Integers

Interval == [first : Nat, last : Nat]
Addrs(r) == r.first .. r.last

(* _check_subnet_ip: neither the network nor the broadcast address.        *)
OnSubnet(cidr, ip) == ip \in (cidr.first + 1) .. (cidr.last - 1)

PoolAddrs(pools) == UNION {Addrs(p) : p \in pools}

(* _validate_allocation_pools: ordered bounds, inside the subnet without   *)
(* its network and broadcast addresses, no overlap.                        *)
ValidPools(pools, cidr) ==
  /\ \A p \in pools : /\ p.first <= p.last
                      /\ cidr.first + 1 <= p.first
                      /\ p.last <= cidr.last - 1
  /\ \A p, q \in pools : p # q => Addrs(p) \cap Addrs(q) = {}

(* The gateway of a subnet that has none. *)
NoAddr == -1

(* Mutant: the default pool keeps the gateway.                             *)
DefaultPoolsWhole(cidr, gateway) ==
  {p \in {[first |-> cidr.first + 1, last |-> cidr.last - 1]} : p.first <= p.last}

(* _allocate_pools_for_subnet: what is left on both sides of the gateway,  *)
(* which may be missing or outside the CIDR.                               *)
DefaultPools(cidr, gateway) ==
  LET gw == IF gateway = NoAddr THEN cidr.last ELSE gateway
      split == IF gw < cidr.first THEN cidr.first
               ELSE IF gw > cidr.last THEN cidr.last ELSE gw
      below == [first |-> cidr.first + 1, last |-> split - 1]
      above == [first |-> split + 1, last |-> cidr.last - 1]
  IN  {p \in {below} : split > cidr.first + 1} \cup {p \in {above} : split < cidr.last - 1}
============================================================================
