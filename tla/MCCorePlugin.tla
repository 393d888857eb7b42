--------------------------- MODULE MCCorePlugin ---------------------------
(* Instances of CorePlugin: addresses on one network, and networks and      *)
(* their ports between tenants.                                             *)
EXTENDS CorePlugin, TLC

CONSTANTS n1, n2, s1, s2, p1, p2, p3, m1, m2, m3, t1, t2

Symmetry == Permutations(PortIds) \cup Permutations(Macs)

Admin == [is_admin |-> TRUE, tenant |-> t1]
OneAdmin == {Admin}
Callers == {Admin} \cup {[is_admin |-> FALSE, tenant |-> t] : t \in Tenants}

V4Wide == [version |-> 4, first |-> 0, last |-> 7]
V4Small == [version |-> 4, first |-> 8, last |-> 11]
V6Small == [version |-> 6, first |-> 20, last |-> 23]
FixedIp(s, ip) == [subnet |-> s, ip |-> ip]

(* Addresses: an IPv4 and an IPv6 subnet of one network, with pools that    *)
(* leave usable addresses outside, and requests that name an address, a     *)
(* subnet or both.                                                          *)
AddressCidrs == {V4Wide, V6Small}
AddressGateways == {4}
AddressPools == {{[first |-> 2, last |-> 3], [first |-> 5, last |-> 5]}}
AddressRequests ==
  {<<>>,
   <<FixedIp(Unset, 3)>>,
   <<FixedIp(s1, 1)>>,
   <<FixedIp(s1, NoAddr), FixedIp(s1, 2)>>,
   <<FixedIp(Unset, 4), FixedIp(s2, NoAddr)>>}

(* Tenants: small subnets, hardly any request.                              *)
TenantCidrs == {V4Small, V6Small}
TenantGateways == {NoAddr}
TenantPools == {}
TenantRequests == {<<>>, <<FixedIp(s1, NoAddr)>>}
============================================================================
