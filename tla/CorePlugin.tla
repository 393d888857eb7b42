----------------------------- MODULE CorePlugin -----------------------------
(***************************************************************************)
(* NeutronDbPluginV2 (neutron/db/db_base_plugin_v2.py): the networks,      *)
(* subnets, ports and IP allocations of the base plugin, as rows of its    *)
(* tables.  Every API call is one step, for it runs in one transaction     *)
(* (context.session.begin) and what it raises rolls the step back; a call  *)
(* that is refused changes nothing and is not a step.  Operations whose    *)
(* transactions overlap are not modelled here.                             *)
(*                                                                         *)
(* The availability ranges are replaced by the set of addresses they       *)
(* offer, which IpAvailability shows they implement.                       *)
(***************************************************************************)
EXTENDS Subnetting, Sequences, FiniteSets, Functions

CONSTANTS NetworkIds, SubnetIds, PortIds, Tenants, Macs,
          Contexts,      \* the callers: [is_admin, tenant]
          Cidrs,         \* the CIDRs requests name: [version, first, last]
          GatewayIps,    \* the gateways they name
          PoolLists,     \* the allocation pools they name
          FixedIpLists,  \* the fixed IPs they name: sequences of [subnet, ip]
          Unset,         \* attributes.ATTR_NOT_SPECIFIED, and an absent key
          MaxFixedIpsPerPort, AllowOverlappingIps, ForceGatewayOnSubnet  \* cfg.CONF

ASSUME NamesAssumption ==
  /\ \A c \in Contexts : c.is_admin \in BOOLEAN /\ c.tenant \in Tenants
  /\ \A c \in Cidrs : c.version \in {4, 6} /\ c.first \in Nat /\ c.last \in Nat
  /\ GatewayIps \subseteq Nat \cup {NoAddr}
  /\ PoolLists \subseteq SUBSET Interval
  /\ \A f \in FixedIpLists : \A i \in DOMAIN f : f[i].ip \in Nat \cup {NoAddr}
  /\ Unset \notin SubnetIds /\ Unset \notin GatewayIps
  /\ Unset \notin PoolLists /\ Unset \notin FixedIpLists
  /\ AllowOverlappingIps \in BOOLEAN /\ ForceGatewayOnSubnet \in BOOLEAN

VARIABLES networks,    \* id -> [tenant, shared]
          subnets,     \* id -> [network, tenant, cidr, gateway, pools, shared]
          ports,       \* id -> [network, tenant, mac, owner]
          allocs,      \* the ipallocations: [subnet, ip, port]
          available    \* id of a subnet -> the addresses its ranges offer

vars == <<networks, subnets, ports, allocs, available>>

(* AUTO_DELETE_PORT_OWNERS, and any other owner. *)
Owners == {"network:dhcp", "compute:host"}
AutoDeleted(p) == ports[p].owner = "network:dhcp"

NetworkRow == [tenant : Tenants, shared : BOOLEAN]
SubnetRow == [network : NetworkIds, tenant : Tenants, cidr : Cidrs, gateway : Nat \cup {NoAddr},
              pools : SUBSET Interval, shared : BOOLEAN]
PortRow == [network : NetworkIds, tenant : Tenants, mac : Macs, owner : Owners]
AllocRow == [subnet : SubnetIds, ip : Nat, port : PortIds]

TypeOK == /\ DOMAIN networks \subseteq NetworkIds
          /\ \A n \in DOMAIN networks : networks[n] \in NetworkRow
          /\ DOMAIN subnets \subseteq SubnetIds
          /\ \A s \in DOMAIN subnets : subnets[s] \in SubnetRow
          /\ DOMAIN ports \subseteq PortIds
          /\ \A p \in DOMAIN ports : ports[p] \in PortRow
          /\ allocs \subseteq AllocRow
          /\ available \in [SubnetIds -> SUBSET Nat]
          /\ \A s \in SubnetIds \ DOMAIN subnets : available[s] = {}

NoRows == [i \in {} |-> {}]

Init == /\ networks = NoRows
        /\ subnets = NoRows
        /\ ports = NoRows
        /\ allocs = {}
        /\ available = [s \in SubnetIds |-> {}]

(* Adding, changing and deleting rows of a table. *)
Put(table, id, row) == [i \in DOMAIN table \cup {id} |-> IF i = id THEN row ELSE table[i]]
Drop(table, ids) == Restrict(table, DOMAIN table \ ids)

----------------------------------------------------------------------------
(* Queries.  _model_query scopes a non-admin's to the rows of its tenant   *)
(* and, for networks and subnets, the shared ones.                         *)
Owns(ctx, row) == ctx.is_admin \/ row.tenant = ctx.tenant
Sees(ctx, row) == Owns(ctx, row) \/ row.shared

(* "admin_or_network_owner" of policy.json. *)
OwnsNetworkOf(ctx, row) == Owns(ctx, networks[row.network])

(* The subnets of a network: all of them, and those get_subnets gives the  *)
(* caller.                                                                 *)
SubnetsOf(n) == {s \in DOMAIN subnets : subnets[s].network = n}
SubnetsSeen(ctx, n) == {s \in SubnetsOf(n) : Sees(ctx, subnets[s])}
PortsOf(n) == {p \in DOMAIN ports : ports[p].network = n}
AllocsOf(P) == {a \in allocs : a.port \in P}

(* Mutant: the query leaves out the auto-deleted ports, as that of          *)
(* delete_network does.                                                    *)
MacFreeOfOthers(n, mac) == \A p \in PortsOf(n) : ports[p].mac = mac => AutoDeleted(p)

(* _check_unique_mac *)
MacFree(n, mac) == \A p \in PortsOf(n) : ports[p].mac # mac

(* Mutant: the address of a request is not looked up.                      *)
IpFreeUnchecked(s, ip) == TRUE

(* _check_unique_ip *)
IpFree(s, ip) == \A a \in allocs : a.subnet = s => a.ip # ip

(* _get_tenant_id_for_create: an admin may create for another tenant.      *)
TenantsFor(ctx) == IF ctx.is_admin THEN Tenants ELSE {ctx.tenant}

----------------------------------------------------------------------------
(* Addresses for a port. *)

(* Mutant: an address outside the pools is recycled into one.              *)
RecycledUnchecked(rows) ==
  [s \in SubnetIds |-> available[s] \cup {a.ip : a \in {b \in rows : b.subnet = s}}]

(* _recycle_ip for every row: what the pools of its subnet have is offered. *)
Recycled(rows) ==
  [s \in SubnetIds |->
     available[s] \cup {ip \in {a.ip : a \in {b \in rows : b.subnet = s}} :
                          ip \in PoolAddrs(subnets[s].pools)}]

(* The first addresses of the ranges that offer the addresses F of s.      *)
FirstIps(s, F) ==
  {ip \in F : \A p \in subnets[s].pools : ip \in Addrs(p) => ip = p.first \/ ip - 1 \notin F}

Grant(s, ip) == [subnet |-> s, ip |-> ip]

(* The addresses that can meet one requested fixed IP, of the offer: the   *)
(* named one, or any of the named subnet (_test_fixed_ips_for_port).       *)
Meets(ctx, n, fixed, offer) ==
  IF fixed.ip # NoAddr
  THEN {Grant(s, fixed.ip) : s \in {s \in SubnetsSeen(ctx, n) : /\ fixed.subnet \in {s, Unset}
                                                               /\ OnSubnet(subnets[s].cidr, fixed.ip)
                                                               /\ IpFree(s, fixed.ip)}}
  ELSE UNION {{Grant(s, ip) : ip \in offer[s]} : s \in SubnetsSeen(ctx, n) \cap {fixed.subnet}}

(* _allocate_fixed_ips: the requests are met in their order, each from     *)
(* what those before it left (_generate_ip, _allocate_specific_ip).        *)
Requested(ctx, n, fixed_ips, offer) ==
  {g \in [DOMAIN fixed_ips -> UNION {Meets(ctx, n, fixed_ips[i], offer) : i \in DOMAIN fixed_ips}] :
     \A i \in DOMAIN g :
       /\ g[i] \in Meets(ctx, n, fixed_ips[i], offer)
       /\ fixed_ips[i].ip = NoAddr =>
            g[i].ip \in FirstIps(g[i].subnet,
                                 offer[g[i].subnet] \ {g[j].ip : j \in {k \in 1..(i - 1) :
                                                          g[k].subnet = g[i].subnet}})}

(* Without requested fixed IPs a port gets one address of every IP version *)
(* its network has subnets of.                                             *)
Automatic(ctx, n) ==
  LET versions == {subnets[s].cidr.version : s \in SubnetsSeen(ctx, n)}
      firsts(v) == UNION {{Grant(s, ip) : ip \in FirstIps(s, available[s])} :
                            s \in {s \in SubnetsSeen(ctx, n) : subnets[s].cidr.version = v}}
  IN  {g \in [versions -> UNION {firsts(v) : v \in versions}] :
         \A v \in versions : g[v] \in firsts(v)}

(* The grant becomes ipallocations of port p: the rows kept and the offer  *)
(* left of the others.  The primary key of ipallocations is the address,   *)
(* a duplicate rolls the call back.                                        *)
Allocate(p, grant, kept, offer) ==
  LET rows == {[subnet |-> grant[i].subnet, ip |-> grant[i].ip, port |-> p] : i \in DOMAIN grant}
  IN  /\ IsInjective(grant)
      /\ allocs' = kept \cup rows
      /\ available' = [s \in SubnetIds |-> offer[s] \ {a.ip : a \in {b \in rows : b.subnet = s}}]
----------------------------------------------------------------------------
(* Networks. *)

CreateNetwork(ctx, n, tenant, shared) ==
  /\ n \notin DOMAIN networks
  /\ tenant \in TenantsFor(ctx)
  /\ shared => ctx.is_admin                       \* policy create_network:shared
  /\ networks' = Put(networks, n, [tenant |-> tenant, shared |-> shared])
  /\ UNCHANGED <<subnets, ports, allocs, available>>

(* The tenants _validate_shared_update finds on the network: its queries   *)
(* are the caller's.                                                       *)
TenantsSeenOn(ctx, n) ==
  {ports[p].tenant : p \in {p \in PortsOf(n) : Owns(ctx, ports[p])}} \cup
  {subnets[s].tenant : s \in {s \in SubnetsOf(n) : Sees(ctx, subnets[s])}}

(* Mutant: the subnets keep the sharing they had.                          *)
UpdateNetworkAlone(ctx, n, shared) ==
  /\ n \in DOMAIN networks
  /\ Owns(ctx, networks[n])
  /\ networks[n].shared /\ ~shared => TenantsSeenOn(ctx, n) \subseteq {networks[n].tenant}
  /\ networks' = [networks EXCEPT ![n].shared = shared]
  /\ UNCHANGED <<subnets, ports, allocs, available>>

UpdateNetwork(ctx, n, shared) ==
  /\ n \in DOMAIN networks
  /\ Owns(ctx, networks[n])                       \* policy update_network
  /\ networks[n].shared /\ ~shared => TenantsSeenOn(ctx, n) \subseteq {networks[n].tenant}
  /\ networks' = [networks EXCEPT ![n].shared = shared]
  /\ subnets' = [s \in DOMAIN subnets |->
                   IF s \in SubnetsOf(n) THEN [subnets[s] EXCEPT !.shared = shared]
                   ELSE subnets[s]]
  /\ UNCHANGED <<ports, allocs, available>>

(* _delete_port looks up the port and the subnets of its addresses.        *)
Deletable(ctx, p) ==
  Owns(ctx, ports[p]) /\ \A a \in AllocsOf({p}) : Sees(ctx, subnets[a.subnet])

(* The ports the caller sees must be auto-deleted ones; a port it does not *)
(* see still refers to the network, and the database refuses the delete.   *)
DeleteNetwork(ctx, n) ==
  /\ n \in DOMAIN networks
  /\ Owns(ctx, networks[n])                       \* policy delete_network
  /\ \A p \in PortsOf(n) : AutoDeleted(p) /\ Deletable(ctx, p)
  /\ networks' = Drop(networks, {n})
  /\ subnets' = Drop(subnets, SubnetsOf(n))
  /\ ports' = Drop(ports, PortsOf(n))
  /\ allocs' = allocs \ AllocsOf(PortsOf(n))
  /\ available' = [s \in SubnetIds |-> IF s \in SubnetsOf(n) THEN {} ELSE available[s]]

----------------------------------------------------------------------------
(* Subnets. *)

(* _validate_subnet_cidr *)
CidrFree(n, cidr) ==
  \A s \in DOMAIN subnets :
    subnets[s].network = n \/ ~AllowOverlappingIps =>
      Addrs(subnets[s].cidr) \cap Addrs(cidr) = {}

(* _validate_subnet of a gateway the request gives or defaults to.         *)
GatewayOnSubnet(cidr, gateway) ==
  gateway # NoAddr /\ ForceGatewayOnSubnet => OnSubnet(cidr, gateway)

CreateSubnet(ctx, s, n, tenant, cidr, gateway_ip, allocation_pools) ==
  LET gateway == IF gateway_ip = Unset THEN cidr.first + 1 ELSE gateway_ip
      pools == IF allocation_pools = Unset THEN DefaultPools(cidr, gateway)
               ELSE allocation_pools
  IN  /\ s \notin DOMAIN subnets
      /\ n \in DOMAIN networks
      /\ Owns(ctx, networks[n])                   \* policy create_subnet
      /\ tenant \in TenantsFor(ctx)
      /\ allocation_pools # Unset => /\ ValidPools(pools, cidr)
                                     /\ gateway \notin PoolAddrs(pools)
      /\ GatewayOnSubnet(cidr, gateway)
      /\ CidrFree(n, cidr)
      /\ subnets' = Put(subnets, s, [network |-> n, tenant |-> tenant, cidr |-> cidr,
                                     gateway |-> gateway, pools |-> pools,
                                     shared |-> networks[n].shared])
      /\ available' = [available EXCEPT ![s] = PoolAddrs(pools)]
      /\ UNCHANGED <<networks, ports, allocs>>

(* update_subnet of the gateway: _validate_subnet asks that no port has    *)
(* the gateway the subnet has so far, unless the request removes it.       *)
UpdateSubnet(ctx, s, gateway) ==
  /\ s \in DOMAIN subnets
  /\ OwnsNetworkOf(ctx, subnets[s])               \* policy update_subnet
  /\ Sees(ctx, subnets[s])
  /\ gateway # NoAddr => /\ GatewayOnSubnet(subnets[s].cidr, gateway)
                         /\ IpFree(s, subnets[s].gateway)
                         /\ gateway \notin PoolAddrs(subnets[s].pools)
  /\ subnets' = [subnets EXCEPT ![s].gateway = gateway]
  /\ UNCHANGED <<networks, ports, allocs, available>>

(* Mutant: one auto-deleted port is enough to call the subnet unused.      *)
SubnetInUseAll(s) ==
  LET users == AllocsOf(PortsOf(subnets[s].network))
  IN  users # {} /\ \A a \in users : ~AutoDeleted(a.port)

(* The allocations delete_subnet looks at: after the join with ports its   *)
(* filter is on the network of the ports.                                  *)
SubnetInUse(s) ==
  \E a \in AllocsOf(PortsOf(subnets[s].network)) : ~AutoDeleted(a.port)

(* Mutant: the ranges of a deleted subnet stay.                            *)
DeleteSubnetNoCascade(ctx, s) ==
  /\ s \in DOMAIN subnets
  /\ OwnsNetworkOf(ctx, subnets[s])
  /\ Sees(ctx, subnets[s])
  /\ ~SubnetInUse(s)
  /\ subnets' = Drop(subnets, {s})
  /\ allocs' = {a \in allocs : a.subnet # s}
  /\ UNCHANGED <<networks, ports, available>>

DeleteSubnet(ctx, s) ==
  /\ s \in DOMAIN subnets
  /\ OwnsNetworkOf(ctx, subnets[s])               \* policy delete_subnet
  /\ Sees(ctx, subnets[s])
  /\ ~SubnetInUse(s)
  /\ subnets' = Drop(subnets, {s})
  /\ allocs' = {a \in allocs : a.subnet # s}
  /\ available' = [available EXCEPT ![s] = {}]
  /\ UNCHANGED <<networks, ports>>

----------------------------------------------------------------------------
(* Ports. *)

(* The MAC address is the one asked for or generated; either is refused or *)
(* drawn again while a port of the network has it.                         *)
CreatePort(ctx, p, n, tenant, mac, owner, fixed_ips) ==
  /\ p \notin DOMAIN ports
  /\ n \in DOMAIN networks
  /\ Sees(ctx, networks[n])
  /\ tenant \in TenantsFor(ctx)
  /\ fixed_ips # Unset => Owns(ctx, networks[n])  \* policy create_port:fixed_ips
  /\ MacFree(n, mac)
  /\ \/ /\ fixed_ips = Unset
        /\ \E grant \in Automatic(ctx, n) : Allocate(p, grant, allocs, available)
     \/ /\ fixed_ips # Unset
        /\ Len(fixed_ips) <= MaxFixedIpsPerPort
        /\ \E grant \in Requested(ctx, n, fixed_ips, available) : Allocate(p, grant, allocs, available)
  /\ ports' = Put(ports, p, [network |-> n, tenant |-> tenant, mac |-> mac, owner |-> owner])
  /\ UNCHANGED <<networks, subnets>>

(* The rows of p that a request names again, and the requests they leave.  *)
Again(p, fixed_ips) == {a \in AllocsOf({p}) : \E i \in DOMAIN fixed_ips : fixed_ips[i].ip = a.ip}
Unmet(fixed_ips, rows) == SelectSeq(fixed_ips, LAMBDA f : \A a \in rows : a.ip # f.ip)

(* update_port of the owner and, unless Unset, of the fixed IPs: what the  *)
(* request names again stays, the other addresses are recycled before the  *)
(* new ones are allocated (_update_ips_for_port).                          *)
UpdatePort(ctx, p, owner, fixed_ips) ==
  /\ p \in DOMAIN ports
  /\ Owns(ctx, ports[p])
  /\ ports' = [ports EXCEPT ![p].owner = owner]
  /\ \/ fixed_ips = Unset /\ UNCHANGED <<allocs, available>>
     \/ /\ fixed_ips # Unset
        /\ OwnsNetworkOf(ctx, ports[p])            \* policy update_port:fixed_ips
        /\ Len(fixed_ips) <= MaxFixedIpsPerPort
        /\ LET again == Again(p, fixed_ips)
               new == Unmet(fixed_ips, again)
               gone == AllocsOf({p}) \ again
               offer == Recycled(gone)
           IN  /\ new # <<>> => Sees(ctx, networks[ports[p].network])
               /\ \E grant \in Requested(ctx, ports[p].network, new, offer) :
                     Allocate(p, grant, allocs \ gone, offer)
  /\ UNCHANGED <<networks, subnets>>

(* Mutant: only the allocations that are recycled are deleted.             *)
DeletePortRecycledOnly(ctx, p) ==
  LET back == {a \in AllocsOf({p}) : a.ip \in PoolAddrs(subnets[a.subnet].pools)}
  IN  /\ p \in DOMAIN ports
      /\ Deletable(ctx, p)
      /\ available' = Recycled(back)
      /\ allocs' = allocs \ back
      /\ ports' = Drop(ports, {p})
      /\ UNCHANGED <<networks, subnets>>

(* _delete_port recycles the addresses of the pools, though not a gateway, *)
(* and deletes the allocations of the others.                              *)
DeletePort(ctx, p) ==
  /\ p \in DOMAIN ports
  /\ Deletable(ctx, p)
  /\ available' = Recycled({a \in AllocsOf({p}) : a.ip # subnets[a.subnet].gateway})
  /\ allocs' = allocs \ AllocsOf({p})
  /\ ports' = Drop(ports, {p})
  /\ UNCHANGED <<networks, subnets>>

----------------------------------------------------------------------------
NextFor(ctx) ==
  \/ \E n \in NetworkIds, t \in Tenants, shared \in BOOLEAN :
       CreateNetwork(ctx, n, t, shared) \/ UpdateNetwork(ctx, n, shared)
  \/ \E n \in NetworkIds : DeleteNetwork(ctx, n)
  \/ \E s \in SubnetIds, n \in NetworkIds, t \in Tenants, cidr \in Cidrs,
        gateway_ip \in GatewayIps \cup {Unset}, pools \in PoolLists \cup {Unset} :
       CreateSubnet(ctx, s, n, t, cidr, gateway_ip, pools)
  \/ \E s \in SubnetIds, gateway_ip \in GatewayIps : UpdateSubnet(ctx, s, gateway_ip)
  \/ \E s \in SubnetIds : DeleteSubnet(ctx, s)
  \/ \E p \in PortIds, n \in NetworkIds, t \in Tenants, mac \in Macs, owner \in Owners,
        fixed_ips \in FixedIpLists \cup {Unset} :
       CreatePort(ctx, p, n, t, mac, owner, fixed_ips)
  \/ \E p \in PortIds, owner \in Owners, fixed_ips \in FixedIpLists \cup {Unset} :
       UpdatePort(ctx, p, owner, fixed_ips)
  \/ \E p \in PortIds : DeletePort(ctx, p)

Next == \E ctx \in Contexts : NextFor(ctx)

Spec == Init /\ [][Next]_vars

----------------------------------------------------------------------------
(* An address of a subnet's pools is offered exactly when no port has it,  *)
(* through every way an address is given and comes back: no address leaks  *)
(* from a pool and none is offered while a port has it.                    *)
PoolPartition ==
  \A s \in DOMAIN subnets :
    available[s] = PoolAddrs(subnets[s].pools) \ {a.ip : a \in {b \in allocs : b.subnet = s}}

(* An allocation joins rows that exist: a port and a subnet of the same    *)
(* network, and an address of that subnet.  delete_port, delete_subnet and *)
(* delete_network leave no dangling allocation behind.                     *)
AllocationsResolve ==
  \A a \in allocs : /\ a.port \in DOMAIN ports
                     /\ a.subnet \in DOMAIN subnets
                     /\ ports[a.port].network = subnets[a.subnet].network
                     /\ a.ip \in Addrs(subnets[a.subnet].cidr)

(* No two ports of a network have the same address, although the primary   *)
(* key of ipallocations includes the subnet: the CIDRs of a network are    *)
(* disjoint (_validate_subnet_cidr).                                       *)
AddressesUnique ==
  \A a, b \in allocs : a # b /\ ports[a.port].network = ports[b.port].network => a.ip # b.ip

(* No two ports of a network have the same MAC address.                    *)
MacsUnique ==
  \A p, q \in DOMAIN ports :
    p # q /\ ports[p].network = ports[q].network => ports[p].mac # ports[q].mac

(* The gateway of a subnet is never an address the subnet hands out by     *)
(* itself, from whatever side it was set: create_subnet with given or with *)
(* default pools, or update_subnet.                                        *)
GatewayNotOffered == \A s \in DOMAIN subnets : subnets[s].gateway \notin PoolAddrs(subnets[s].pools)

(* A subnet is on a network that exists and is shared when its network is. *)
SharedAgrees ==
  \A s \in DOMAIN subnets : /\ subnets[s].network \in DOMAIN networks
                             /\ subnets[s].shared = networks[subnets[s].network].shared

(* A port is on a network that exists. *)
PortsResolve == \A p \in DOMAIN ports : ports[p].network \in DOMAIN networks

(* Deleting a network deletes only ports that may be deleted with it, and  *)
(* deleting a subnet takes addresses only from such ports.                 *)
TenantPortsSurvive ==
  [][/\ \A p \in DOMAIN ports : ports[p].network \notin DOMAIN networks' => AutoDeleted(p)
     /\ \A a \in allocs : a.subnet \notin DOMAIN subnets' => AutoDeleted(a.port)]_vars
============================================================================
