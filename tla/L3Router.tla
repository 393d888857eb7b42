------------------------------ MODULE L3Router ------------------------------
(***************************************************************************)
(* L3RouterPlugin (neutron/services/l3_router): routers with gateways,     *)
(* interfaces and extra routes, and floating IPs, over the ports of the    *)
(* core plugin.  Every API call is one step; calls do not overlap.  The    *)
(* subnets are given: what a port of a subnet gets is CorePlugin's part.   *)
(* The ports of routers are changed by the calls of this plugin only.      *)
(***************************************************************************)
EXTENDS Naturals, FiniteSets, Functions

CONSTANTS Routers, PortIds, FipIds,   \* the ids
          Networks, Subnets,
          Externals,                  \* the networks requests make external
          NetworkOf, CidrOf,          \* of a subnet; equal CIDRs overlap
          Hosts, GatewayHost,         \* the host parts of addresses, and gateway_ip's
          RouteLists,                 \* the nexthops of the routes requests give a router
          IpLists,                    \* the fixed IPs requests give a port
          None, Unset

ASSUME TopologyAssumption ==
  /\ NetworkOf \in [Subnets -> Networks]
  /\ DOMAIN CidrOf = Subnets
  /\ Externals \subseteq Networks /\ GatewayHost \in Hosts
  /\ None \notin Networks /\ Unset \notin Networks \cup {None}
  /\ {} \in RouteLists /\ IpLists \subseteq SUBSET [subnet : Subnets, host : Hosts]

VARIABLES external,  \* the external networks
          routers,   \* id -> [gw: the gateway port or None, routes: nexthops]
          ports,     \* [id, owner, device, network, ips], id None for the plugin's own
          fips,      \* id -> [net, ip, port, fixed_ip, router]
          last       \* the last call: [ok, told: the routers notified]

vars == <<external, routers, ports, fips, last>>

Address == [subnet : Subnets, host : Hosts]
Text(a) == <<CidrOf[a.subnet], a.host>>          \* as an ip_address says it
Texts == {Text(a) : a \in Address}

Intf == "network:router_interface"
Gw == "network:router_gateway"
Fip == "network:floatingip"
Vm == "compute:host"

PortRow == [id : PortIds \cup {None}, owner : {Intf, Gw, Fip, Vm, "none"},
            device : Routers \cup FipIds \cup {Vm, None}, network : Networks, ips : SUBSET Address]
(* Ids are UUIDs: the router's, the floating IP's and the port's differ.   *)
ASSUME IdsAssumption ==
  /\ Routers \cap FipIds = {} /\ {None, Vm} \cap (Routers \cup FipIds) = {}
  /\ None \notin PortIds \cup PortRow

FipRow == [net : Networks, ip : Texts, port : PortIds \cup {None}, fixed_ip : Texts \cup {None},
           router : Routers \cup {None}]

TypeOK == /\ external \subseteq Externals
          /\ DOMAIN routers \subseteq Routers
          /\ \A r \in DOMAIN routers : routers[r] \in [gw : ports \cup {None}, routes : RouteLists]
          /\ ports \subseteq PortRow
          /\ DOMAIN fips \subseteq FipIds
          /\ \A f \in DOMAIN fips : fips[f] \in FipRow
          /\ last.ok \in BOOLEAN /\ last.told \subseteq Routers

Init == /\ external = {}
        /\ routers = [r \in {} |-> {}]
        /\ ports = {}
        /\ fips = [f \in {} |-> {}]
        /\ last = [ok |-> TRUE, told |-> {}]

Put(table, id, row) == [i \in DOMAIN table \cup {id} |-> IF i = id THEN row ELSE table[i]]
Drop(table, id) == Restrict(table, DOMAIN table \ {id})
Answer(told) == last' = [ok |-> TRUE, told |-> told \ {None}]

----------------------------------------------------------------------------
(* Ports. *)

PortsOf(device, owner) == {p \in ports : p.device = device /\ p.owner = owner}
RouterPorts(r) == {p \in ports : p.device = r}
Named(id) == CHOOSE p \in ports : p.id = id
SubnetsOf(p) == {a.subnet : a \in p.ips}
IsFree(a) == \A p \in ports : a \notin p.ips

(* What create_port gives a port without requested fixed IPs.              *)
Generated(n) ==
  LET subnets == {s \in Subnets : NetworkOf[s] = n}
  IN  IF subnets = {} THEN {{}}
      ELSE {{a} : a \in {a \in Address : a.subnet \in subnets /\ a.host # GatewayHost /\ IsFree(a)}}

L3Port(owner, device, n, ips) ==
  [id |-> None, owner |-> owner, device |-> device, network |-> n, ips |-> ips]

(* disassociate_floatingips; it fails on more than one. *)
Associated(id) == {f \in DOMAIN fips : id # None /\ fips[f].port = id}
CanDisassociate(id) == Cardinality(Associated(id)) <= 1
Disassociated(id) ==
  [f \in DOMAIN fips |->
     IF f \in Associated(id)
     THEN [fips[f] EXCEPT !.port = None, !.fixed_ip = None, !.router = None] ELSE fips[f]]

CreatePort(id, n, device, ips) ==
  /\ \A p \in ports : p.id # id
  /\ \A a \in ips : NetworkOf[a.subnet] = n /\ IsFree(a)
  /\ ports' = ports \cup {[id |-> id, owner |-> device, device |-> IF device = Vm THEN Vm ELSE None,
                           network |-> n, ips |-> ips]}
  /\ Answer({})
  /\ UNCHANGED <<external, routers, fips>>

(* update_port of the fixed IPs; a floating IP keeps the address it has.   *)
UpdatePort(p, ips) ==
  /\ p.owner \in {Vm, "none"}
  /\ \A a \in ips \ p.ips : NetworkOf[a.subnet] = p.network /\ IsFree(a)
  /\ ports' = (ports \ {p}) \cup {[p EXCEPT !.ips = ips]}
  /\ Answer({})
  /\ UNCHANGED <<external, routers, fips>>

(* Mutant: the API may delete any port. *)
DeletePortUnchecked(p) ==
  /\ CanDisassociate(p.id)
  /\ ports' = ports \ {p}
  /\ fips' = Disassociated(p.id)
  /\ Answer({fips[f].router : f \in Associated(p.id)})
  /\ UNCHANGED <<external, routers>>

(* delete_port of the API: prevent_l3_port_deletion, and the floating IP   *)
(* of the port loses it.                                                   *)
DeletePort(p) ==
  /\ p.owner \in {Intf, Gw, Fip} => p.ips = {}
  /\ CanDisassociate(p.id)
  /\ ports' = ports \ {p}
  /\ fips' = Disassociated(p.id)
  /\ Answer({fips[f].router : f \in Associated(p.id)})
  /\ UNCHANGED <<external, routers>>

----------------------------------------------------------------------------
(* Routers. *)

(* Mutant: only the same subnet is refused. *)
NoDupSubnetOnly(s, P) == \A p \in P : s \notin SubnetsOf(p)

(* _check_for_dup_router_subnet against the ports P of the router. *)
NoDup(s, P) == \A p \in P : \A t \in SubnetsOf(p) : CidrOf[t] # CidrOf[s]

GwNetwork(gw) == IF gw = None THEN None ELSE gw.network
OldGateway(r) == IF r \in DOMAIN routers THEN routers[r].gw ELSE None

(* _update_router_gw_info: the gateway ports the router may come to have   *)
(* for a request of network n (None: no gateway); none when it is refused. *)
Gateways(r, n) ==
  LET old == OldGateway(r)
  IN  IF n # None /\ n \notin external THEN {}
      ELSE IF GwNetwork(old) = n THEN {old}
      ELSE IF old # None /\ \E f \in DOMAIN fips : fips[f].router = r THEN {}
      ELSE IF n = None THEN {None}
      ELSE IF \E s \in Subnets : NetworkOf[s] = n /\ ~NoDup(s, RouterPorts(r) \ {old}) THEN {}
      ELSE {L3Port(Gw, r, n, ips) : ips \in Generated(n) \ {{}}}

SetGateway(r, gw, routes) ==
  /\ routers' = Put(routers, r, [gw |-> gw, routes |-> routes])
  /\ ports' = (ports \ PortsOf(r, Gw)) \cup ({gw} \ {None})

CreateRouter(r, n) ==
  /\ r \notin DOMAIN routers
  /\ \E gw \in Gateways(r, n) : SetGateway(r, gw, {})
  /\ Answer({})
  /\ UNCHANGED <<external, fips>>

(* _validate_routes: a nexthop is on a subnet of a port of the router and  *)
(* is not the router's.                                                    *)
Connected(P, nexthop) == \E p \in P : \E a \in p.ips : Text(a)[1] = nexthop[1]
ValidRoutes(r, routes) ==
  \A h \in routes : /\ Connected(RouterPorts(r), h)
                    /\ \A p \in RouterPorts(r) : \A a \in p.ips : Text(a) # h

(* update_router of the routes, the gateway network or both.  The routes   *)
(* are in a transaction of their own: they stay when the gateway is        *)
(* refused, and the agents are not told.                                   *)
UpdateRouter(r, routes, n) ==
  /\ r \in DOMAIN routers
  /\ routes # Unset => ValidRoutes(r, routes)
  /\ LET new == IF routes = Unset THEN routers[r].routes ELSE routes
         gateways == IF n = Unset THEN {routers[r].gw} ELSE Gateways(r, n)
     IN  \/ /\ \E gw \in gateways : SetGateway(r, gw, new)
            /\ Answer({r})
         \/ /\ gateways = {} /\ routes # Unset
            /\ routers' = [routers EXCEPT ![r].routes = new]
            /\ last' = [ok |-> FALSE, told |-> {}]
            /\ UNCHANGED ports
  /\ UNCHANGED <<external, fips>>

(* Mutant: a gateway port is left behind. *)
DeleteRouterKeepsGateway(r) ==
  /\ r \in DOMAIN routers
  /\ \A f \in DOMAIN fips : fips[f].router # r
  /\ PortsOf(r, Intf) = {}
  /\ routers' = Drop(routers, r)
  /\ Answer({r})
  /\ UNCHANGED <<external, ports, fips>>

DeleteRouter(r) ==
  /\ r \in DOMAIN routers
  /\ \A f \in DOMAIN fips : fips[f].router # r
  /\ PortsOf(r, Intf) = {}
  /\ routers' = Drop(routers, r)
  /\ ports' = ports \ PortsOf(r, Gw)
  /\ Answer({r})
  /\ UNCHANGED <<external, fips>>

----------------------------------------------------------------------------
(* Interfaces. *)

(* add_router_interface of a subnet creates a port with its gateway IP.    *)
AddInterfaceBySubnet(r, s) ==
  LET ip == [subnet |-> s, host |-> GatewayHost]
  IN  /\ r \in DOMAIN routers
      /\ NoDup(s, RouterPorts(r))
      /\ IsFree(ip)
      /\ ports' = ports \cup {L3Port(Intf, r, NetworkOf[s], {ip})}
      /\ Answer({r})
      /\ UNCHANGED <<external, routers, fips>>

(* add_router_interface of a port that has no device. *)
AddInterfaceByPort(r, p) ==
  /\ r \in DOMAIN routers
  /\ p.device = None
  /\ Cardinality(p.ips) = 1
  /\ \A s \in SubnetsOf(p) : NoDup(s, RouterPorts(r))
  /\ ports' = (ports \ {p}) \cup {[p EXCEPT !.device = r, !.owner = Intf]}
  /\ Answer({r})
  /\ UNCHANGED <<external, routers, fips>>

(* Mutant: routes are not asked about. *)
NotInUseByFips(r, s) ==
  \A f \in DOMAIN fips : fips[f].router = r => fips[f].fixed_ip[1] # CidrOf[s]

(* Mutant: floating IPs are not asked about. *)
NotInUseByRoutes(r, s) == \A h \in routers[r].routes : h[1] # CidrOf[s]

(* _confirm_router_interface_not_in_use of the two mixins. *)
NotInUse(r, s) ==
  /\ \A f \in DOMAIN fips : fips[f].router = r => fips[f].fixed_ip[1] # CidrOf[s]
  /\ \A h \in routers[r].routes : h[1] # CidrOf[s]

(* remove_router_interface, of a port or of a subnet, deletes the port.    *)
RemoveInterface(r, p) ==
  /\ r \in DOMAIN routers
  /\ p \in PortsOf(r, Intf)
  /\ \A s \in SubnetsOf(p) : NotInUse(r, s)
  /\ CanDisassociate(p.id)
  /\ ports' = ports \ {p}
  /\ fips' = Disassociated(p.id)
  /\ Answer({r} \cup {fips[f].router : f \in Associated(p.id)})
  /\ UNCHANGED <<external, routers>>

----------------------------------------------------------------------------
(* Floating IPs. *)

(* _get_router_for_floatingip: the routers that connect the subnet of the  *)
(* internal address to the external network.                               *)
RoutersFor(a, n) ==
  {r \in Routers : /\ \E p \in PortsOf(r, Intf) : a.subnet \in SubnetsOf(p)
                   /\ \E p \in PortsOf(r, Gw) : p.network = n}

(* get_assoc_data and _update_fip_assoc: the associations a request of     *)
(* port id and address may give a floating IP of network n.  Without an    *)
(* address the port must have exactly one.                                 *)
Assoc(id, a, r) == [port |-> id, fixed_ip |-> Text(a), router |-> r]
NoAssoc == [port |-> None, fixed_ip |-> None, router |-> None]
Associations(n, id, address) ==
  IF id = None THEN {NoAssoc}
  ELSE UNION {{Assoc(id, a, r) : r \in RoutersFor(a, n)} :
                a \in {a \in Named(id).ips :
                         /\ IF address = None THEN Cardinality(Named(id).ips) = 1 ELSE a = address
                         /\ \A f \in DOMAIN fips :
                              <<fips[f].net, fips[f].port, fips[f].fixed_ip>> # <<n, id, Text(a)>>}}

CreateFloatingIp(f, n, id, address) ==
  /\ f \notin DOMAIN fips
  /\ n \in external
  /\ \E ips \in Generated(n) \ {{}}, assoc \in Associations(n, id, address) :
       /\ ports' = ports \cup {L3Port(Fip, f, n, ips)}
       /\ fips' = Put(fips, f, [net |-> n, ip |-> Text(CHOOSE a \in ips : TRUE), port |-> assoc.port,
                                fixed_ip |-> assoc.fixed_ip, router |-> assoc.router])
       /\ Answer({assoc.router})
  /\ UNCHANGED <<external, routers>>

(* Mutant: only the router the floating IP comes to is told. *)
UpdateFloatingIpNewOnly(f, id, address) ==
  /\ f \in DOMAIN fips
  /\ \E assoc \in Associations(fips[f].net, id, address) :
       /\ fips' = [fips EXCEPT ![f].port = assoc.port, ![f].fixed_ip = assoc.fixed_ip,
                               ![f].router = assoc.router]
       /\ Answer({assoc.router})
  /\ UNCHANGED <<external, routers, ports>>

UpdateFloatingIp(f, id, address) ==
  /\ f \in DOMAIN fips
  /\ \E assoc \in Associations(fips[f].net, id, address) :
       /\ fips' = [fips EXCEPT ![f].port = assoc.port, ![f].fixed_ip = assoc.fixed_ip,
                               ![f].router = assoc.router]
       /\ Answer({fips[f].router, assoc.router})
  /\ UNCHANGED <<external, routers, ports>>

DeleteFloatingIp(f) ==
  /\ f \in DOMAIN fips
  /\ fips' = Drop(fips, f)
  /\ ports' = ports \ PortsOf(f, Fip)
  /\ Answer({fips[f].router})
  /\ UNCHANGED <<external, routers>>

(* update_network of router:external (_process_l3_update).                 *)
UpdateExternal(n) ==
  /\ n \in external => \A p \in ports : p.network = n => p.owner # Gw
  /\ external' = IF n \in external THEN external \ {n} ELSE external \cup {n}
  /\ Answer({})
  /\ UNCHANGED <<routers, ports, fips>>

----------------------------------------------------------------------------
Next ==
  \/ \E n \in Externals : UpdateExternal(n)
  \/ \E id \in PortIds, n \in Networks, device \in {Vm, "none"}, ips \in IpLists :
       CreatePort(id, n, device, ips)
  \/ \E p \in ports, ips \in IpLists : UpdatePort(p, ips)
  \/ \E p \in ports : DeletePort(p)
  \/ \E r \in Routers, n \in Networks \cup {None} : CreateRouter(r, n)
  \/ \E r \in Routers, routes \in RouteLists \cup {Unset}, n \in Networks \cup {None, Unset} :
       UpdateRouter(r, routes, n)
  \/ \E r \in Routers : DeleteRouter(r)
  \/ \E r \in Routers, s \in Subnets : AddInterfaceBySubnet(r, s)
  \/ \E r \in Routers, p \in ports : AddInterfaceByPort(r, p) \/ RemoveInterface(r, p)
  \/ \E f \in FipIds, id \in {p.id : p \in ports} \cup {None}, a \in UNION IpLists \cup {None} :
       (\E n \in Networks : CreateFloatingIp(f, n, id, a)) \/ UpdateFloatingIp(f, id, a)
  \/ \E f \in FipIds : DeleteFloatingIp(f)

Spec == Init /\ [][Next]_vars

----------------------------------------------------------------------------
(* An associated floating IP can be reached: its router has a gateway on   *)
(* the floating IP's network and an interface on the subnet of the fixed   *)
(* IP, through every change of gateways, interfaces and ports.  Without a  *)
(* port it has neither router nor fixed IP.                                *)
FipsConnected ==
  \A f \in DOMAIN fips :
    IF fips[f].port = None THEN fips[f].router = None /\ fips[f].fixed_ip = None
    ELSE /\ fips[f].router \in DOMAIN routers
         /\ \E p \in ports : p.id = fips[f].port
         /\ \E p \in PortsOf(fips[f].router, Gw) : p.network = fips[f].net
         /\ \E p \in PortsOf(fips[f].router, Intf) : Connected({p}, fips[f].fixed_ip)

(* No two ports of a router, gateway or interface, are on overlapping      *)
(* subnets, in whatever order they were added.                             *)
RouterSubnetsApart ==
  \A r \in DOMAIN routers :
    \A p, q \in RouterPorts(r) :
      p # q => \A s \in SubnetsOf(p), t \in SubnetsOf(q) : CidrOf[s] # CidrOf[t]

(* No port of a router or floating IP outlives it, and no router or        *)
(* floating IP its port: the API could delete neither.                     *)
L3PortsOwned ==
  /\ \A p \in ports : p.owner \in {Intf, Gw} => p.device \in DOMAIN routers
  /\ \A p \in ports : p.owner = Fip => p.device \in DOMAIN fips
  /\ \A r \in DOMAIN routers : PortsOf(r, Gw) = {routers[r].gw} \ {None}
  /\ \A f \in DOMAIN fips : \E p \in PortsOf(f, Fip) : \E a \in p.ips : Text(a) = fips[f].ip

(* Extra routes stay reachable: as long as the gateway is not replaced, no *)
(* call takes the subnet of a nexthop from the router.                     *)
RoutesKept ==
  [][\A r \in DOMAIN routers \cap DOMAIN routers' :
       routers'[r].gw = routers[r].gw =>
         \A h \in routers[r].routes \cap routers'[r].routes :
           Connected(RouterPorts(r), h) => Connected(RouterPorts(r)', h)]_vars

(* What get_sync_data gives an agent of a router. *)
SyncData(r) ==
  [gw |-> routers[r].gw, routes |-> routers[r].routes, interfaces |-> PortsOf(r, Intf),
   floatingips |-> {[id |-> f, fixed_ip |-> fips[f].fixed_ip] :
                      f \in {f \in DOMAIN fips : fips[f].router = r}}]

(* Every accepted call that changes what an agent is to configure for a    *)
(* router, its own or one it only touches, notifies the agents of it.      *)
ChangesTold ==
  [][\A r \in DOMAIN routers :
       last'.ok /\ (r \notin DOMAIN routers' \/ SyncData(r)' # SyncData(r)) => r \in last'.told]_vars

(* disassociate_floatingips says of several floating IPs on one port:      *)
(* "should never happen".                                                  *)
OneFipPerPort == \A id \in PortIds : Cardinality(Associated(id)) <= 1
=============================================================================
