-------------------------- MODULE CorePluginProofs --------------------------
(***************************************************************************)
(* The base plugin's tables agree, its addresses and MAC addresses are     *)
(* unique, and tenants' ports survive other deletes, for every set of      *)
(* networks, subnets, ports, callers and requests.                         *)
(***************************************************************************)
EXTENDS CorePlugin, TLAPS

(* The primary key of ipallocations, without the network. *)
OneHolder == \A a, b \in allocs : a.subnet = b.subnet /\ a.ip = b.ip => a = b

(* _validate_subnet_cidr, seen from the rows. *)
CidrsDisjoint ==
  \A s, t \in DOMAIN subnets :
    s # t /\ subnets[s].network = subnets[t].network =>
      Addrs(subnets[s].cidr) \cap Addrs(subnets[t].cidr) = {}

(* The pools of a subnet have addresses a port can have. *)
PoolsOnSubnet ==
  \A s \in DOMAIN subnets : \A ip \in PoolAddrs(subnets[s].pools) : OnSubnet(subnets[s].cidr, ip)

(* The inductive invariant.  That recycling the addresses of a port offers *)
(* nothing another port has needs OneHolder; that a generated address has  *)
(* no holder needs PoolPartition; that two subnets do not give the same    *)
(* address to one network needs CidrsDisjoint and PoolsOnSubnet; and       *)
(* delete_port, which spares the gateway, needs GatewayNotOffered.         *)
IInv == /\ TypeOK
        /\ PoolPartition
        /\ AllocationsResolve
        /\ OneHolder
        /\ CidrsDisjoint
        /\ PoolsOnSubnet
        /\ GatewayNotOffered

----------------------------------------------------------------------------
(* _allocate_pools_for_subnet makes pools inside the subnet that leave the *)
(* gateway out, and the pools a request gives are checked for both.        *)
LEMMA DefaultPoolsFacts ==
  ASSUME NEW cidr, cidr.first \in Nat, cidr.last \in Nat, NEW gateway \in Nat \cup {NoAddr}
  PROVE  /\ DefaultPools(cidr, gateway) \in SUBSET Interval
         /\ ValidPools(DefaultPools(cidr, gateway), cidr)
         /\ gateway \notin PoolAddrs(DefaultPools(cidr, gateway))
<1> DEFINE gw == IF gateway = NoAddr THEN cidr.last ELSE gateway
           split == IF gw < cidr.first THEN cidr.first
                    ELSE IF gw > cidr.last THEN cidr.last ELSE gw
           below == [first |-> cidr.first + 1, last |-> split - 1]
           above == [first |-> split + 1, last |-> cidr.last - 1]
           pools == {p \in {below} : split > cidr.first + 1} \cup {p \in {above} : split < cidr.last - 1}
<1>1. DefaultPools(cidr, gateway) = pools
  BY DEF DefaultPools
<1>2. gw \in Nat /\ split \in Nat
  BY DEF NoAddr
<1>3. (cidr.first <= cidr.last => cidr.first <= split /\ split <= cidr.last)
      /\ (split > cidr.first + 1 => split <= cidr.last)
      /\ (split < cidr.last - 1 => cidr.first <= split)
  BY <1>2
<1>4. gateway # NoAddr => gw = gateway /\ gateway \in Nat
  OBVIOUS
<1>5. gateway \in cidr.first .. cidr.last => split = gateway
  BY <1>4, <1>2 DEF NoAddr
<1> HIDE DEF split, gw
<1>6. \A p \in pools : /\ p \in Interval
                       /\ p.first <= p.last
                       /\ cidr.first + 1 <= p.first
                       /\ p.last <= cidr.last - 1
                       /\ Addrs(p) = p.first .. p.last
                       /\ split \notin Addrs(p)
                       /\ Addrs(p) \subseteq cidr.first .. cidr.last
  BY <1>2, <1>3 DEF Interval, Addrs
<1>7. \A p, q \in pools : p # q => Addrs(p) \cap Addrs(q) = {}
  BY <1>2 DEF Addrs
<1> HIDE DEF pools
<1>8. gateway \notin PoolAddrs(pools)
  BY <1>5, <1>6 DEF PoolAddrs
<1>9. QED BY <1>1, <1>6, <1>7, <1>8 DEF ValidPools

LEMMA ValidPoolsFacts ==
  ASSUME NEW cidr, cidr.first \in Nat, cidr.last \in Nat,
         NEW pools \in SUBSET Interval, ValidPools(pools, cidr)
  PROVE  /\ PoolAddrs(pools) \subseteq Nat
         /\ \A ip \in PoolAddrs(pools) : OnSubnet(cidr, ip)
<1>1. \A p \in pools : p.first \in Nat /\ p.last \in Nat
  BY DEF Interval
<1>2. QED BY <1>1 DEF ValidPools, PoolAddrs, Addrs, OnSubnet

(* What the invariant says of one row. *)
LEMMA RowFacts ==
  ASSUME IInv
  PROVE  /\ \A s \in DOMAIN subnets : /\ s \in SubnetIds
                                       /\ subnets[s].network \in NetworkIds
                                       /\ subnets[s].cidr.first \in Nat
                                       /\ subnets[s].cidr.last \in Nat
                                       /\ PoolAddrs(subnets[s].pools) \subseteq Nat
         /\ \A a \in allocs : /\ a.subnet \in DOMAIN subnets
                               /\ a.port \in DOMAIN ports
                               /\ a.ip \in Nat
                               /\ a = [subnet |-> a.subnet, ip |-> a.ip, port |-> a.port]
<1>1. ASSUME NEW s \in DOMAIN subnets
      PROVE  /\ s \in SubnetIds /\ subnets[s].network \in NetworkIds
             /\ subnets[s].cidr.first \in Nat /\ subnets[s].cidr.last \in Nat
             /\ PoolAddrs(subnets[s].pools) \subseteq Nat
  <2>1. s \in SubnetIds /\ subnets[s] \in SubnetRow
    BY DEF IInv, TypeOK
  <2>2. subnets[s].network \in NetworkIds /\ subnets[s].cidr \in Cidrs /\ subnets[s].pools \in SUBSET Interval
    BY <2>1 DEF SubnetRow
  <2>3. subnets[s].cidr.first \in Nat /\ subnets[s].cidr.last \in Nat
    BY <2>2, NamesAssumption
  <2>4. \A p \in subnets[s].pools : p.first \in Nat /\ p.last \in Nat
    BY <2>2 DEF Interval
  <2>5. PoolAddrs(subnets[s].pools) \subseteq Nat
    BY <2>4 DEF PoolAddrs, Addrs
  <2>6. QED BY <2>1, <2>2, <2>3, <2>5
<1>2. ASSUME NEW a \in allocs
      PROVE  /\ a.subnet \in DOMAIN subnets /\ a.port \in DOMAIN ports /\ a.ip \in Nat
             /\ a = [subnet |-> a.subnet, ip |-> a.ip, port |-> a.port]
  <2>1. a \in AllocRow BY DEF IInv, TypeOK
  <2>2. QED BY <2>1 DEF IInv, AllocationsResolve, AllocRow
<1>3. QED BY <1>1, <1>2

(* The addresses rows hold in subnet s. *)
Held(rows, s) == {a.ip : a \in {b \in rows : b.subnet = s}}

(* A grant on network n is good beside the rows kept when its addresses    *)
(* are the network's and nobody has them.                                  *)
GoodGrant(n, grant, kept) ==
  \A i \in DOMAIN grant :
    \E s \in SubnetsOf(n), ip \in Nat :
      /\ grant[i] = Grant(s, ip)
      /\ OnSubnet(subnets[s].cidr, ip)
      /\ \A b \in kept : ~(b.subnet = s /\ b.ip = ip)

(* Once the rows gone are recycled a subnet offers what the rows kept      *)
(* leave of its pools.                                                     *)
LEMMA RecycledFacts ==
  ASSUME IInv, NEW gone \in SUBSET allocs, NEW s \in DOMAIN subnets
  PROVE  Recycled(gone)[s] = PoolAddrs(subnets[s].pools) \ Held(allocs \ gone, s)
<1>1. s \in SubnetIds
  BY RowFacts
<1>2. Recycled(gone)[s] = available[s] \cup {ip \in Held(gone, s) : ip \in PoolAddrs(subnets[s].pools)}
  BY <1>1 DEF Recycled, Held
<1>3. available[s] = PoolAddrs(subnets[s].pools) \ Held(allocs, s)
  BY DEF IInv, PoolPartition, Held
<1>4. Held(allocs, s) = Held(gone, s) \cup Held(allocs \ gone, s)
  BY DEF Held
<1>5. Held(gone, s) \cap Held(allocs \ gone, s) = {}
  BY DEF IInv, OneHolder, Held
<1>6. QED BY <1>2, <1>3, <1>4, <1>5

(* The addresses _test_fixed_ips_for_port and _generate_ip let through.    *)
LEMMA RequestedFacts ==
  ASSUME IInv, NEW ctx, NEW n, NEW fixed_ips, NEW gone \in SUBSET allocs,
         NEW grant \in Requested(ctx, n, fixed_ips, Recycled(gone))
  PROVE  GoodGrant(n, grant, allocs \ gone)
<1> DEFINE offer == Recycled(gone)
<1> SUFFICES ASSUME NEW i \in DOMAIN grant
             PROVE  \E s \in SubnetsOf(n), ip \in Nat :
                      /\ grant[i] = Grant(s, ip)
                      /\ OnSubnet(subnets[s].cidr, ip)
                      /\ \A b \in allocs \ gone : ~(b.subnet = s /\ b.ip = ip)
  BY DEF GoodGrant
<1>1. grant[i] \in Meets(ctx, n, fixed_ips[i], offer)
  BY DEF Requested
<1>2. SubnetsSeen(ctx, n) \subseteq SubnetsOf(n) /\ SubnetsOf(n) \subseteq DOMAIN subnets
  BY DEF SubnetsSeen, SubnetsOf
<1> HIDE DEF offer
<1>3. CASE fixed_ips[i].ip # NoAddr
  <2>1. PICK s \in SubnetsSeen(ctx, n) : /\ grant[i] = Grant(s, fixed_ips[i].ip)
                                        /\ OnSubnet(subnets[s].cidr, fixed_ips[i].ip)
                                        /\ IpFree(s, fixed_ips[i].ip)
    BY <1>1, <1>3 DEF Meets
  <2>2. fixed_ips[i].ip \in Nat
    BY <2>1, <1>2, RowFacts DEF OnSubnet
  <2>3. QED BY <2>1, <2>2, <1>2 DEF IpFree
<1>4. CASE fixed_ips[i].ip = NoAddr
  <2>1. PICK s \in SubnetsSeen(ctx, n) : \E ip \in offer[s] : grant[i] = Grant(s, ip)
    BY <1>1, <1>4 DEF Meets
  <2>0. PICK ip \in offer[s] : grant[i] = Grant(s, ip) BY <2>1
  <2>2. s \in DOMAIN subnets BY <1>2
  <2>3. ip \in PoolAddrs(subnets[s].pools) \ Held(allocs \ gone, s)
    BY <2>2, RecycledFacts DEF offer
  <2>4. ip \in Nat /\ OnSubnet(subnets[s].cidr, ip)
    BY <2>2, <2>3, RowFacts DEF IInv, PoolsOnSubnet
  <2>5. QED BY <2>0, <2>3, <2>4, <1>2 DEF Held
<1>5. QED BY <1>3, <1>4

(* The addresses a port without requests gets. *)
LEMMA AutomaticFacts ==
  ASSUME IInv, NEW ctx, NEW n, NEW grant \in Automatic(ctx, n)
  PROVE  GoodGrant(n, grant, allocs)
<1> SUFFICES ASSUME NEW v \in DOMAIN grant
             PROVE  \E s \in SubnetsOf(n), ip \in Nat :
                      /\ grant[v] = Grant(s, ip)
                      /\ OnSubnet(subnets[s].cidr, ip)
                      /\ \A b \in allocs : ~(b.subnet = s /\ b.ip = ip)
  BY DEF GoodGrant
<1>0. PICK s \in SubnetsSeen(ctx, n) : \E ip \in FirstIps(s, available[s]) : grant[v] = Grant(s, ip)
  BY DEF Automatic
<1>1. PICK ip \in FirstIps(s, available[s]) : grant[v] = Grant(s, ip)
  BY <1>0
<1>2. s \in SubnetsOf(n) /\ s \in DOMAIN subnets
  BY DEF SubnetsSeen, SubnetsOf
<1>3. ip \in available[s]
  BY <1>1 DEF FirstIps
<1>4. ip \in PoolAddrs(subnets[s].pools) \ Held(allocs, s)
  BY <1>2, <1>3 DEF IInv, PoolPartition, Held
<1>5. ip \in Nat /\ OnSubnet(subnets[s].cidr, ip)
  BY <1>2, <1>4, RowFacts DEF IInv, PoolsOnSubnet
<1>6. QED BY <1>1, <1>2, <1>4, <1>5 DEF Held

(* Recycling nothing leaves the offer alone: a new port allocates like one *)
(* that gave nothing back.                                                 *)
LEMMA NothingRecycled == ASSUME TypeOK PROVE Recycled({}) = available
<1>1. \A s \in SubnetIds : available[s] \cup {ip \in {a.ip : a \in {b \in {} : b.subnet = s}} :
                                                 ip \in PoolAddrs(subnets[s].pools)} = available[s]
  OBVIOUS
<1>2. Recycled({}) = [s \in SubnetIds |-> available[s]]
  BY <1>1 DEF Recycled
<1>3. QED BY <1>2 DEF TypeOK

(* Port p of network n giving up the rows gone and taking a good grant:    *)
(* what create_port and update_port share.                                 *)
LEMMA AllocateFacts ==
  ASSUME IInv, NEW p \in PortIds, NEW n, NEW gone \in SUBSET allocs, NEW grant,
         GoodGrant(n, grant, allocs \ gone),
         Allocate(p, grant, allocs \ gone, Recycled(gone)),
         p \in DOMAIN ports', ports'[p].network = n,
         \A q \in DOMAIN ports : q \in DOMAIN ports' /\ ports'[q].network = ports[q].network,
         UNCHANGED subnets
  PROVE  /\ allocs' \subseteq AllocRow
         /\ available' \in [SubnetIds -> SUBSET Nat]
         /\ \A s \in SubnetIds \ DOMAIN subnets : available'[s] = {}
         /\ PoolPartition' /\ AllocationsResolve' /\ OneHolder'
<1> DEFINE rows == {[subnet |-> grant[i].subnet, ip |-> grant[i].ip, port |-> p] : i \in DOMAIN grant}
           kept == allocs \ gone
           offer == Recycled(gone)
<1>1. /\ allocs' = kept \cup rows
      /\ available' = [s \in SubnetIds |-> offer[s] \ Held(rows, s)]
  BY DEF Allocate, Held
<1>2. ASSUME NEW r \in rows
      PROVE  /\ r.subnet \in SubnetsOf(n) /\ r.subnet \in DOMAIN subnets
             /\ r.ip \in Nat /\ r.port = p
             /\ r = [subnet |-> r.subnet, ip |-> r.ip, port |-> p]
             /\ OnSubnet(subnets[r.subnet].cidr, r.ip)
             /\ \A b \in kept : ~(b.subnet = r.subnet /\ b.ip = r.ip)
  <2>1. PICK i \in DOMAIN grant : r = [subnet |-> grant[i].subnet, ip |-> grant[i].ip, port |-> p]
    OBVIOUS
  <2>2. PICK s \in SubnetsOf(n), ip \in Nat :
          /\ grant[i] = Grant(s, ip)
          /\ OnSubnet(subnets[s].cidr, ip)
          /\ \A b \in kept : ~(b.subnet = s /\ b.ip = ip)
    BY DEF GoodGrant
  <2>3. grant[i].subnet = s /\ grant[i].ip = ip
    BY <2>2 DEF Grant
  <2>4. r = [subnet |-> s, ip |-> ip, port |-> p]
    BY <2>1, <2>3
  <2>5. s \in DOMAIN subnets BY DEF SubnetsOf
  <2>6. r.subnet = s /\ r.ip = ip /\ r.port = p BY <2>4
  <2>7. QED BY <2>2, <2>4, <2>5, <2>6
<1> HIDE DEF rows, offer
<1>3. kept \subseteq allocs
  OBVIOUS
<1>4. allocs' \subseteq AllocRow
  <2>1. rows \subseteq AllocRow BY <1>2, RowFacts DEF AllocRow
  <2>2. QED BY <1>1, <1>3, <2>1 DEF IInv, TypeOK
<1>5. available' \in [SubnetIds -> SUBSET Nat]
  <2>1. \A s \in SubnetIds : offer[s] \subseteq Nat
    <3>1. ASSUME NEW s \in SubnetIds
          PROVE  offer[s] \subseteq available[s] \cup {a.ip : a \in {b \in gone : b.subnet = s}}
      BY DEF offer, Recycled
    <3>2. \A a \in gone : a.ip \in Nat BY RowFacts
    <3>3. \A s \in SubnetIds : available[s] \subseteq Nat BY DEF IInv, TypeOK
    <3>4. QED BY <3>1, <3>2, <3>3
  <2>2. QED BY <2>1, <1>1
<1>10. ASSUME NEW s \in SubnetIds \ DOMAIN subnets PROVE available'[s] = {}
  <2>1. Held(gone, s) = {} /\ available[s] = {} BY RowFacts DEF Held, IInv, TypeOK
  <2>2. offer[s] = {} BY <2>1 DEF offer, Recycled, Held
  <2>3. QED BY <2>2, <1>1
<1>6. PoolPartition'
  <2>1. ASSUME NEW s \in DOMAIN subnets
        PROVE  available'[s] = PoolAddrs(subnets[s].pools) \ Held(allocs', s)
    <3>1. s \in SubnetIds BY RowFacts
    <3>2. offer[s] = PoolAddrs(subnets[s].pools) \ Held(kept, s)
      BY RecycledFacts DEF offer
    <3>3. Held(allocs', s) = Held(kept, s) \cup Held(rows, s)
      BY <1>1 DEF Held
    <3>4. QED BY <3>1, <3>2, <3>3, <1>1
  <2>2. QED BY <2>1 DEF PoolPartition, Held
<1>7. AllocationsResolve'
  <2>1. ASSUME NEW a \in allocs'
        PROVE  /\ a.port \in DOMAIN ports'
               /\ a.subnet \in DOMAIN subnets
               /\ ports'[a.port].network = subnets[a.subnet].network
               /\ a.ip \in Addrs(subnets[a.subnet].cidr)
    <3>1. CASE a \in kept
      BY <3>1 DEF IInv, AllocationsResolve
    <3>2. CASE a \in rows
      <4>1. a.ip \in Addrs(subnets[a.subnet].cidr)
        BY <3>2, <1>2, RowFacts DEF OnSubnet, Addrs
      <4>2. subnets[a.subnet].network = n BY <3>2, <1>2 DEF SubnetsOf
      <4>3. QED BY <4>1, <4>2, <3>2, <1>2
    <3>3. QED BY <3>1, <3>2, <1>1
  <2>2. QED BY <2>1 DEF AllocationsResolve
<1>8. OneHolder'
  <2>1. \A a, b \in rows : a.subnet = b.subnet /\ a.ip = b.ip => a = b
    BY <1>2
  <2>2. \A a, b \in kept : a.subnet = b.subnet /\ a.ip = b.ip => a = b
    BY DEF IInv, OneHolder
  <2>3. QED BY <2>1, <2>2, <1>1, <1>2 DEF OneHolder
<1>9. QED BY <1>4, <1>5, <1>6, <1>7, <1>8, <1>10

----------------------------------------------------------------------------
(* The steps that leave addresses alone. *)

LEMMA CreateNetworkStep ==
  ASSUME IInv, NEW ctx, NEW n \in NetworkIds, NEW tenant \in Tenants, NEW shared \in BOOLEAN,
         CreateNetwork(ctx, n, tenant, shared)
  PROVE  IInv'
<1>1. /\ networks' = Put(networks, n, [tenant |-> tenant, shared |-> shared])
      /\ UNCHANGED <<subnets, ports, allocs, available>>
  BY DEF CreateNetwork
<1>2. TypeOK'
  BY <1>1 DEF IInv, TypeOK, Put, NetworkRow
<1>3. QED BY <1>1, <1>2 DEF IInv, PoolPartition, AllocationsResolve, OneHolder, CidrsDisjoint,
             PoolsOnSubnet, GatewayNotOffered

LEMMA UpdateNetworkStep ==
  ASSUME IInv, NEW ctx, NEW n \in NetworkIds, NEW shared \in BOOLEAN, UpdateNetwork(ctx, n, shared)
  PROVE  IInv'
<1>1. /\ networks' = [networks EXCEPT ![n].shared = shared]
      /\ subnets' = [s \in DOMAIN subnets |-> IF s \in SubnetsOf(n)
                                              THEN [subnets[s] EXCEPT !.shared = shared]
                                              ELSE subnets[s]]
      /\ UNCHANGED <<ports, allocs, available>>
  BY DEF UpdateNetwork
<1>2. /\ DOMAIN subnets' = DOMAIN subnets
      /\ \A s \in DOMAIN subnets : /\ subnets'[s] \in SubnetRow
                                   /\ subnets'[s].network = subnets[s].network
                                   /\ subnets'[s].cidr = subnets[s].cidr
                                   /\ subnets'[s].gateway = subnets[s].gateway
                                   /\ subnets'[s].pools = subnets[s].pools
  BY <1>1 DEF IInv, TypeOK, SubnetRow
<1>3. \A m \in DOMAIN networks' : m \in DOMAIN networks /\ networks'[m] \in NetworkRow
  BY <1>1 DEF IInv, TypeOK, NetworkRow
<1>4. TypeOK'
  BY <1>1, <1>2, <1>3 DEF IInv, TypeOK
<1>5. PoolPartition' BY <1>1, <1>2 DEF IInv, PoolPartition
<1>6. AllocationsResolve' /\ OneHolder' BY <1>1, <1>2 DEF IInv, AllocationsResolve, OneHolder
<1>7. CidrsDisjoint' BY <1>2 DEF IInv, CidrsDisjoint
<1>8. PoolsOnSubnet' /\ GatewayNotOffered' BY <1>2 DEF IInv, PoolsOnSubnet, GatewayNotOffered
<1>9. QED BY <1>4, <1>5, <1>6, <1>7, <1>8 DEF IInv

LEMMA UpdateSubnetStep ==
  ASSUME IInv, NEW ctx, NEW s \in SubnetIds, NEW gateway \in GatewayIps, UpdateSubnet(ctx, s, gateway)
  PROVE  IInv'
<1>1. /\ s \in DOMAIN subnets
      /\ subnets' = [subnets EXCEPT ![s].gateway = gateway]
      /\ UNCHANGED <<networks, ports, allocs, available>>
      /\ gateway # NoAddr => gateway \notin PoolAddrs(subnets[s].pools)
  BY DEF UpdateSubnet
<1>2. /\ DOMAIN subnets' = DOMAIN subnets
      /\ \A t \in DOMAIN subnets : /\ subnets'[t] \in SubnetRow
                                   /\ subnets'[t].network = subnets[t].network
                                   /\ subnets'[t].cidr = subnets[t].cidr
                                   /\ subnets'[t].gateway = IF t = s THEN gateway
                                                            ELSE subnets[t].gateway
                                   /\ subnets'[t].pools = subnets[t].pools
  BY <1>1, NamesAssumption DEF IInv, TypeOK, SubnetRow
<1>3. TypeOK'
  BY <1>1, <1>2 DEF IInv, TypeOK
<1>4. gateway \notin PoolAddrs(subnets[s].pools)
  BY <1>1, RowFacts DEF NoAddr
<1>5. GatewayNotOffered'
  BY <1>2, <1>4 DEF IInv, GatewayNotOffered
<1>6. PoolPartition' BY <1>1, <1>2 DEF IInv, PoolPartition
<1>7. AllocationsResolve' /\ OneHolder' BY <1>1, <1>2 DEF IInv, AllocationsResolve, OneHolder
<1>8. CidrsDisjoint' BY <1>2 DEF IInv, CidrsDisjoint
<1>9. PoolsOnSubnet' BY <1>2 DEF IInv, PoolsOnSubnet
<1>10. QED BY <1>3, <1>5, <1>6, <1>7, <1>8, <1>9 DEF IInv

LEMMA CreateSubnetStep ==
  ASSUME IInv, NEW ctx, NEW s \in SubnetIds, NEW n \in NetworkIds, NEW tenant \in Tenants,
         NEW cidr \in Cidrs, NEW gateway_ip \in GatewayIps \cup {Unset},
         NEW allocation_pools \in PoolLists \cup {Unset},
         CreateSubnet(ctx, s, n, tenant, cidr, gateway_ip, allocation_pools)
  PROVE  IInv'
<1> DEFINE gateway == IF gateway_ip = Unset THEN cidr.first + 1 ELSE gateway_ip
           pools == IF allocation_pools = Unset THEN DefaultPools(cidr, gateway)
                    ELSE allocation_pools
           row == [network |-> n, tenant |-> tenant, cidr |-> cidr, gateway |-> gateway,
                   pools |-> pools, shared |-> networks[n].shared]
<1>1. /\ s \notin DOMAIN subnets
      /\ n \in DOMAIN networks
      /\ allocation_pools # Unset => ValidPools(pools, cidr) /\ gateway \notin PoolAddrs(pools)
      /\ CidrFree(n, cidr)
      /\ subnets' = Put(subnets, s, row)
      /\ available' = [available EXCEPT ![s] = PoolAddrs(pools)]
      /\ UNCHANGED <<networks, ports, allocs>>
  BY DEF CreateSubnet
<1>2. cidr.first \in Nat /\ cidr.last \in Nat /\ gateway \in Nat \cup {NoAddr}
  BY NamesAssumption
<1> HIDE DEF gateway
<1>3. pools \in SUBSET Interval /\ ValidPools(pools, cidr) /\ gateway \notin PoolAddrs(pools)
  BY <1>1, <1>2, NamesAssumption, DefaultPoolsFacts
<1>4. PoolAddrs(pools) \subseteq Nat /\ \A ip \in PoolAddrs(pools) : OnSubnet(cidr, ip)
  BY <1>2, <1>3, ValidPoolsFacts
<1> HIDE DEF pools
<1>5. row \in SubnetRow
  BY <1>1, <1>2, <1>3 DEF SubnetRow, IInv, TypeOK, NetworkRow
<1>6. /\ row.network = n /\ row.cidr = cidr /\ row.gateway = gateway /\ row.pools = pools
  OBVIOUS
<1> HIDE DEF row
<1>7. /\ DOMAIN subnets' = DOMAIN subnets \cup {s}
      /\ subnets'[s] = row
      /\ \A t \in DOMAIN subnets : subnets'[t] = subnets[t] /\ t # s
  BY <1>1 DEF Put
<1>8. \A a \in allocs : a.subnet \in DOMAIN subnets
  BY RowFacts
<1>9. TypeOK'
  BY <1>1, <1>4, <1>5, <1>7 DEF IInv, TypeOK
<1>10. PoolPartition'
  <2>1. Held(allocs, s) = {} BY <1>1, <1>8 DEF Held
  <2>2. available'[s] = PoolAddrs(pools) /\ \A t \in DOMAIN subnets : available'[t] = available[t]
    BY <1>1, <1>7 DEF IInv, TypeOK
  <2>3. \A t \in DOMAIN subnets' : available'[t] = PoolAddrs(subnets'[t].pools) \ Held(allocs, t)
    BY <2>1, <2>2, <1>6, <1>7 DEF IInv, PoolPartition, Held
  <2>4. QED BY <2>3, <1>1 DEF PoolPartition, Held
<1>11. AllocationsResolve'
  BY <1>1, <1>7, <1>8 DEF IInv, AllocationsResolve
<1>12. CidrsDisjoint'
  <2>1. \A t \in DOMAIN subnets : subnets[t].network = n => Addrs(subnets[t].cidr) \cap Addrs(cidr) = {}
    BY <1>1 DEF CidrFree
  <2>2. QED BY <2>1, <1>6, <1>7 DEF IInv, CidrsDisjoint
<1>13. PoolsOnSubnet' /\ GatewayNotOffered'
  BY <1>3, <1>4, <1>6, <1>7 DEF IInv, PoolsOnSubnet, GatewayNotOffered
<1>14. QED BY <1>1, <1>9, <1>10, <1>11, <1>12, <1>13 DEF IInv, OneHolder

----------------------------------------------------------------------------
(* The steps that give and take addresses. *)

LEMMA DeleteNetworkStep ==
  ASSUME IInv, NEW ctx, NEW n \in NetworkIds, DeleteNetwork(ctx, n)
  PROVE  IInv'
<1>1. /\ networks' = Drop(networks, {n})
      /\ subnets' = Drop(subnets, SubnetsOf(n))
      /\ ports' = Drop(ports, PortsOf(n))
      /\ allocs' = allocs \ AllocsOf(PortsOf(n))
      /\ available' = [s \in SubnetIds |-> IF s \in SubnetsOf(n) THEN {} ELSE available[s]]
  BY DEF DeleteNetwork
<1>2. /\ DOMAIN networks' \subseteq DOMAIN networks
      /\ \A m \in DOMAIN networks' : networks'[m] = networks[m]
  BY <1>1 DEF Drop, Restrict
<1>3. /\ DOMAIN subnets' = {s \in DOMAIN subnets : subnets[s].network # n}
      /\ \A s \in DOMAIN subnets' : subnets'[s] = subnets[s]
  BY <1>1 DEF Drop, Restrict, SubnetsOf
<1>4. /\ DOMAIN ports' = {p \in DOMAIN ports : ports[p].network # n}
      /\ \A p \in DOMAIN ports' : ports'[p] = ports[p]
  BY <1>1 DEF Drop, Restrict, PortsOf
<1>5. allocs' = {a \in allocs : ports[a.port].network # n}
  BY <1>1, RowFacts DEF AllocsOf, PortsOf
<1>6. TypeOK'
  <2>1. available' \in [SubnetIds -> SUBSET Nat] BY <1>1 DEF IInv, TypeOK
  <2>2. \A s \in SubnetIds \ DOMAIN subnets' : available'[s] = {}
    BY <1>1, <1>3 DEF IInv, TypeOK, SubnetsOf
  <2>3. QED BY <2>1, <2>2, <1>2, <1>3, <1>4, <1>5 DEF IInv, TypeOK
<1>7. PoolPartition'
  <2>1. ASSUME NEW s \in DOMAIN subnets'
        PROVE  available'[s] = PoolAddrs(subnets'[s].pools) \ Held(allocs', s)
    <3>1. s \in SubnetIds /\ s \in DOMAIN subnets /\ s \notin SubnetsOf(n)
      BY <1>3, RowFacts DEF SubnetsOf
    <3>2. available'[s] = available[s] BY <1>1, <3>1
    <3>3. \A a \in allocs : a.subnet = s => ports[a.port].network # n
      BY <1>3 DEF IInv, AllocationsResolve
    <3>4. Held(allocs', s) = Held(allocs, s) BY <3>3, <1>5 DEF Held
    <3>5. QED BY <3>1, <3>2, <3>4, <1>3 DEF IInv, PoolPartition, Held
  <2>2. QED BY <2>1 DEF PoolPartition, Held
<1>8. AllocationsResolve'
  BY <1>3, <1>4, <1>5 DEF IInv, AllocationsResolve
<1>9. OneHolder' BY <1>5 DEF IInv, OneHolder
<1>10. CidrsDisjoint' BY <1>3 DEF IInv, CidrsDisjoint
<1>11. PoolsOnSubnet' /\ GatewayNotOffered' BY <1>3 DEF IInv, PoolsOnSubnet, GatewayNotOffered
<1>12. QED BY <1>6, <1>7, <1>8, <1>9, <1>10, <1>11 DEF IInv

LEMMA DeleteSubnetStep ==
  ASSUME IInv, NEW ctx, NEW s \in SubnetIds, DeleteSubnet(ctx, s)
  PROVE  IInv'
<1>1. /\ subnets' = Drop(subnets, {s})
      /\ allocs' = {a \in allocs : a.subnet # s}
      /\ available' = [available EXCEPT ![s] = {}]
      /\ UNCHANGED <<networks, ports>>
  BY DEF DeleteSubnet
<1>2. /\ DOMAIN subnets' = DOMAIN subnets \ {s}
      /\ \A t \in DOMAIN subnets' : subnets'[t] = subnets[t]
  BY <1>1 DEF Drop, Restrict
<1>3. TypeOK'
  BY <1>1, <1>2 DEF IInv, TypeOK
<1>4. PoolPartition'
  <2>1. ASSUME NEW t \in DOMAIN subnets'
        PROVE  available'[t] = PoolAddrs(subnets'[t].pools) \ Held(allocs', t)
    <3>1. t \in SubnetIds /\ t \in DOMAIN subnets /\ t # s BY <1>2, RowFacts
    <3>2. available'[t] = available[t] BY <1>1, <3>1 DEF IInv, TypeOK
    <3>3. Held(allocs', t) = Held(allocs, t) BY <3>1, <1>1 DEF Held
    <3>4. QED BY <3>1, <3>2, <3>3, <1>2 DEF IInv, PoolPartition, Held
  <2>2. QED BY <2>1 DEF PoolPartition, Held
<1>5. AllocationsResolve' BY <1>1, <1>2 DEF IInv, AllocationsResolve
<1>6. OneHolder' BY <1>1 DEF IInv, OneHolder
<1>7. CidrsDisjoint' BY <1>2 DEF IInv, CidrsDisjoint
<1>8. PoolsOnSubnet' /\ GatewayNotOffered' BY <1>2 DEF IInv, PoolsOnSubnet, GatewayNotOffered
<1>9. QED BY <1>3, <1>4, <1>5, <1>6, <1>7, <1>8 DEF IInv

LEMMA CreatePortStep ==
  ASSUME IInv, NEW ctx, NEW p \in PortIds, NEW n \in NetworkIds, NEW tenant \in Tenants,
         NEW mac \in Macs, NEW owner \in Owners, NEW fixed_ips,
         CreatePort(ctx, p, n, tenant, mac, owner, fixed_ips)
  PROVE  IInv'
<1> DEFINE row == [network |-> n, tenant |-> tenant, mac |-> mac, owner |-> owner]
<1>1. /\ p \notin DOMAIN ports
      /\ ports' = Put(ports, p, row)
      /\ UNCHANGED <<networks, subnets>>
  BY DEF CreatePort
<1>2. row \in PortRow /\ row.network = n
  BY DEF PortRow
<1> HIDE DEF row
<1>3. /\ DOMAIN ports' = DOMAIN ports \cup {p}
      /\ ports'[p] = row
      /\ \A q \in DOMAIN ports : ports'[q] = ports[q]
  BY <1>1 DEF Put
<1>4. PICK grant : /\ GoodGrant(n, grant, allocs \ {})
                   /\ Allocate(p, grant, allocs \ {}, Recycled({}))
  <2>1. allocs \ {} = allocs /\ Recycled({}) = available
    BY NothingRecycled DEF IInv
  <2>2. CASE \E grant \in Automatic(ctx, n) : Allocate(p, grant, allocs, available)
    BY <2>1, <2>2, AutomaticFacts
  <2>3. CASE \E grant \in Requested(ctx, n, fixed_ips, available) : Allocate(p, grant, allocs, available)
    <3>1. PICK grant \in Requested(ctx, n, fixed_ips, Recycled({})) :
            Allocate(p, grant, allocs \ {}, Recycled({}))
      BY <2>1, <2>3
    <3>2. GoodGrant(n, grant, allocs \ {}) BY RequestedFacts
    <3>3. QED BY <3>1, <3>2
  <2>4. QED BY <2>2, <2>3 DEF CreatePort
<1>5. /\ allocs' \subseteq AllocRow
      /\ available' \in [SubnetIds -> SUBSET Nat]
      /\ \A s \in SubnetIds \ DOMAIN subnets : available'[s] = {}
      /\ PoolPartition' /\ AllocationsResolve' /\ OneHolder'
  <2>1. UNCHANGED subnets BY <1>1
  <2>2. QED BY <2>1, <1>2, <1>3, <1>4, AllocateFacts
<1>6. TypeOK' BY <1>1, <1>2, <1>3, <1>5 DEF IInv, TypeOK
<1>7. QED BY <1>1, <1>5, <1>6 DEF IInv, CidrsDisjoint, PoolsOnSubnet, GatewayNotOffered

LEMMA UpdatePortStep ==
  ASSUME IInv, NEW ctx, NEW p \in PortIds, NEW owner \in Owners, NEW fixed_ips,
         UpdatePort(ctx, p, owner, fixed_ips)
  PROVE  IInv'
<1>1. /\ p \in DOMAIN ports
      /\ ports' = [ports EXCEPT ![p].owner = owner]
      /\ UNCHANGED <<networks, subnets>>
  BY DEF UpdatePort
<1>2. /\ DOMAIN ports' = DOMAIN ports
      /\ \A q \in DOMAIN ports : ports'[q] \in PortRow /\ ports'[q].network = ports[q].network
  BY <1>1 DEF IInv, TypeOK, PortRow
<1>3. /\ allocs' \subseteq AllocRow
      /\ available' \in [SubnetIds -> SUBSET Nat]
      /\ \A s \in SubnetIds \ DOMAIN subnets : available'[s] = {}
      /\ PoolPartition' /\ AllocationsResolve' /\ OneHolder'
  <2>1. CASE UNCHANGED <<allocs, available>>
    <3>1. PoolPartition' BY <1>1, <2>1 DEF IInv, PoolPartition
    <3>2. AllocationsResolve' BY <1>1, <1>2, <2>1 DEF IInv, AllocationsResolve
    <3>3. QED BY <2>1, <3>1, <3>2 DEF IInv, TypeOK, OneHolder
  <2>2. CASE fixed_ips # Unset
    <3> DEFINE again == Again(p, fixed_ips)
               new == Unmet(fixed_ips, again)
               gone == AllocsOf({p}) \ again
    <3>1. PICK grant \in Requested(ctx, ports[p].network, new, Recycled(gone)) :
            Allocate(p, grant, allocs \ gone, Recycled(gone))
      BY <2>1, <2>2 DEF UpdatePort
    <3>2. gone \in SUBSET allocs BY DEF AllocsOf
    <3> HIDE DEF gone, new
    <3>3. GoodGrant(ports[p].network, grant, allocs \ gone)
      BY <3>2, RequestedFacts
    <3>4. UNCHANGED subnets BY <1>1
    <3>5. ports'[p].network = ports[p].network /\ p \in DOMAIN ports'
      BY <1>1, <1>2
    <3>6. QED BY <3>1, <3>2, <3>3, <3>4, <3>5, <1>2, AllocateFacts
  <2>3. QED BY <2>1, <2>2 DEF UpdatePort
<1>4. TypeOK' BY <1>1, <1>2, <1>3 DEF IInv, TypeOK
<1>5. QED BY <1>1, <1>3, <1>4 DEF IInv, CidrsDisjoint, PoolsOnSubnet, GatewayNotOffered

LEMMA DeletePortStep ==
  ASSUME IInv, NEW ctx, NEW p \in PortIds, DeletePort(ctx, p)
  PROVE  IInv'
<1> DEFINE gone == AllocsOf({p})
           back == {a \in gone : a.ip # subnets[a.subnet].gateway}
<1>1. /\ available' = Recycled(back)
      /\ allocs' = allocs \ gone
      /\ ports' = Drop(ports, {p})
      /\ UNCHANGED <<networks, subnets>>
  BY DEF DeletePort
<1>2. /\ DOMAIN ports' = DOMAIN ports \ {p}
      /\ \A q \in DOMAIN ports' : ports'[q] = ports[q]
  BY <1>1 DEF Drop, Restrict
<1>3. gone = {a \in allocs : a.port = p} /\ gone \in SUBSET allocs
  BY DEF AllocsOf
<1>4. TypeOK'
  <2>1. ASSUME NEW s \in SubnetIds
        PROVE  Recycled(back)[s] \subseteq available[s] \cup {a.ip : a \in {b \in back : b.subnet = s}}
    BY DEF Recycled
  <2>2. \A a \in back : a.ip \in Nat BY <1>3, RowFacts
  <2> HIDE DEF back
  <2>3. \A s \in SubnetIds : Recycled(back)[s] \subseteq Nat
    BY <2>1, <2>2 DEF IInv, TypeOK
  <2>4. available' \in [SubnetIds -> SUBSET Nat]
    BY <2>3, <1>1 DEF Recycled
  <2>5. ASSUME NEW s \in SubnetIds \ DOMAIN subnets PROVE available'[s] = {}
    <3>1. {a.ip : a \in {b \in back : b.subnet = s}} = {}
      BY <1>3, RowFacts DEF back
    <3>2. QED BY <2>1, <3>1, <1>1 DEF IInv, TypeOK
  <2>6. QED BY <2>4, <2>5, <1>1, <1>2 DEF IInv, TypeOK
<1>5. PoolPartition'
  <2>1. ASSUME NEW s \in DOMAIN subnets
        PROVE  Recycled(back)[s] = PoolAddrs(subnets[s].pools) \ Held(allocs \ gone, s)
    <3>1. s \in SubnetIds BY RowFacts
    <3>2. Recycled(back)[s] = Recycled(gone)[s]
      <4>1. \A ip \in PoolAddrs(subnets[s].pools) : ip # subnets[s].gateway
        BY DEF IInv, GatewayNotOffered
      <4>2. {ip \in Held(back, s) : ip \in PoolAddrs(subnets[s].pools)}
              = {ip \in Held(gone, s) : ip \in PoolAddrs(subnets[s].pools)}
        BY <4>1 DEF Held
      <4>3. QED BY <3>1, <4>2 DEF Recycled, Held
    <3>3. QED BY <3>2, <1>3, RecycledFacts
  <2>2. QED BY <2>1, <1>1 DEF PoolPartition, Held
<1>6. AllocationsResolve' BY <1>1, <1>2, <1>3 DEF IInv, AllocationsResolve
<1>7. OneHolder' BY <1>1 DEF IInv, OneHolder
<1>8. QED BY <1>1, <1>4, <1>5, <1>6, <1>7 DEF IInv, CidrsDisjoint, PoolsOnSubnet, GatewayNotOffered

----------------------------------------------------------------------------
LEMMA InitEstablishes == Init => IInv
BY DEF Init, NoRows, IInv, TypeOK, PoolPartition, AllocationsResolve, OneHolder, CidrsDisjoint,
       PoolsOnSubnet, GatewayNotOffered

(* Every API call preserves the invariant. *)
THEOREM Invariance == Spec => []IInv
<1>1. Init => IInv
  BY InitEstablishes
<1>2. IInv /\ Next => IInv'
  <2> SUFFICES ASSUME IInv, NEW ctx \in Contexts, NextFor(ctx) PROVE IInv'
    BY DEF Next
  <2>1. ASSUME NEW n \in NetworkIds, NEW t \in Tenants, NEW shared \in BOOLEAN,
               CreateNetwork(ctx, n, t, shared) \/ UpdateNetwork(ctx, n, shared)
        PROVE  IInv'
    BY <2>1, CreateNetworkStep, UpdateNetworkStep
  <2>2. ASSUME NEW n \in NetworkIds, DeleteNetwork(ctx, n) PROVE IInv'
    BY <2>2, DeleteNetworkStep
  <2>3. ASSUME NEW s \in SubnetIds, NEW n \in NetworkIds, NEW t \in Tenants, NEW cidr \in Cidrs,
               NEW gateway_ip \in GatewayIps \cup {Unset}, NEW pools \in PoolLists \cup {Unset},
               CreateSubnet(ctx, s, n, t, cidr, gateway_ip, pools)
        PROVE  IInv'
    BY <2>3, CreateSubnetStep
  <2>4. ASSUME NEW s \in SubnetIds, NEW gateway_ip \in GatewayIps, UpdateSubnet(ctx, s, gateway_ip)
        PROVE  IInv'
    BY <2>4, UpdateSubnetStep
  <2>5. ASSUME NEW s \in SubnetIds, DeleteSubnet(ctx, s) PROVE IInv'
    BY <2>5, DeleteSubnetStep
  <2>6. ASSUME NEW p \in PortIds, NEW n \in NetworkIds, NEW t \in Tenants, NEW mac \in Macs,
               NEW owner \in Owners, NEW fixed_ips \in FixedIpLists \cup {Unset},
               CreatePort(ctx, p, n, t, mac, owner, fixed_ips)
        PROVE  IInv'
    BY <2>6, CreatePortStep
  <2>7. ASSUME NEW p \in PortIds, NEW owner \in Owners, NEW fixed_ips \in FixedIpLists \cup {Unset},
               UpdatePort(ctx, p, owner, fixed_ips)
        PROVE  IInv'
    BY <2>7, UpdatePortStep
  <2>8. ASSUME NEW p \in PortIds, DeletePort(ctx, p) PROVE IInv'
    BY <2>8, DeletePortStep
  <2>9. QED BY <2>1, <2>2, <2>3, <2>4, <2>5, <2>6, <2>7, <2>8 DEF NextFor
<1>3. IInv /\ UNCHANGED vars => IInv'
  BY DEF vars, IInv, TypeOK, PoolPartition, AllocationsResolve, OneHolder, CidrsDisjoint,
         PoolsOnSubnet, GatewayNotOffered
<1>4. QED BY <1>1, <1>2, <1>3, PTL DEF Spec

(* The tables keep their types. *)
THEOREM TypeCorrect == Spec => []TypeOK
<1>1. IInv => TypeOK BY DEF IInv
<1>2. QED BY <1>1, Invariance, PTL

(* Whatever ports are created, updated and deleted, an address of a pool   *)
(* is offered exactly when no port has it.                                 *)
THEOREM PartitionHolds == Spec => []PoolPartition
<1>1. IInv => PoolPartition BY DEF IInv
<1>2. QED BY <1>1, Invariance, PTL

(* No deletion leaves an allocation without its port or its subnet. *)
THEOREM AllocationsHold == Spec => []AllocationsResolve
<1>1. IInv => AllocationsResolve BY DEF IInv
<1>2. QED BY <1>1, Invariance, PTL

(* No subnet offers its gateway. *)
THEOREM GatewayHolds == Spec => []GatewayNotOffered
<1>1. IInv => GatewayNotOffered BY DEF IInv
<1>2. QED BY <1>1, Invariance, PTL

(* No two ports of a network have the same address. *)
THEOREM AddressesHold == Spec => []AddressesUnique
<1>1. IInv => AddressesUnique
  <2> SUFFICES ASSUME IInv, NEW a \in allocs, NEW b \in allocs, a # b,
                      ports[a.port].network = ports[b.port].network, a.ip = b.ip
               PROVE  FALSE
    BY DEF AddressesUnique
  <2>1. /\ a.subnet \in DOMAIN subnets /\ b.subnet \in DOMAIN subnets
        /\ subnets[a.subnet].network = subnets[b.subnet].network
        /\ a.ip \in Addrs(subnets[a.subnet].cidr) /\ b.ip \in Addrs(subnets[b.subnet].cidr)
    BY DEF IInv, AllocationsResolve
  <2>2. CASE a.subnet = b.subnet
    BY <2>2 DEF IInv, OneHolder
  <2>3. CASE a.subnet # b.subnet
    BY <2>1, <2>3 DEF IInv, CidrsDisjoint
  <2>4. QED BY <2>2, <2>3
<1>2. QED BY <1>1, Invariance, PTL
----------------------------------------------------------------------------
(* The rows of networks, subnets and ports.  SharedAgrees needs that a     *)
(* subnet is on a network that exists, or creating the network could break *)
(* it; TenantPortsSurvive needs PortsResolve: a port whose network is gone *)
(* was on it before the step that deleted it.                              *)
RowsAgree == MacsUnique /\ SharedAgrees /\ PortsResolve

(* A network is created: its id was on no subnet and no port.              *)
LEMMA CreateNetworkRows ==
  ASSUME IInv, RowsAgree, NEW ctx, NEW n \in NetworkIds, NEW t, NEW shared, CreateNetwork(ctx, n, t, shared)
  PROVE  RowsAgree'
<1>1. /\ n \notin DOMAIN networks
      /\ DOMAIN networks' = DOMAIN networks \cup {n}
      /\ \A m \in DOMAIN networks : m \in DOMAIN networks' /\ networks'[m] = networks[m]
      /\ UNCHANGED <<subnets, ports>>
  BY DEF CreateNetwork, Put
<1>2. MacsUnique' BY <1>1 DEF RowsAgree, MacsUnique
<1>3. SharedAgrees' BY <1>1 DEF RowsAgree, SharedAgrees
<1>4. PortsResolve' BY <1>1 DEF RowsAgree, PortsResolve
<1>5. QED BY <1>2, <1>3, <1>4 DEF RowsAgree

LEMMA UpdateNetworkRows ==
  ASSUME IInv, RowsAgree, NEW ctx, NEW n \in NetworkIds, NEW shared \in BOOLEAN, UpdateNetwork(ctx, n, shared)
  PROVE  RowsAgree'
<1>1. /\ n \in DOMAIN networks
      /\ networks' = [networks EXCEPT ![n].shared = shared]
      /\ DOMAIN subnets' = DOMAIN subnets
      /\ \A s \in DOMAIN subnets :
           subnets'[s] = IF subnets[s].network = n THEN [subnets[s] EXCEPT !.shared = shared] ELSE subnets[s]
      /\ UNCHANGED ports
  BY DEF UpdateNetwork, SubnetsOf
<1>2. \A s \in DOMAIN subnets : /\ subnets'[s].network = subnets[s].network
                                /\ subnets'[s].shared = IF subnets[s].network = n THEN shared ELSE subnets[s].shared
  BY <1>1 DEF IInv, TypeOK, SubnetRow
<1>3. DOMAIN networks' = DOMAIN networks
      /\ \A m \in DOMAIN networks : networks'[m].shared = IF m = n THEN shared ELSE networks[m].shared
  BY <1>1 DEF IInv, TypeOK, NetworkRow
<1>4. MacsUnique' BY <1>1 DEF RowsAgree, MacsUnique
<1>5. SharedAgrees' BY <1>1, <1>2, <1>3 DEF RowsAgree, SharedAgrees
<1>6. PortsResolve' BY <1>1, <1>3 DEF RowsAgree, PortsResolve
<1>7. QED BY <1>4, <1>5, <1>6 DEF RowsAgree

(* delete_network takes the subnets and the ports of the network along.    *)
LEMMA DeleteNetworkRows ==
  ASSUME IInv, RowsAgree, NEW ctx, NEW n \in NetworkIds, DeleteNetwork(ctx, n)
  PROVE  RowsAgree'
<1>1. /\ DOMAIN networks' = DOMAIN networks \ {n}
      /\ \A m \in DOMAIN networks' : networks'[m] = networks[m]
      /\ DOMAIN subnets' = {s \in DOMAIN subnets : subnets[s].network # n}
      /\ \A s \in DOMAIN subnets' : subnets'[s] = subnets[s]
      /\ DOMAIN ports' = {p \in DOMAIN ports : ports[p].network # n}
      /\ \A p \in DOMAIN ports' : ports'[p] = ports[p]
  BY DEF DeleteNetwork, Drop, Restrict, SubnetsOf, PortsOf
<1>2. MacsUnique' BY <1>1 DEF RowsAgree, MacsUnique
<1>3. SharedAgrees' BY <1>1 DEF RowsAgree, SharedAgrees
<1>4. PortsResolve' BY <1>1 DEF RowsAgree, PortsResolve
<1>5. QED BY <1>2, <1>3, <1>4 DEF RowsAgree

LEMMA CreateSubnetRows ==
  ASSUME IInv, RowsAgree, NEW ctx, NEW s \in SubnetIds, NEW n \in NetworkIds, NEW t, NEW cidr,
         NEW gateway_ip, NEW pools, CreateSubnet(ctx, s, n, t, cidr, gateway_ip, pools)
  PROVE  RowsAgree'
<1>1. /\ n \in DOMAIN networks
      /\ DOMAIN subnets' = DOMAIN subnets \cup {s}
      /\ subnets'[s].network = n /\ subnets'[s].shared = networks[n].shared
      /\ \A r \in DOMAIN subnets : r # s => subnets'[r] = subnets[r]
      /\ UNCHANGED <<networks, ports>>
  BY DEF CreateSubnet, Put
<1>2. SharedAgrees' BY <1>1 DEF RowsAgree, SharedAgrees
<1>3. QED BY <1>1, <1>2 DEF RowsAgree, MacsUnique, PortsResolve

LEMMA UpdateSubnetRows ==
  ASSUME IInv, RowsAgree, NEW ctx, NEW s \in SubnetIds, NEW gateway, UpdateSubnet(ctx, s, gateway)
  PROVE  RowsAgree'
<1>1. /\ subnets' = [subnets EXCEPT ![s].gateway = gateway]
      /\ UNCHANGED <<networks, ports>>
  BY DEF UpdateSubnet
<1>2. /\ DOMAIN subnets' = DOMAIN subnets
      /\ \A r \in DOMAIN subnets : /\ subnets'[r].network = subnets[r].network
                                   /\ subnets'[r].shared = subnets[r].shared
  BY <1>1 DEF IInv, TypeOK, SubnetRow
<1>3. SharedAgrees' BY <1>1, <1>2 DEF RowsAgree, SharedAgrees
<1>4. QED BY <1>1, <1>3 DEF RowsAgree, MacsUnique, PortsResolve

LEMMA DeleteSubnetRows ==
  ASSUME IInv, RowsAgree, NEW ctx, NEW s \in SubnetIds, DeleteSubnet(ctx, s)
  PROVE  RowsAgree'
<1>1. /\ DOMAIN subnets' = DOMAIN subnets \ {s}
      /\ \A r \in DOMAIN subnets' : subnets'[r] = subnets[r]
      /\ UNCHANGED <<networks, ports>>
  BY DEF DeleteSubnet, Drop, Restrict
<1>2. SharedAgrees' BY <1>1 DEF RowsAgree, SharedAgrees
<1>3. QED BY <1>1, <1>2 DEF RowsAgree, MacsUnique, PortsResolve

(* A port is created with a MAC address no port of its network has; no     *)
(* port changes its network or its MAC address.                            *)
LEMMA CreatePortRows ==
  ASSUME IInv, RowsAgree, NEW ctx, NEW p \in PortIds, NEW n \in NetworkIds, NEW t, NEW mac, NEW owner,
         NEW fixed_ips, CreatePort(ctx, p, n, t, mac, owner, fixed_ips)
  PROVE  RowsAgree'
<1>1. /\ n \in DOMAIN networks
      /\ DOMAIN ports' = DOMAIN ports \cup {p}
      /\ ports'[p].network = n /\ ports'[p].mac = mac
      /\ \A q \in DOMAIN ports : q # p => ports'[q] = ports[q]
      /\ \A q \in DOMAIN ports : ports[q].network = n => ports[q].mac # mac
      /\ UNCHANGED <<networks, subnets>>
  BY DEF CreatePort, Put, MacFree, PortsOf
<1>2. MacsUnique' BY <1>1 DEF RowsAgree, MacsUnique
<1>3. PortsResolve' BY <1>1 DEF RowsAgree, PortsResolve
<1>4. QED BY <1>1, <1>2, <1>3 DEF RowsAgree, SharedAgrees

LEMMA UpdatePortRows ==
  ASSUME IInv, RowsAgree, NEW ctx, NEW p \in PortIds, NEW owner, NEW fixed_ips,
         UpdatePort(ctx, p, owner, fixed_ips)
  PROVE  RowsAgree'
<1>1. /\ ports' = [ports EXCEPT ![p].owner = owner]
      /\ UNCHANGED <<networks, subnets>>
  BY DEF UpdatePort
<1>2. /\ DOMAIN ports' = DOMAIN ports
      /\ \A q \in DOMAIN ports : ports'[q].network = ports[q].network /\ ports'[q].mac = ports[q].mac
  BY <1>1 DEF IInv, TypeOK, PortRow
<1>3. MacsUnique' BY <1>2 DEF RowsAgree, MacsUnique
<1>4. QED BY <1>1, <1>2, <1>3 DEF RowsAgree, SharedAgrees, PortsResolve

LEMMA DeletePortRows ==
  ASSUME IInv, RowsAgree, NEW ctx, NEW p \in PortIds, DeletePort(ctx, p)
  PROVE  RowsAgree'
<1>1. /\ DOMAIN ports' = DOMAIN ports \ {p}
      /\ \A q \in DOMAIN ports' : ports'[q] = ports[q]
      /\ UNCHANGED <<networks, subnets>>
  BY DEF DeletePort, Drop, Restrict
<1>2. MacsUnique' BY <1>1 DEF RowsAgree, MacsUnique
<1>3. QED BY <1>1, <1>2 DEF RowsAgree, SharedAgrees, PortsResolve

THEOREM RowsInvariance == Spec => []RowsAgree
<1>1. Init => RowsAgree
  BY DEF Init, NoRows, RowsAgree, MacsUnique, SharedAgrees, PortsResolve
<1>2. IInv /\ RowsAgree /\ Next => RowsAgree'
  <2> SUFFICES ASSUME IInv, RowsAgree, NEW ctx \in Contexts, NextFor(ctx) PROVE RowsAgree'
    BY DEF Next
  <2>1. ASSUME NEW n \in NetworkIds, NEW t \in Tenants, NEW shared \in BOOLEAN,
               CreateNetwork(ctx, n, t, shared) \/ UpdateNetwork(ctx, n, shared)
        PROVE  RowsAgree'
    BY <2>1, CreateNetworkRows, UpdateNetworkRows
  <2>2. ASSUME NEW n \in NetworkIds, DeleteNetwork(ctx, n) PROVE RowsAgree'
    BY <2>2, DeleteNetworkRows
  <2>3. ASSUME NEW s \in SubnetIds, NEW n \in NetworkIds, NEW t \in Tenants, NEW cidr \in Cidrs,
               NEW gateway_ip \in GatewayIps \cup {Unset}, NEW pools \in PoolLists \cup {Unset},
               CreateSubnet(ctx, s, n, t, cidr, gateway_ip, pools)
        PROVE  RowsAgree'
    BY <2>3, CreateSubnetRows
  <2>4. ASSUME NEW s \in SubnetIds, NEW gateway_ip \in GatewayIps, UpdateSubnet(ctx, s, gateway_ip)
        PROVE  RowsAgree'
    BY <2>4, UpdateSubnetRows
  <2>5. ASSUME NEW s \in SubnetIds, DeleteSubnet(ctx, s) PROVE RowsAgree'
    BY <2>5, DeleteSubnetRows
  <2>6. ASSUME NEW p \in PortIds, NEW n \in NetworkIds, NEW t \in Tenants, NEW mac \in Macs,
               NEW owner \in Owners, NEW fixed_ips \in FixedIpLists \cup {Unset},
               CreatePort(ctx, p, n, t, mac, owner, fixed_ips)
        PROVE  RowsAgree'
    BY <2>6, CreatePortRows
  <2>7. ASSUME NEW p \in PortIds, NEW owner \in Owners, NEW fixed_ips \in FixedIpLists \cup {Unset},
               UpdatePort(ctx, p, owner, fixed_ips)
        PROVE  RowsAgree'
    BY <2>7, UpdatePortRows
  <2>8. ASSUME NEW p \in PortIds, DeletePort(ctx, p) PROVE RowsAgree'
    BY <2>8, DeletePortRows
  <2>9. QED BY <2>1, <2>2, <2>3, <2>4, <2>5, <2>6, <2>7, <2>8 DEF NextFor
<1>3. RowsAgree /\ UNCHANGED vars => RowsAgree'
  BY DEF vars, RowsAgree, MacsUnique, SharedAgrees, PortsResolve
<1>4. QED BY <1>1, <1>2, <1>3, Invariance, PTL DEF Spec

(* No two ports of a network have the same MAC address, whatever is        *)
(* created and deleted: _check_unique_mac is enough.                       *)
THEOREM MacsHold == Spec => []MacsUnique
<1>1. RowsAgree => MacsUnique BY DEF RowsAgree
<1>2. QED BY <1>1, RowsInvariance, PTL

(* A subnet is shared exactly when its network is, through every update of *)
(* the network.                                                            *)
THEOREM SharedHolds == Spec => []SharedAgrees
<1>1. RowsAgree => SharedAgrees BY DEF RowsAgree
<1>2. QED BY <1>1, RowsInvariance, PTL

(* No delete of a network or a subnet takes a port, or an address of one,  *)
(* that is not an auto-deleted port.                                       *)
THEOREM TenantPortsHold == Spec => TenantPortsSurvive
<1> DEFINE Survive == /\ \A p \in DOMAIN ports : ports[p].network \notin DOMAIN networks' => AutoDeleted(p)
                      /\ \A a \in allocs : a.subnet \notin DOMAIN subnets' => AutoDeleted(a.port)
<1>1. IInv /\ RowsAgree /\ Next => Survive
  <2> SUFFICES ASSUME IInv, RowsAgree, NEW ctx \in Contexts, NextFor(ctx) PROVE Survive
    BY DEF Next
  <2>1. /\ \A p \in DOMAIN ports : ports[p].network \in DOMAIN networks
        /\ \A a \in allocs : /\ a.port \in DOMAIN ports /\ a.subnet \in DOMAIN subnets
                             /\ ports[a.port].network = subnets[a.subnet].network
    BY DEF IInv, AllocationsResolve, RowsAgree, PortsResolve
  <2> DEFINE Grows == DOMAIN networks \subseteq DOMAIN networks' /\ DOMAIN subnets \subseteq DOMAIN subnets'
  <2>2. Grows => Survive
    BY <2>1
  <2>3. ASSUME NEW n \in NetworkIds, DeleteNetwork(ctx, n) PROVE Survive
    <3>1. /\ DOMAIN networks' = DOMAIN networks \ {n}
          /\ DOMAIN subnets' = {s \in DOMAIN subnets : subnets[s].network # n}
          /\ \A p \in DOMAIN ports : ports[p].network = n => AutoDeleted(p)
      BY <2>3 DEF DeleteNetwork, Drop, Restrict, SubnetsOf, PortsOf
    <3>2. QED BY <2>1, <3>1
  <2>4. ASSUME NEW s \in SubnetIds, DeleteSubnet(ctx, s) PROVE Survive
    <3>1. /\ UNCHANGED networks
          /\ DOMAIN subnets' = DOMAIN subnets \ {s}
          /\ \A a \in allocs : ports[a.port].network = subnets[s].network => AutoDeleted(a.port)
      BY <2>1, <2>4 DEF DeleteSubnet, Drop, Restrict, SubnetInUse, AllocsOf, PortsOf
    <3>2. QED BY <2>1, <3>1
  <2>5. ASSUME NEW n \in NetworkIds, NEW t \in Tenants, NEW shared \in BOOLEAN,
               CreateNetwork(ctx, n, t, shared) \/ UpdateNetwork(ctx, n, shared)
        PROVE  Grows
    BY <2>5 DEF CreateNetwork, UpdateNetwork, Put
  <2>6. ASSUME NEW s \in SubnetIds, NEW n \in NetworkIds, NEW t \in Tenants, NEW cidr \in Cidrs,
               NEW gateway_ip \in GatewayIps \cup {Unset}, NEW pools \in PoolLists \cup {Unset},
               CreateSubnet(ctx, s, n, t, cidr, gateway_ip, pools)
        PROVE  Grows
    BY <2>6 DEF CreateSubnet, Put
  <2>7. ASSUME NEW s \in SubnetIds, NEW gateway_ip \in GatewayIps, UpdateSubnet(ctx, s, gateway_ip)
        PROVE  Grows
    BY <2>7 DEF UpdateSubnet
  <2>8. ASSUME NEW p \in PortIds, NEW n \in NetworkIds, NEW t \in Tenants, NEW mac \in Macs,
               NEW owner \in Owners, NEW fixed_ips \in FixedIpLists \cup {Unset},
               CreatePort(ctx, p, n, t, mac, owner, fixed_ips)
        PROVE  Grows
    BY <2>8 DEF CreatePort
  <2>9. ASSUME NEW p \in PortIds, NEW owner \in Owners, NEW fixed_ips \in FixedIpLists \cup {Unset},
               UpdatePort(ctx, p, owner, fixed_ips)
        PROVE  Grows
    BY <2>9 DEF UpdatePort
  <2>10. ASSUME NEW p \in PortIds, DeletePort(ctx, p) PROVE Grows
    BY <2>10 DEF DeletePort
  <2> HIDE DEF Grows, Survive
  <2>11. QED BY <2>2, <2>3, <2>4, <2>5, <2>6, <2>7, <2>8, <2>9, <2>10 DEF NextFor
<1>2. IInv /\ RowsAgree /\ [Next]_vars => [Survive]_vars
  BY <1>1
<1>3. QED BY <1>2, Invariance, RowsInvariance, PTL DEF Spec, TenantPortsSurvive
============================================================================
