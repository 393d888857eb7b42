--------------------------- MODULE L3RouterProofs ---------------------------
(***************************************************************************)
(* Routers, their ports and floating IPs stay consistent, and the agents   *)
(* are told of every change: for all routers, subnets, CIDRs and requests. *)
(***************************************************************************)
EXTENDS L3Router, FiniteSetTheorems, TLAPS

L3Owners == {Intf, Gw, Fip}

(* What the calls rely on and no run states: a port of the plugin has an   *)
(* address, so that the API may not delete it; the ports of a router are   *)
(* its gateway and its interfaces, so that a guest's is not one of them;   *)
(* and the ports the plugin makes for gateways and floating IPs have no id *)
(* of a guest's, so that deleting them takes no floating IP's port away.   *)
PortsFormed ==
  \A p \in ports : /\ p.owner \in L3Owners => p.ips # {}
                   /\ p.device \in Routers => p.owner \in {Intf, Gw}
                   /\ p.owner \in {Gw, Fip} => p.id = None

(* The inductive invariant. *)
IInv == TypeOK /\ L3PortsOwned /\ PortsFormed /\ RouterSubnetsApart /\ FipsConnected

----------------------------------------------------------------------------
(* The invariant said of one port, one router and one floating IP at a     *)
(* time.                                                                   *)

Typed ==
  /\ external \subseteq Externals
  /\ DOMAIN routers \subseteq Routers
  /\ \A r \in DOMAIN routers : /\ DOMAIN routers[r] = {"gw", "routes"}
                               /\ routers[r] = [gw |-> routers[r].gw, routes |-> routers[r].routes]
                               /\ routers[r].routes \in RouteLists
  /\ ports \subseteq PortRow
  /\ DOMAIN fips \subseteq FipIds /\ \A f \in DOMAIN fips : fips[f] \in FipRow
  /\ last.ok \in BOOLEAN /\ last.told \subseteq Routers

Owned ==
  \A p \in ports : /\ p.owner \in {Intf, Gw} => p.device \in DOMAIN routers
                   /\ p.owner = Fip => p.device \in DOMAIN fips

OneGateway ==
  \A r \in DOMAIN routers :
    LET gw == routers[r].gw
    IN  /\ gw # None => gw \in ports /\ gw.device = r /\ gw.owner = Gw
        /\ \A p \in ports : p.device = r /\ p.owner = Gw => p = gw

HasAddress ==
  \A f \in DOMAIN fips : \E p \in ports : /\ p.device = f /\ p.owner = Fip
                                          /\ \E a \in p.ips : Text(a) = fips[f].ip

Apart(p, q) == \A a \in p.ips, b \in q.ips : CidrOf[a.subnet] # CidrOf[b.subnet]
AllApart ==
  \A r \in DOMAIN routers : \A p, q \in ports : p.device = r /\ q.device = r /\ p # q => Apart(p, q)

Reachable(fip) ==
  IF fip.port = None THEN fip.router = None /\ fip.fixed_ip = None
  ELSE /\ fip.router \in DOMAIN routers
       /\ \E p \in ports : p.id = fip.port
       /\ \E p \in ports : p.device = fip.router /\ p.owner = Gw /\ p.network = fip.net
       /\ \E p \in ports : /\ p.device = fip.router /\ p.owner = Intf
                           /\ \E a \in p.ips : CidrOf[a.subnet] = fip.fixed_ip[1]
AllReachable == \A f \in DOMAIN fips : Reachable(fips[f])

LEMMA NoneIsNoPort == \A p \in PortRow : p # None
BY IdsAssumption

LEMMA Elementwise ==
  /\ IInv <=> Typed /\ Owned /\ OneGateway /\ HasAddress /\ PortsFormed /\ AllApart /\ AllReachable
  /\ IInv' <=> Typed' /\ Owned' /\ OneGateway' /\ HasAddress' /\ PortsFormed' /\ AllApart' /\ AllReachable'
<1>1. ASSUME IInv
      PROVE  Typed /\ Owned /\ OneGateway /\ HasAddress /\ PortsFormed /\ AllApart /\ AllReachable
  <2> USE <1>1 DEF IInv
  <2>1. Typed
    BY DEF Typed, TypeOK
  <2>2. Owned
    BY DEF L3PortsOwned, Owned
  <2>3. OneGateway
    BY DEF L3PortsOwned, OneGateway, PortsOf
  <2>4. HasAddress
    BY DEF L3PortsOwned, HasAddress, PortsOf
  <2>5. AllApart
    <3>1. \A p \in ports : SubnetsOf(p) = {a.subnet : a \in p.ips}
      BY DEF SubnetsOf
    <3>2. QED BY <3>1 DEF RouterSubnetsApart, RouterPorts, AllApart, Apart
  <2>6. AllReachable
    BY DEF FipsConnected, AllReachable, Reachable, PortsOf, Connected, Text
  <2>7. QED BY <2>1, <2>2, <2>3, <2>4, <2>5, <2>6
<1>2. ASSUME Typed, Owned, OneGateway, HasAddress, PortsFormed, AllApart, AllReachable
      PROVE  IInv
  <2> USE <1>2
  <2>1. L3PortsOwned
    <3>1. \A r \in DOMAIN routers : PortsOf(r, Gw) = {routers[r].gw} \ {None}
      BY NoneIsNoPort DEF OneGateway, PortsOf, Typed
    <3>2. QED BY <3>1 DEF Owned, HasAddress, L3PortsOwned, PortsOf
  <2>2. TypeOK
    BY DEF Typed, TypeOK, OneGateway
  <2>3. RouterSubnetsApart
    BY DEF RouterSubnetsApart, RouterPorts, SubnetsOf, AllApart, Apart
  <2>4. FipsConnected
    <3> SUFFICES ASSUME NEW f \in DOMAIN fips, fips[f].port # None
                 PROVE  \E p \in PortsOf(fips[f].router, Intf) : Connected({p}, fips[f].fixed_ip)
      BY DEF FipsConnected, AllReachable, Reachable, PortsOf
    <3>1. PICK p \in ports : /\ p.device = fips[f].router /\ p.owner = Intf
                             /\ \E a \in p.ips : CidrOf[a.subnet] = fips[f].fixed_ip[1]
      BY DEF AllReachable, Reachable
    <3>2. p \in PortsOf(fips[f].router, Intf)
      BY <3>1 DEF PortsOf
    <3>3. Connected({p}, fips[f].fixed_ip)
      BY <3>1 DEF Connected, Text
    <3>4. QED BY <3>2, <3>3
  <2>5. QED BY <2>1, <2>2, <2>3, <2>4 DEF IInv
<1>3. IInv <=> Typed /\ Owned /\ OneGateway /\ HasAddress /\ PortsFormed /\ AllApart /\ AllReachable
  BY <1>1, <1>2
<1>4. QED BY <1>3, PTL

----------------------------------------------------------------------------
(* Lemmas about the data. *)

LEMMA RowFacts ==
  /\ \A p \in PortRow : /\ p.id \in PortIds \cup {None} /\ p.owner \in {Intf, Gw, Fip, Vm, "none"}
                        /\ p.device \in Routers \cup FipIds \cup {Vm, None}
                        /\ p.network \in Networks /\ p.ips \subseteq Address
                        /\ p = [id |-> p.id, owner |-> p.owner, device |-> p.device,
                                network |-> p.network, ips |-> p.ips]
  /\ \A fip \in FipRow : /\ fip.net \in Networks /\ fip.ip \in Texts /\ fip.port \in PortIds \cup {None}
                         /\ fip.fixed_ip \in Texts \cup {None} /\ fip.router \in Routers \cup {None}
BY DEF PortRow, FipRow

LEMMA Names ==
  /\ Intf # Gw /\ Intf # Fip /\ Gw # Fip /\ Vm \notin L3Owners /\ "none" \notin L3Owners
  /\ None \notin Routers /\ Vm \notin Routers /\ Routers \cap FipIds = {}
  /\ None \notin FipIds /\ None \notin PortIds
BY IdsAssumption DEF Intf, Gw, Fip, Vm, L3Owners

LEMMA AnswerFacts ==
  ASSUME NEW told \in SUBSET (Routers \cup {None}), Answer(told)
  PROVE  last'.ok \in BOOLEAN /\ last'.told \subseteq Routers /\ last'.ok /\ last'.told = told \ {None}
BY DEF Answer

Unassociated(fip) == fip.port = None /\ fip.router = None /\ fip.fixed_ip = None

(* The floating IP of a port that goes loses its association, no other     *)
(* changes.                                                                *)
LEMMA DisassociatedFacts ==
  ASSUME Typed, NEW id, fips' = Disassociated(id)
  PROVE  /\ DOMAIN fips' = DOMAIN fips
         /\ \A f \in DOMAIN fips :
              /\ fips'[f] \in FipRow /\ fips'[f].ip = fips[f].ip
              /\ IF f \in Associated(id) THEN Unassociated(fips'[f])
                 ELSE fips'[f] = fips[f] /\ (id # None => fips[f].port # id)
<1>1. DOMAIN fips' = DOMAIN fips
  BY DEF Disassociated
<1> SUFFICES ASSUME NEW f \in DOMAIN fips
             PROVE  /\ fips'[f] \in FipRow /\ fips'[f].ip = fips[f].ip
                    /\ IF f \in Associated(id) THEN Unassociated(fips'[f])
                       ELSE fips'[f] = fips[f] /\ (id # None => fips[f].port # id)
  BY <1>1
<1>2. fips[f] \in FipRow
  BY DEF Typed
<1>3. CASE f \in Associated(id)
  <2>1. fips'[f] = [fips[f] EXCEPT !.port = None, !.fixed_ip = None, !.router = None]
    BY <1>3 DEF Disassociated
  <2>2. QED BY <1>2, <1>3, <2>1 DEF FipRow, Unassociated
<1>4. CASE f \notin Associated(id)
  BY <1>2, <1>4 DEF Disassociated, Associated
<1>5. QED BY <1>3, <1>4

----------------------------------------------------------------------------
(* Calls on ports of guests. *)

(* Whatever becomes of them, if the floating IPs of ports that go lose     *)
(* them.                                                                   *)
LEMMA GuestPorts ==
  ASSUME IInv, UNCHANGED <<external, routers>>, last'.ok \in BOOLEAN, last'.told \subseteq Routers,
         ports' \subseteq PortRow,
         \A p \in ports : p \notin ports' => p.owner \notin L3Owners,
         \A p \in ports' : p \notin ports => p.owner \notin L3Owners /\ p.device \notin Routers,
         DOMAIN fips' = DOMAIN fips,
         \A f \in DOMAIN fips : /\ fips'[f] \in FipRow /\ fips'[f].ip = fips[f].ip
                                /\ \/ Unassociated(fips'[f])
                                   \/ /\ fips'[f] = fips[f]
                                      /\ fips[f].port # None => \E p \in ports' : p.id = fips[f].port
  PROVE  IInv'
<1> USE Elementwise DEF L3Owners
<1>1. Typed'
  BY DEF Typed
<1>2. Owned'
  BY DEF Owned
<1>3. OneGateway'
  BY DEF OneGateway
<1>4. HasAddress'
  BY DEF HasAddress
<1>5. PortsFormed'
  BY DEF PortsFormed
<1>6. AllApart'
  <2> SUFFICES ASSUME NEW r \in DOMAIN routers, NEW p \in ports', NEW q \in ports',
                      p.device = r, q.device = r, p # q
               PROVE  Apart(p, q)
    BY DEF AllApart, Apart
  <2>1. p \in ports /\ q \in ports
    BY DEF Typed
  <2>2. QED BY <2>1 DEF AllApart
<1>7. AllReachable'
  <2> SUFFICES ASSUME NEW f \in DOMAIN fips, fips'[f] = fips[f], fips[f].port # None,
                      \E p \in ports' : p.id = fips[f].port
               PROVE  Reachable(fips[f])'
    BY DEF AllReachable, Reachable, Unassociated
  <2>1. Reachable(fips[f])
    BY DEF AllReachable
  <2>2. QED BY <2>1 DEF Reachable
<1>8. QED BY <1>1, <1>2, <1>3, <1>4, <1>5, <1>6, <1>7

LEMMA CreatePortStep ==
  ASSUME IInv, NEW id \in PortIds, NEW n \in Networks, NEW device \in {Vm, "none"}, NEW ips \in IpLists,
         CreatePort(id, n, device, ips)
  PROVE  IInv'
<1> DEFINE p == [id |-> id, owner |-> device, device |-> IF device = Vm THEN Vm ELSE None,
                 network |-> n, ips |-> ips]
<1>1. /\ ports' = ports \cup {p} /\ Answer({})
      /\ UNCHANGED <<external, routers, fips>>
  BY DEF CreatePort
<1>2. p \in PortRow /\ p.owner \notin L3Owners /\ p.device \notin Routers
  BY Names, TopologyAssumption DEF PortRow, Address
<1> HIDE DEF p
<1>3. last'.ok \in BOOLEAN /\ last'.told \subseteq Routers
  BY <1>1, AnswerFacts
<1>4. Typed /\ AllReachable
  BY Elementwise
<1>5. \A f \in DOMAIN fips : fips[f].port # None => \E q \in ports' : q.id = fips[f].port
  BY <1>1, <1>4 DEF AllReachable, Reachable
<1>6. QED BY <1>1, <1>2, <1>3, <1>4, <1>5, GuestPorts DEF Typed

LEMMA UpdatePortStep ==
  ASSUME IInv, NEW p \in ports, NEW ips \in IpLists, UpdatePort(p, ips)
  PROVE  IInv'
<1> DEFINE q == [p EXCEPT !.ips = ips]
<1>1. /\ ports' = (ports \ {p}) \cup {q} /\ Answer({})
      /\ p.owner \in {Vm, "none"}
      /\ UNCHANGED <<external, routers, fips>>
  BY DEF UpdatePort
<1>2. Typed /\ AllReachable /\ PortsFormed
  BY Elementwise
<1>3. p \in PortRow
  BY <1>2 DEF Typed
<1>4. /\ q \in PortRow /\ q.owner \notin L3Owners /\ q.device \notin Routers /\ q.id = p.id
      /\ p.owner \notin L3Owners
  <2>1. q = [id |-> p.id, owner |-> p.owner, device |-> p.device, network |-> p.network, ips |-> ips]
    BY <1>3, RowFacts
  <2>2. q \in PortRow
    BY <1>3, <2>1, RowFacts, TopologyAssumption DEF PortRow, Address
  <2>3. p.device \notin Routers
    BY <1>1, <1>2, Names DEF PortsFormed, L3Owners
  <2>4. QED BY <1>1, <2>1, <2>2, <2>3, Names
<1> HIDE DEF q
<1>5. last'.ok \in BOOLEAN /\ last'.told \subseteq Routers
  BY <1>1, AnswerFacts
<1>6. \A f \in DOMAIN fips : fips[f].port # None => \E x \in ports' : x.id = fips[f].port
  BY <1>1, <1>2, <1>4 DEF AllReachable, Reachable
<1>7. QED BY <1>1, <1>2, <1>4, <1>5, <1>6, GuestPorts DEF Typed

LEMMA DeletePortStep ==
  ASSUME IInv, NEW p \in ports, DeletePort(p)
  PROVE  IInv'
<1>1. /\ p.owner \in L3Owners => p.ips = {}
      /\ ports' = ports \ {p} /\ fips' = Disassociated(p.id)
      /\ Answer({fips[f].router : f \in Associated(p.id)})
      /\ UNCHANGED <<external, routers>>
  BY DEF DeletePort, L3Owners
<1>2. Typed /\ AllReachable /\ PortsFormed
  BY Elementwise
<1>3. p.owner \notin L3Owners
  BY <1>1, <1>2 DEF PortsFormed
<1>4. last'.ok \in BOOLEAN /\ last'.told \subseteq Routers
  <2>1. \A f \in Associated(p.id) : fips[f].router \in Routers \cup {None}
    BY <1>2, RowFacts DEF Typed, Associated
  <2>2. QED BY <1>1, <2>1, AnswerFacts
<1>5. /\ DOMAIN fips' = DOMAIN fips
      /\ \A f \in DOMAIN fips :
           /\ fips'[f] \in FipRow /\ fips'[f].ip = fips[f].ip
           /\ IF f \in Associated(p.id) THEN Unassociated(fips'[f])
              ELSE fips'[f] = fips[f] /\ (p.id # None => fips[f].port # p.id)
  BY <1>1, <1>2, DisassociatedFacts
<1>6. \A f \in DOMAIN fips : f \notin Associated(p.id) /\ fips[f].port # None
                             => \E x \in ports' : x.id = fips[f].port
  BY <1>1, <1>2, <1>5 DEF AllReachable, Reachable
<1>7. ports' \subseteq PortRow
  BY <1>1, <1>2 DEF Typed
<1>8. QED BY <1>1, <1>3, <1>4, <1>5, <1>6, <1>7, GuestPorts

----------------------------------------------------------------------------
(* Calls on routers. *)

(* The gateway port a router has. *)
LEMMA OldGatewayFacts ==
  ASSUME IInv, NEW r \in Routers
  PROVE  /\ OldGateway(r) # None =>
              /\ OldGateway(r) \in ports /\ OldGateway(r).device = r /\ OldGateway(r).owner = Gw
              /\ r \in DOMAIN routers
         /\ \A p \in ports : p.device = r /\ p.owner = Gw => p = OldGateway(r)
BY Elementwise DEF OldGateway, OneGateway, Owned

(* The gateway ports _update_router_gw_info may leave it with: the one it  *)
(* has, or, when no floating IP needs that one, none or a new one.         *)
NewGateway(r, gw) ==
  /\ gw # None => /\ gw \in PortRow /\ gw.id = None /\ gw.owner = Gw /\ gw.device = r /\ gw.ips # {}
                  /\ \A p \in ports : p.device = r /\ p.owner # Gw => Apart(gw, p) /\ Apart(p, gw)
  /\ OldGateway(r) # None => \A f \in DOMAIN fips : fips[f].router # r

LEMMA GeneratedFacts ==
  ASSUME NEW n \in Networks, NEW ips \in Generated(n) \ {{}}
  PROVE  \E a \in Address : ips = {a} /\ NetworkOf[a.subnet] = n
<1>1. CASE {s \in Subnets : NetworkOf[s] = n} = {}
  BY <1>1 DEF Generated
<1>2. CASE {s \in Subnets : NetworkOf[s] = n} # {}
  BY <1>2 DEF Generated
<1>3. QED BY <1>1, <1>2

LEMMA GatewaysFacts ==
  ASSUME IInv, NEW r \in Routers, NEW n \in Networks \cup {None}, NEW gw \in Gateways(r, n)
  PROVE  gw = OldGateway(r) \/ NewGateway(r, gw)
<1> DEFINE old == OldGateway(r)
<1>1. CASE gw \in {old}
  BY <1>1
<1>2. CASE gw # old
  <2>1. old # None => \A f \in DOMAIN fips : fips[f].router # r
    BY <1>2 DEF Gateways
  <2>2. CASE gw = None
    BY <2>1, <2>2 DEF NewGateway
  <2>3. CASE gw # None
    <3>1. n # None
      BY <1>2, <2>3 DEF Gateways
    <3>2. n \in Networks
      BY <3>1
    <3>3. /\ \A s \in Subnets : NetworkOf[s] = n => NoDup(s, RouterPorts(r) \ {old})
          /\ \E ips \in Generated(n) \ {{}} : gw = L3Port(Gw, r, n, ips)
      BY <1>2, <2>3 DEF Gateways
    <3>4. PICK ips \in Generated(n) \ {{}} : gw = L3Port(Gw, r, n, ips)
      BY <3>3
    <3>5. PICK a \in Address : ips = {a} /\ NetworkOf[a.subnet] = n
      BY <3>2, <3>4, GeneratedFacts
    <3>6. gw = [id |-> None, owner |-> Gw, device |-> r, network |-> n, ips |-> {a}]
      BY <3>4, <3>5 DEF L3Port
    <3>7. gw \in PortRow /\ gw.id = None /\ gw.owner = Gw /\ gw.device = r /\ gw.ips = {a}
      BY <3>2, <3>6 DEF PortRow
    <3>8. \A p \in ports : p.device = r /\ p.owner # Gw => Apart(gw, p) /\ Apart(p, gw)
      <4> SUFFICES ASSUME NEW p \in ports, p.device = r, p.owner # Gw
                   PROVE  Apart(gw, p) /\ Apart(p, gw)
        OBVIOUS
      <4>1. p \in RouterPorts(r) \ {old}
        <5>1. p # None
          BY Elementwise, NoneIsNoPort DEF Typed
        <5>2. QED BY <5>1, OldGatewayFacts DEF RouterPorts
      <4>2. a.subnet \in Subnets
        BY DEF Address
      <4>3. \A t \in SubnetsOf(p) : CidrOf[t] # CidrOf[a.subnet]
        BY <3>3, <3>5, <4>1, <4>2 DEF NoDup
      <4>4. \A b \in p.ips : CidrOf[b.subnet] # CidrOf[a.subnet]
        BY <4>3 DEF SubnetsOf
      <4>5. QED BY <3>7, <4>4 DEF Apart
    <3>9. QED BY <2>1, <3>7, <3>8 DEF NewGateway
  <2>4. QED BY <2>2, <2>3
<1>3. QED BY <1>1, <1>2

(* A router of these routes gets, keeps or loses its gateway. *)
LEMMA SetGatewayStep ==
  ASSUME IInv, NEW r \in Routers, NEW gw, NEW routes \in RouteLists,
         gw = OldGateway(r) \/ NewGateway(r, gw), SetGateway(r, gw, routes),
         UNCHANGED <<external, fips>>, last'.ok \in BOOLEAN, last'.told \subseteq Routers
  PROVE  IInv'
<1> DEFINE old == OldGateway(r)
<1>0. Typed /\ Owned /\ OneGateway /\ HasAddress /\ PortsFormed /\ AllApart /\ AllReachable
  BY Elementwise
<1> USE <1>0
<1>1. /\ DOMAIN routers' = DOMAIN routers \cup {r}
      /\ routers'[r] = [gw |-> gw, routes |-> routes]
      /\ routers'[r].gw = gw /\ routers'[r].routes = routes
      /\ \A x \in DOMAIN routers : x # r => routers'[x] = routers[x]
  BY DEF SetGateway, Put
<1>2. \A p : p \in ports' <=> \/ p \in ports /\ ~(p.device = r /\ p.owner = Gw)
                              \/ p = gw /\ gw # None
  BY DEF SetGateway, PortsOf
<1>3. gw # None => gw \in PortRow /\ gw.owner = Gw /\ gw.device = r /\ gw.ips # {} /\ gw.id = None
  <2>1. CASE gw = old
    BY <2>1, OldGatewayFacts DEF Typed, PortsFormed, L3Owners
  <2>2. CASE NewGateway(r, gw)
    BY <2>2 DEF NewGateway
  <2>3. QED BY <2>1, <2>2
<1>4. \A p \in ports' : p \in ports \/ (p = gw /\ gw # None)
  BY <1>2
<1>5. \A p \in ports : p.owner # Gw => p \in ports'
  BY <1>2
<1>6. Typed'
  <2>1. ports' \subseteq PortRow
    BY <1>3, <1>4 DEF Typed
  <2>2. \A x \in DOMAIN routers' :
          /\ x \in Routers /\ routers'[x].routes \in RouteLists
          /\ DOMAIN routers'[x] = {"gw", "routes"}
          /\ routers'[x] = [gw |-> routers'[x].gw, routes |-> routers'[x].routes]
    BY <1>1 DEF Typed
  <2>3. QED BY <2>1, <2>2 DEF Typed
<1>7. Owned'
  BY <1>1, <1>3, <1>4, Names DEF Owned
<1>8. OneGateway'
  <2>1. \A x \in DOMAIN routers : x # r /\ routers[x].gw # None => routers[x].gw \in ports'
    BY <1>2 DEF OneGateway
  <2>2. \A p \in ports' : p.device = r /\ p.owner = Gw => p = gw
    BY <1>2
  <2>3. gw # None => gw \in ports' /\ gw.device = r /\ gw.owner = Gw
    BY <1>2, <1>3
  <2>4. \A x \in DOMAIN routers : x # r => \A p \in ports' : p.device = x /\ p.owner = Gw => p = routers[x].gw
    BY <1>3, <1>4 DEF OneGateway
  <2>5. QED BY <1>1, <2>1, <2>2, <2>3, <2>4 DEF OneGateway
<1>9. HasAddress'
  <2> SUFFICES ASSUME NEW f \in DOMAIN fips
               PROVE  \E p \in ports' : p.device = f /\ p.owner = Fip /\ \E a \in p.ips : Text(a) = fips[f].ip
    BY DEF HasAddress
  <2>1. PICK p \in ports : p.device = f /\ p.owner = Fip /\ \E a \in p.ips : Text(a) = fips[f].ip
    BY DEF HasAddress
  <2>2. p \in ports'
    BY <1>5, <2>1, Names
  <2>3. QED BY <2>1, <2>2
<1>10. PortsFormed'
  BY <1>3, <1>4, Names DEF PortsFormed, L3Owners
<1>11. AllApart'
  <2> SUFFICES ASSUME NEW x \in DOMAIN routers', NEW p \in ports', NEW q \in ports',
                      p.device = x, q.device = x, p # q
               PROVE  Apart(p, q)
    BY DEF AllApart, Apart
  <2>1. \A y \in ports : y.device = x => x \in DOMAIN routers
    BY <1>1 DEF PortsFormed, Owned
  <2>2. CASE p \in ports /\ q \in ports
    BY <2>1, <2>2 DEF AllApart
  <2>3. CASE p = gw /\ gw # None /\ q \in ports /\ q.owner # Gw
    <3>1. CASE gw = old
      BY <2>1, <2>3, <3>1, OldGatewayFacts DEF AllApart
    <3>2. CASE NewGateway(r, gw)
      BY <2>3, <3>2 DEF NewGateway
    <3>3. QED BY <3>1, <3>2
  <2>4. CASE q = gw /\ gw # None /\ p \in ports /\ p.owner # Gw
    <3>1. CASE gw = old
      BY <2>1, <2>4, <3>1, OldGatewayFacts DEF AllApart
    <3>2. CASE NewGateway(r, gw)
      BY <2>4, <3>2 DEF NewGateway
    <3>3. QED BY <3>1, <3>2
  <2>5. QED BY <1>2, <1>3, <2>2, <2>3, <2>4
<1>12. AllReachable'
  <2> SUFFICES ASSUME NEW f \in DOMAIN fips
               PROVE  Reachable(fips[f])'
    BY DEF AllReachable
  <2>1. Reachable(fips[f])
    BY DEF AllReachable
  <2>2. CASE fips[f].port = None
    BY <2>1, <2>2 DEF Reachable
  <2>3. CASE fips[f].port # None
    <3>1. fips[f].router \in DOMAIN routers'
      BY <1>1, <2>1, <2>3 DEF Reachable
    <3>2. PICK p \in ports : p.id = fips[f].port
      BY <2>1, <2>3 DEF Reachable
    <3>3. p \in ports'
      BY <1>5, <2>3, <3>2 DEF PortsFormed
    <3>4. PICK g \in ports : g.device = fips[f].router /\ g.owner = Gw /\ g.network = fips[f].net
      BY <2>1, <2>3 DEF Reachable
    <3>5. g \in ports'
      <4>1. CASE fips[f].router # r
        BY <1>2, <3>4, <4>1
      <4>2. CASE fips[f].router = r
        <5>1. g = old /\ old # None
          BY <3>4, <4>2, OldGatewayFacts, NoneIsNoPort DEF Typed
        <5>2. gw = old
          BY <4>2, <5>1 DEF NewGateway
        <5>3. QED BY <1>2, <5>1, <5>2
      <4>3. QED BY <4>1, <4>2
    <3>6. PICK i \in ports : /\ i.device = fips[f].router /\ i.owner = Intf
                             /\ \E a \in i.ips : CidrOf[a.subnet] = fips[f].fixed_ip[1]
      BY <2>1, <2>3 DEF Reachable
    <3>7. i \in ports'
      BY <1>5, <3>6, Names
    <3>8. QED BY <2>3, <3>1, <3>2, <3>3, <3>4, <3>5, <3>6, <3>7 DEF Reachable
  <2>4. QED BY <2>2, <2>3
<1>13. QED BY <1>6, <1>7, <1>8, <1>9, <1>10, <1>11, <1>12, Elementwise

LEMMA CreateRouterStep ==
  ASSUME IInv, NEW r \in Routers, NEW n \in Networks \cup {None}, CreateRouter(r, n)
  PROVE  IInv'
<1>1. PICK gw \in Gateways(r, n) : SetGateway(r, gw, {})
  BY DEF CreateRouter
<1>2. /\ Answer({}) /\ UNCHANGED <<external, fips>>
  BY DEF CreateRouter
<1>3. last'.ok \in BOOLEAN /\ last'.told \subseteq Routers
  BY <1>2, AnswerFacts
<1>4. QED BY <1>1, <1>2, <1>3, GatewaysFacts, SetGatewayStep, TopologyAssumption

(* The gateway of an accepted update. *)
LEMMA UpdatedGateway ==
  ASSUME IInv, NEW r \in DOMAIN routers, NEW n \in Networks \cup {None, Unset},
         NEW gw \in (IF n = Unset THEN {routers[r].gw} ELSE Gateways(r, n))
  PROVE  gw = OldGateway(r) \/ NewGateway(r, gw)
<1>1. r \in Routers
  BY Elementwise DEF Typed
<1>2. QED BY <1>1, GatewaysFacts DEF OldGateway

LEMMA UpdateRouterStep ==
  ASSUME IInv, NEW r \in Routers, NEW routes \in RouteLists \cup {Unset},
         NEW n \in Networks \cup {None, Unset}, UpdateRouter(r, routes, n)
  PROVE  IInv'
<1> DEFINE new == IF routes = Unset THEN routers[r].routes ELSE routes
           gateways == IF n = Unset THEN {routers[r].gw} ELSE Gateways(r, n)
<1>0. Typed /\ Owned /\ OneGateway /\ HasAddress /\ PortsFormed /\ AllApart /\ AllReachable
  BY Elementwise
<1>1. r \in DOMAIN routers /\ UNCHANGED <<external, fips>> /\ new \in RouteLists
  BY <1>0 DEF UpdateRouter, Typed
<1>2. \/ /\ \E gw \in gateways : SetGateway(r, gw, new)
         /\ Answer({r})
      \/ /\ routers' = [routers EXCEPT ![r].routes = new]
         /\ last' = [ok |-> FALSE, told |-> {}]
         /\ UNCHANGED ports
  BY DEF UpdateRouter
<1> HIDE DEF new
<1>3. CASE (\E gw \in gateways : SetGateway(r, gw, new)) /\ Answer({r})
  <2>1. PICK gw \in gateways : SetGateway(r, gw, new)
    BY <1>3
  <2>2. last'.ok \in BOOLEAN /\ last'.told \subseteq Routers
    BY <1>3, AnswerFacts
  <2>3. gw = OldGateway(r) \/ NewGateway(r, gw)
    BY <1>1, <2>1, UpdatedGateway
  <2>4. QED BY <1>1, <2>1, <2>2, <2>3, SetGatewayStep
<1>4. CASE /\ routers' = [routers EXCEPT ![r].routes = new]
           /\ last' = [ok |-> FALSE, told |-> {}]
           /\ UNCHANGED ports
  <2>1. /\ DOMAIN routers' = DOMAIN routers
        /\ routers'[r] = [gw |-> routers[r].gw, routes |-> new]
        /\ \A x \in DOMAIN routers : x # r => routers'[x] = routers[x]
    BY <1>0, <1>1, <1>4 DEF Typed
  <2>2. \A x \in DOMAIN routers : /\ routers'[x].gw = routers[x].gw /\ routers'[x].routes \in RouteLists
                                   /\ DOMAIN routers'[x] = {"gw", "routes"}
                                   /\ routers'[x] = [gw |-> routers'[x].gw, routes |-> routers'[x].routes]
    BY <1>0, <1>1, <2>1 DEF Typed
  <2>3. Typed'
    BY <1>0, <1>1, <1>4, <2>1, <2>2 DEF Typed
  <2>4. Owned' /\ HasAddress' /\ PortsFormed' /\ AllApart'
    BY <1>0, <1>1, <1>4, <2>1 DEF Owned, HasAddress, PortsFormed, AllApart, Apart
  <2>5. OneGateway'
    BY <1>0, <1>4, <2>1, <2>2 DEF OneGateway
  <2>6. AllReachable'
    BY <1>0, <1>1, <1>4, <2>1 DEF AllReachable, Reachable
  <2>7. QED BY <2>3, <2>4, <2>5, <2>6, Elementwise
<1>5. QED BY <1>2, <1>3, <1>4

LEMMA DeleteRouterStep ==
  ASSUME IInv, NEW r \in Routers, DeleteRouter(r)
  PROVE  IInv'
<1>0. Typed /\ Owned /\ OneGateway /\ HasAddress /\ PortsFormed /\ AllApart /\ AllReachable
  BY Elementwise
<1>1. /\ \A f \in DOMAIN fips : fips[f].router # r
      /\ \A p \in ports : ~(p.device = r /\ p.owner = Intf)
      /\ routers' = Drop(routers, r) /\ Answer({r})
      /\ UNCHANGED <<external, fips>>
  BY DEF DeleteRouter, PortsOf
<1>2. \A p : p \in ports' <=> p \in ports /\ ~(p.device = r /\ p.owner = Gw)
  BY DEF DeleteRouter, PortsOf
<1>3. /\ DOMAIN routers' = DOMAIN routers \ {r}
      /\ \A x \in DOMAIN routers' : routers'[x] = routers[x]
  BY <1>1 DEF Drop, Restrict
<1>4. last'.ok \in BOOLEAN /\ last'.told \subseteq Routers
  BY <1>1, AnswerFacts
<1>5. \A p \in ports' : p.device # r
  BY <1>0, <1>1, <1>2 DEF PortsFormed
<1>6. Typed'
  BY <1>0, <1>1, <1>2, <1>3, <1>4 DEF Typed
<1>7. Owned'
  BY <1>0, <1>1, <1>2, <1>3, <1>5 DEF Owned
<1>8. OneGateway'
  BY <1>0, <1>2, <1>3 DEF OneGateway
<1>9. HasAddress'
  BY <1>0, <1>1, <1>2, Names DEF HasAddress
<1>10. PortsFormed'
  BY <1>0, <1>2 DEF PortsFormed
<1>11. AllApart'
  BY <1>0, <1>2, <1>3 DEF AllApart, Apart
<1>12. AllReachable'
  <2> SUFFICES ASSUME NEW f \in DOMAIN fips
               PROVE  Reachable(fips[f])'
    BY <1>1 DEF AllReachable
  <2>1. Reachable(fips[f])
    BY <1>0 DEF AllReachable
  <2>2. \A p \in ports : p.owner # Gw \/ p.device = fips[f].router => p \in ports'
    BY <1>1, <1>2
  <2>3. \A p \in ports : fips[f].port # None /\ p.id = fips[f].port => p \in ports'
    BY <1>0, <2>2 DEF PortsFormed
  <2>4. QED BY <1>1, <1>3, <2>1, <2>2, <2>3, Names DEF Reachable
<1>13. QED BY <1>6, <1>7, <1>8, <1>9, <1>10, <1>11, <1>12, Elementwise

----------------------------------------------------------------------------
(* Calls on interfaces. *)

(* A port q that is apart from the ports of router r becomes an interface  *)
(* of it, in the place of a guest's port of the same id or of none.        *)
LEMMA InterfaceAdded ==
  ASSUME IInv, NEW r \in DOMAIN routers, NEW q \in PortRow,
         q.owner = Intf, q.device = r, q.ips # {},
         \A p \in ports : p.device = r => Apart(p, q) /\ Apart(q, p),
         q \in ports', \A p \in ports' : p \in ports \/ p = q,
         \A p \in ports : p \notin ports' => p.owner \notin L3Owners /\ p.id = q.id,
         UNCHANGED <<external, routers, fips>>, last'.ok \in BOOLEAN, last'.told \subseteq Routers
  PROVE  IInv'
<1>0. Typed /\ Owned /\ OneGateway /\ HasAddress /\ PortsFormed /\ AllApart /\ AllReachable
  BY Elementwise
<1> USE <1>0
<1>1. Typed'
  BY DEF Typed
<1>2. Owned'
  BY Names DEF Owned
<1>3. OneGateway'
  BY Names DEF OneGateway, L3Owners
<1>4. HasAddress'
  BY DEF HasAddress, L3Owners
<1>5. PortsFormed'
  BY Names DEF PortsFormed
<1>6. AllApart'
  <2> SUFFICES ASSUME NEW x \in DOMAIN routers, NEW p1 \in ports', NEW p2 \in ports',
                      p1.device = x, p2.device = x, p1 # p2
               PROVE  Apart(p1, p2)
    BY DEF AllApart, Apart
  <2>1. CASE p1 \in ports /\ p2 \in ports
    BY <2>1 DEF AllApart
  <2>2. QED BY <2>1
<1>7. AllReachable'
  <2> SUFFICES ASSUME NEW f \in DOMAIN fips
               PROVE  Reachable(fips[f])'
    BY DEF AllReachable
  <2>1. Reachable(fips[f])
    BY DEF AllReachable
  <2>2. QED BY <2>1, Names DEF Reachable, L3Owners
<1>8. QED BY <1>1, <1>2, <1>3, <1>4, <1>5, <1>6, <1>7, Elementwise

(* What _check_for_dup_router_subnet establishes. *)
LEMMA NoDupFacts ==
  ASSUME NEW r, NEW s, NoDup(s, RouterPorts(r)), NEW q, \A b \in q.ips : b.subnet = s
  PROVE  \A p \in ports : p.device = r => Apart(p, q) /\ Apart(q, p)
<1> SUFFICES ASSUME NEW p \in ports, p.device = r
             PROVE  Apart(p, q) /\ Apart(q, p)
  OBVIOUS
<1>1. \A t \in SubnetsOf(p) : CidrOf[t] # CidrOf[s]
  BY DEF NoDup, RouterPorts
<1>2. \A a \in p.ips : CidrOf[a.subnet] # CidrOf[s]
  BY <1>1 DEF SubnetsOf
<1>3. QED BY <1>2 DEF Apart

LEMMA AddInterfaceBySubnetStep ==
  ASSUME IInv, NEW r \in Routers, NEW s \in Subnets, AddInterfaceBySubnet(r, s)
  PROVE  IInv'
<1> DEFINE ip == [subnet |-> s, host |-> GatewayHost]
           q == L3Port(Intf, r, NetworkOf[s], {ip})
<1>1. /\ r \in DOMAIN routers /\ NoDup(s, RouterPorts(r))
      /\ ports' = ports \cup {q} /\ Answer({r})
      /\ UNCHANGED <<external, routers, fips>>
  BY DEF AddInterfaceBySubnet
<1>2. /\ q \in PortRow /\ q.owner = Intf /\ q.device = r /\ q.ips # {}
      /\ \A b \in q.ips : b.subnet = s
  <2>1. q = [id |-> None, owner |-> Intf, device |-> r, network |-> NetworkOf[s], ips |-> {ip}]
    BY DEF L3Port
  <2>2. ip \in Address /\ ip.subnet = s /\ NetworkOf[s] \in Networks
    BY TopologyAssumption DEF Address
  <2> HIDE DEF q, ip
  <2>3. q \in PortRow
    BY <2>1, <2>2 DEF PortRow
  <2>4. QED BY <2>1, <2>2, <2>3
<1> HIDE DEF q
<1>3. last'.ok \in BOOLEAN /\ last'.told \subseteq Routers
  BY <1>1, AnswerFacts
<1>4. \A p \in ports : p.device = r => Apart(p, q) /\ Apart(q, p)
  BY <1>1, <1>2, NoDupFacts
<1>5. QED BY <1>1, <1>2, <1>3, <1>4, InterfaceAdded

LEMMA AddInterfaceByPortStep ==
  ASSUME IInv, NEW r \in Routers, NEW p \in ports, AddInterfaceByPort(r, p)
  PROVE  IInv'
<1> DEFINE q == [p EXCEPT !.device = r, !.owner = Intf]
<1>0. Typed /\ Owned
  BY Elementwise
<1>1. /\ r \in DOMAIN routers /\ p.device = None /\ Cardinality(p.ips) = 1
      /\ \A s \in SubnetsOf(p) : NoDup(s, RouterPorts(r))
      /\ ports' = (ports \ {p}) \cup {q} /\ Answer({r})
      /\ UNCHANGED <<external, routers, fips>>
  BY DEF AddInterfaceByPort
<1>2. p \in PortRow
  BY <1>0 DEF Typed
<1>3. DOMAIN p = {"id", "owner", "device", "network", "ips"}
  BY <1>2 DEF PortRow
<1>4. /\ q \in PortRow /\ q.owner = Intf /\ q.device = r /\ q.ips = p.ips /\ q.id = p.id
  BY <1>2, <1>3 DEF PortRow
<1> HIDE DEF q
<1>5. last'.ok \in BOOLEAN /\ last'.told \subseteq Routers
  BY <1>1, AnswerFacts
<1>6. p.ips # {}
  BY <1>1, FS_EmptySet
<1>7. \A x \in ports : x.device = r => Apart(x, q) /\ Apart(q, x)
  <2> SUFFICES ASSUME NEW x \in ports, x.device = r
               PROVE  Apart(x, q) /\ Apart(q, x)
    OBVIOUS
  <2>1. \A b \in p.ips, a \in x.ips : CidrOf[a.subnet] # CidrOf[b.subnet]
    BY <1>1 DEF NoDup, RouterPorts, SubnetsOf
  <2>2. QED BY <1>4, <2>1 DEF Apart
<1>8. p.owner \notin L3Owners
  BY <1>0, <1>1, Names DEF Owned, L3Owners, Typed
<1>9. QED BY <1>1, <1>4, <1>5, <1>6, <1>7, <1>8, InterfaceAdded

LEMMA RemoveInterfaceStep ==
  ASSUME IInv, NEW r \in Routers, NEW p \in ports, RemoveInterface(r, p)
  PROVE  IInv'
<1>0. Typed /\ Owned /\ OneGateway /\ HasAddress /\ PortsFormed /\ AllApart /\ AllReachable
  BY Elementwise
<1> USE <1>0
<1>1. /\ p.device = r /\ p.owner = Intf
      /\ \A s \in SubnetsOf(p) : NotInUse(r, s)
      /\ ports' = ports \ {p} /\ fips' = Disassociated(p.id)
      /\ Answer({r} \cup {fips[f].router : f \in Associated(p.id)})
      /\ UNCHANGED <<external, routers>>
  BY DEF RemoveInterface, PortsOf
<1>2. last'.ok \in BOOLEAN /\ last'.told \subseteq Routers
  <2>1. \A f \in Associated(p.id) : fips[f].router \in Routers \cup {None}
    BY RowFacts DEF Typed, Associated
  <2>2. QED BY <1>1, <2>1, AnswerFacts
<1>3. /\ DOMAIN fips' = DOMAIN fips
      /\ \A f \in DOMAIN fips :
           /\ fips'[f] \in FipRow /\ fips'[f].ip = fips[f].ip
           /\ IF f \in Associated(p.id) THEN Unassociated(fips'[f])
              ELSE fips'[f] = fips[f] /\ (p.id # None => fips[f].port # p.id)
  BY <1>1, DisassociatedFacts
<1>4. Typed'
  BY <1>1, <1>2, <1>3 DEF Typed
<1>5. Owned'
  BY <1>1, <1>3 DEF Owned
<1>6. OneGateway'
  BY <1>1, Names DEF OneGateway
<1>7. HasAddress'
  BY <1>1, <1>3, Names DEF HasAddress
<1>8. PortsFormed'
  BY <1>1 DEF PortsFormed
<1>9. AllApart'
  BY <1>1 DEF AllApart, Apart
<1>10. AllReachable'
  <2> SUFFICES ASSUME NEW f \in DOMAIN fips, f \notin Associated(p.id), fips[f].port # None
               PROVE  Reachable(fips[f])'
    BY <1>3 DEF AllReachable, Reachable, Unassociated
  <2>1. Reachable(fips[f]) /\ fips'[f] = fips[f]
    BY <1>3 DEF AllReachable
  <2>2. \E x \in ports' : x.id = fips[f].port
    BY <1>1, <1>3, <2>1 DEF Reachable
  <2>3. PICK i \in ports : /\ i.device = fips[f].router /\ i.owner = Intf
                           /\ \E a \in i.ips : CidrOf[a.subnet] = fips[f].fixed_ip[1]
    BY <2>1 DEF Reachable
  <2>4. i # p
    <3> SUFFICES ASSUME i = p
                 PROVE  FALSE
      OBVIOUS
    <3>1. PICK a \in p.ips : CidrOf[a.subnet] = fips[f].fixed_ip[1]
      BY <2>3
    <3>2. a.subnet \in SubnetsOf(p)
      BY DEF SubnetsOf
    <3>3. QED BY <1>1, <2>3, <3>1, <3>2 DEF NotInUse
  <2>5. \E x \in ports' : x.device = fips[f].router /\ x.owner = Gw /\ x.network = fips[f].net
    BY <1>1, <2>1, Names DEF Reachable
  <2>6. QED BY <1>1, <2>1, <2>2, <2>3, <2>4, <2>5 DEF Reachable
<1>11. QED BY <1>4, <1>5, <1>6, <1>7, <1>8, <1>9, <1>10, Elementwise

----------------------------------------------------------------------------
(* Calls on floating IPs. *)

(* What get_assoc_data and _get_router_for_floatingip find: the row a      *)
(* floating IP of network n gets is well-formed and can be reached.        *)
LEMMA AssociationsFacts ==
  ASSUME IInv, NEW n \in Networks, NEW id \in {p.id : p \in ports} \cup {None}, NEW address,
         NEW assoc \in Associations(n, id, address)
  PROVE  /\ assoc.port \in PortIds \cup {None} /\ assoc.fixed_ip \in Texts \cup {None}
         /\ assoc.router \in Routers \cup {None}
         /\ \A fip : /\ fip.net = n /\ fip.port = assoc.port
                     /\ fip.fixed_ip = assoc.fixed_ip /\ fip.router = assoc.router
                     => Reachable(fip)
<1>0. Typed /\ Owned
  BY Elementwise
<1>1. CASE id = None
  <2>1. assoc.port = None /\ assoc.fixed_ip = None /\ assoc.router = None
    BY <1>1 DEF Associations, NoAssoc
  <2>2. QED BY <2>1 DEF Reachable
<1>2. CASE id # None
  <2>1. PICK a \in Named(id).ips : \E r \in RoutersFor(a, n) : assoc = Assoc(id, a, r)
    BY <1>2 DEF Associations
  <2>2. PICK r \in RoutersFor(a, n) : assoc = Assoc(id, a, r)
    BY <2>1
  <2>3. Named(id) \in ports /\ Named(id).id = id
    BY <1>2 DEF Named
  <2>4. a \in Address /\ id \in PortIds
    BY <1>0, <1>2, <2>3, RowFacts DEF Typed
  <2>5. assoc.port = id /\ assoc.fixed_ip = Text(a) /\ assoc.router = r
    BY <2>2 DEF Assoc
  <2>6. Text(a) \in Texts /\ Text(a)[1] = CidrOf[a.subnet]
    BY <2>4 DEF Texts, Text
  <2>7. PICK i \in ports : i.device = r /\ i.owner = Intf /\ a.subnet \in SubnetsOf(i)
    BY DEF RoutersFor, PortsOf
  <2>8. PICK b \in i.ips : b.subnet = a.subnet
    BY <2>7 DEF SubnetsOf
  <2>9. PICK g \in ports : g.device = r /\ g.owner = Gw /\ g.network = n
    BY DEF RoutersFor, PortsOf
  <2>10. r \in DOMAIN routers /\ r \in Routers
    BY <1>0, <2>7 DEF Owned, Typed
  <2>11. ASSUME NEW fip, fip.net = n, fip.port = id, fip.fixed_ip = Text(a), fip.router = r
         PROVE  Reachable(fip)
    BY <1>2, <2>3, <2>6, <2>7, <2>8, <2>9, <2>10, <2>11 DEF Reachable
  <2>12. QED BY <2>4, <2>5, <2>6, <2>10, <2>11
<1>3. QED BY <1>1, <1>2

LEMMA CreateFloatingIpStep ==
  ASSUME IInv, NEW f \in FipIds, NEW n \in Networks, NEW id \in {p.id : p \in ports} \cup {None},
         NEW address, CreateFloatingIp(f, n, id, address)
  PROVE  IInv'
<1>0. Typed /\ Owned /\ OneGateway /\ HasAddress /\ PortsFormed /\ AllApart /\ AllReachable
  BY Elementwise
<1> USE <1>0
<1>1. f \notin DOMAIN fips /\ UNCHANGED <<external, routers>>
  BY DEF CreateFloatingIp
<1> DEFINE Row(ips, assoc) == [net |-> n, ip |-> Text(CHOOSE a \in ips : TRUE), port |-> assoc.port,
                               fixed_ip |-> assoc.fixed_ip, router |-> assoc.router]
<1>2. PICK ips \in Generated(n) \ {{}}, assoc \in Associations(n, id, address) :
        /\ ports' = ports \cup {L3Port(Fip, f, n, ips)}
        /\ fips' = Put(fips, f, Row(ips, assoc))
        /\ Answer({assoc.router})
  BY DEF CreateFloatingIp
<1> DEFINE q == L3Port(Fip, f, n, ips)
           row == Row(ips, assoc)
<1>3. PICK a \in Address : ips = {a}
  BY GeneratedFacts
<1>4. q = [id |-> None, owner |-> Fip, device |-> f, network |-> n, ips |-> {a}]
  BY <1>3 DEF L3Port
<1>5. row = [net |-> n, ip |-> Text(a), port |-> assoc.port,
             fixed_ip |-> assoc.fixed_ip, router |-> assoc.router]
  <2>1. (CHOOSE x \in ips : TRUE) = a
    BY <1>3
  <2>2. QED BY <2>1
<1> HIDE DEF q, row, Row
<1>6. q \in PortRow /\ q.id = None /\ q.owner = Fip /\ q.device = f /\ q.ips = {a}
  BY <1>4 DEF PortRow
<1>7. /\ assoc.port \in PortIds \cup {None} /\ assoc.fixed_ip \in Texts \cup {None}
      /\ assoc.router \in Routers \cup {None}
      /\ Reachable(row)
  BY <1>5, AssociationsFacts
<1>8. row \in FipRow /\ row.ip = Text(a)
  BY <1>5, <1>7 DEF FipRow, Texts
<1>9. ports' = ports \cup {q} /\ fips' = Put(fips, f, row) /\ Answer({assoc.router})
  BY <1>2 DEF q, row
<1>10. /\ DOMAIN fips' = DOMAIN fips \cup {f} /\ fips'[f] = row
       /\ \A x \in DOMAIN fips : fips'[x] = fips[x]
  BY <1>1, <1>9 DEF Put
<1>11. last'.ok \in BOOLEAN /\ last'.told \subseteq Routers
  BY <1>7, <1>9, AnswerFacts
<1>12. Typed'
  BY <1>1, <1>6, <1>8, <1>9, <1>10, <1>11 DEF Typed
<1>13. Owned'
  BY <1>1, <1>6, <1>9, <1>10, Names DEF Owned
<1>14. OneGateway'
  BY <1>1, <1>6, <1>9, Names DEF OneGateway
<1>15. HasAddress'
  BY <1>6, <1>8, <1>9, <1>10 DEF HasAddress
<1>16. PortsFormed'
  BY <1>6, <1>9, Names DEF PortsFormed
<1>17. AllApart'
  BY <1>1, <1>6, <1>9, Names DEF AllApart, Apart, Typed
<1>18. AllReachable'
  <2>1. \A fip : Reachable(fip) => Reachable(fip)'
    BY <1>1, <1>9 DEF Reachable
  <2>2. QED BY <1>7, <1>10, <2>1 DEF AllReachable
<1>19. QED BY <1>12, <1>13, <1>14, <1>15, <1>16, <1>17, <1>18, Elementwise

LEMMA UpdateFloatingIpStep ==
  ASSUME IInv, NEW f \in FipIds, NEW id \in {p.id : p \in ports} \cup {None}, NEW address,
         UpdateFloatingIp(f, id, address)
  PROVE  IInv'
<1>0. Typed /\ Owned /\ OneGateway /\ HasAddress /\ PortsFormed /\ AllApart /\ AllReachable
  BY Elementwise
<1> USE <1>0
<1>1. f \in DOMAIN fips /\ UNCHANGED <<external, routers, ports>>
  BY DEF UpdateFloatingIp
<1>2. fips[f] \in FipRow /\ fips[f].net \in Networks
  BY <1>1, RowFacts DEF Typed
<1>3. PICK assoc \in Associations(fips[f].net, id, address) :
        /\ fips' = [fips EXCEPT ![f].port = assoc.port, ![f].fixed_ip = assoc.fixed_ip,
                                ![f].router = assoc.router]
        /\ Answer({fips[f].router, assoc.router})
  BY DEF UpdateFloatingIp
<1>4. /\ DOMAIN fips' = DOMAIN fips
      /\ fips'[f] = [net |-> fips[f].net, ip |-> fips[f].ip, port |-> assoc.port,
                     fixed_ip |-> assoc.fixed_ip, router |-> assoc.router]
      /\ \A x \in DOMAIN fips : x # f => fips'[x] = fips[x]
  BY <1>1, <1>2, <1>3 DEF FipRow
<1>5. /\ assoc.port \in PortIds \cup {None} /\ assoc.fixed_ip \in Texts \cup {None}
      /\ assoc.router \in Routers \cup {None}
      /\ Reachable(fips'[f])
  BY <1>2, <1>4, AssociationsFacts
<1>6. last'.ok \in BOOLEAN /\ last'.told \subseteq Routers
  BY <1>2, <1>3, <1>5, AnswerFacts, RowFacts
<1>7. fips'[f] \in FipRow /\ fips'[f].ip = fips[f].ip
  BY <1>2, <1>4, <1>5 DEF FipRow
<1>8. Typed'
  BY <1>1, <1>4, <1>6, <1>7 DEF Typed
<1>9. Owned' /\ OneGateway' /\ PortsFormed' /\ AllApart'
  BY <1>1, <1>4 DEF Owned, OneGateway, PortsFormed, AllApart, Apart
<1>10. HasAddress'
  BY <1>1, <1>4, <1>7 DEF HasAddress
<1>11. AllReachable'
  <2>1. \A fip : Reachable(fip) => Reachable(fip)'
    BY <1>1 DEF Reachable
  <2>2. QED BY <1>4, <1>5, <2>1 DEF AllReachable
<1>12. QED BY <1>8, <1>9, <1>10, <1>11, Elementwise

LEMMA DeleteFloatingIpStep ==
  ASSUME IInv, NEW f \in FipIds, DeleteFloatingIp(f)
  PROVE  IInv'
<1>0. Typed /\ Owned /\ OneGateway /\ HasAddress /\ PortsFormed /\ AllApart /\ AllReachable
  BY Elementwise
<1> USE <1>0
<1>1. /\ f \in DOMAIN fips /\ fips' = Drop(fips, f) /\ Answer({fips[f].router})
      /\ UNCHANGED <<external, routers>>
  BY DEF DeleteFloatingIp
<1>2. \A p : p \in ports' <=> p \in ports /\ ~(p.device = f /\ p.owner = Fip)
  BY DEF DeleteFloatingIp, PortsOf
<1>3. /\ DOMAIN fips' = DOMAIN fips \ {f}
      /\ \A x \in DOMAIN fips' : fips'[x] = fips[x]
  BY <1>1 DEF Drop, Restrict
<1>4. last'.ok \in BOOLEAN /\ last'.told \subseteq Routers
  BY <1>1, AnswerFacts, RowFacts DEF Typed
<1>5. Typed'
  BY <1>1, <1>2, <1>3, <1>4 DEF Typed
<1>6. Owned'
  BY <1>1, <1>2, <1>3, Names DEF Owned
<1>7. OneGateway'
  BY <1>1, <1>2, Names DEF OneGateway
<1>8. HasAddress'
  BY <1>2, <1>3 DEF HasAddress
<1>9. PortsFormed'
  BY <1>2 DEF PortsFormed
<1>10. AllApart'
  BY <1>1, <1>2 DEF AllApart, Apart
<1>11. AllReachable'
  <2> SUFFICES ASSUME NEW x \in DOMAIN fips', fips[x].port # None
               PROVE  Reachable(fips[x])'
    BY <1>3 DEF AllReachable, Reachable
  <2>1. Reachable(fips[x]) /\ fips'[x] = fips[x]
    BY <1>3 DEF AllReachable
  <2>2. \A p \in ports : p.owner # Fip \/ p.id = fips[x].port => p \in ports'
    BY <1>2 DEF PortsFormed
  <2>3. QED BY <1>1, <2>1, <2>2, Names DEF Reachable
<1>12. QED BY <1>5, <1>6, <1>7, <1>8, <1>9, <1>10, <1>11, Elementwise

LEMMA UpdateExternalStep ==
  ASSUME IInv, NEW n \in Externals, UpdateExternal(n)
  PROVE  IInv'
<1>1. /\ external' \subseteq external \cup {n} /\ Answer({})
      /\ UNCHANGED <<routers, ports, fips>>
  BY DEF UpdateExternal
<1>2. last'.ok \in BOOLEAN /\ last'.told \subseteq Routers
  BY <1>1, AnswerFacts
<1>3. Typed'
  BY <1>1, <1>2, Elementwise DEF Typed
<1>4. Owned' /\ OneGateway' /\ HasAddress' /\ PortsFormed' /\ AllApart'
  BY <1>1, Elementwise DEF Owned, OneGateway, HasAddress, PortsFormed, AllApart, Apart
<1>5. AllReachable'
  BY <1>1, Elementwise DEF AllReachable, Reachable
<1>6. QED BY <1>3, <1>4, <1>5, Elementwise

----------------------------------------------------------------------------
LEMMA Initially == Init => IInv
<1> SUFFICES ASSUME Init PROVE IInv
  OBVIOUS
<1> USE DEF Init
<1>1. Typed
  BY DEF Typed
<1>2. Owned /\ OneGateway /\ HasAddress /\ PortsFormed /\ AllApart /\ AllReachable
  BY DEF Owned, OneGateway, HasAddress, PortsFormed, AllApart, AllReachable
<1>3. QED BY <1>1, <1>2, Elementwise

LEMMA Unchanged == IInv /\ UNCHANGED vars => IInv'
<1> SUFFICES ASSUME IInv, UNCHANGED vars PROVE IInv'
  OBVIOUS
<1> USE Elementwise DEF vars
<1>1. Typed' /\ Owned' /\ OneGateway' /\ HasAddress'
  BY DEF Typed, Owned, OneGateway, HasAddress
<1>2. PortsFormed' /\ AllApart' /\ AllReachable'
  BY DEF PortsFormed, AllApart, Apart, AllReachable, Reachable
<1>3. QED BY <1>1, <1>2

(* Every call, in whatever order they come, keeps the invariant. *)
THEOREM Invariance == Spec => []IInv
<1>1. IInv /\ [Next]_vars => IInv'
  <2> SUFFICES ASSUME IInv, [Next]_vars PROVE IInv'
    OBVIOUS
  <2>1. ASSUME NEW n \in Externals, UpdateExternal(n) PROVE IInv'
    BY <2>1, UpdateExternalStep
  <2>2. ASSUME NEW id \in PortIds, NEW n \in Networks, NEW device \in {Vm, "none"}, NEW ips \in IpLists,
               CreatePort(id, n, device, ips)
        PROVE  IInv'
    BY <2>2, CreatePortStep
  <2>3. ASSUME NEW p \in ports, NEW ips \in IpLists, UpdatePort(p, ips) PROVE IInv'
    BY <2>3, UpdatePortStep
  <2>4. ASSUME NEW p \in ports, DeletePort(p) PROVE IInv'
    BY <2>4, DeletePortStep
  <2>5. ASSUME NEW r \in Routers, NEW n \in Networks \cup {None}, CreateRouter(r, n) PROVE IInv'
    BY <2>5, CreateRouterStep
  <2>6. ASSUME NEW r \in Routers, NEW routes \in RouteLists \cup {Unset},
               NEW n \in Networks \cup {None, Unset}, UpdateRouter(r, routes, n)
        PROVE  IInv'
    BY <2>6, UpdateRouterStep
  <2>7. ASSUME NEW r \in Routers, DeleteRouter(r) PROVE IInv'
    BY <2>7, DeleteRouterStep
  <2>8. ASSUME NEW r \in Routers, NEW s \in Subnets, AddInterfaceBySubnet(r, s) PROVE IInv'
    BY <2>8, AddInterfaceBySubnetStep
  <2>9. ASSUME NEW r \in Routers, NEW p \in ports, AddInterfaceByPort(r, p) \/ RemoveInterface(r, p)
        PROVE  IInv'
    BY <2>9, AddInterfaceByPortStep, RemoveInterfaceStep
  <2>10. ASSUME NEW f \in FipIds, NEW id \in {p.id : p \in ports} \cup {None},
                NEW a \in UNION IpLists \cup {None},
                (\E n \in Networks : CreateFloatingIp(f, n, id, a)) \/ UpdateFloatingIp(f, id, a)
         PROVE  IInv'
    <3>1. ASSUME NEW n \in Networks, CreateFloatingIp(f, n, id, a) PROVE IInv'
      BY <3>1, CreateFloatingIpStep
    <3>2. CASE UpdateFloatingIp(f, id, a)
      BY <3>2, UpdateFloatingIpStep
    <3>3. QED BY <2>10, <3>1, <3>2
  <2>11. ASSUME NEW f \in FipIds, DeleteFloatingIp(f) PROVE IInv'
    BY <2>11, DeleteFloatingIpStep
  <2>12. QED BY <2>1, <2>2, <2>3, <2>4, <2>5, <2>6, <2>7, <2>8, <2>9, <2>10, <2>11, Unchanged DEF Next
<1>2. QED BY <1>1, Initially, PTL DEF Spec

(* Every variable keeps its type: the gateway of a router is a port there  *)
(* is, and what a floating IP says of its port and router is well-formed.  *)
THEOREM TypeCorrect == Spec => []TypeOK
<1>1. IInv => TypeOK
  BY DEF IInv
<1>2. QED BY <1>1, Invariance, PTL

(* An associated floating IP can be reached, whatever is created, updated  *)
(* and deleted: what delete_router, remove_router_interface, the update of *)
(* a gateway and the deletion of ports refuse or undo is enough.           *)
THEOREM Reached == Spec => []FipsConnected
<1>1. IInv => FipsConnected
  BY DEF IInv
<1>2. QED BY <1>1, Invariance, PTL

(* No two ports of a router are on overlapping subnets: the checks of      *)
(* add_router_interface and of the gateway's subnets cover all orders.     *)
THEOREM SubnetsApart == Spec => []RouterSubnetsApart
<1>1. IInv => RouterSubnetsApart
  BY DEF IInv
<1>2. QED BY <1>1, Invariance, PTL

(* The ports of routers and floating IPs live exactly as long as they do,  *)
(* and a router has one gateway port at most.                              *)
THEOREM PortsOwned == Spec => []L3PortsOwned
<1>1. IInv => L3PortsOwned
  BY DEF IInv
<1>2. QED BY <1>1, Invariance, PTL

----------------------------------------------------------------------------
(* What a step takes from a router (RoutesKept). *)

(* A router that keeps its gateway keeps its ports on the subnet of each   *)
(* of its nexthops.                                                        *)
OnSubnetOf(p, h) == \E a \in p.ips : CidrOf[a.subnet] = h[1]
PortsKept ==
  \A r \in DOMAIN routers \cap DOMAIN routers' :
    routers'[r].gw = routers[r].gw =>
      \A h \in routers[r].routes, p \in ports : p.device = r /\ OnSubnetOf(p, h) => p \in ports'

LEMMA GatewayKeepsPorts ==
  ASSUME IInv, NEW r \in Routers, NEW gw, NEW routes,
         gw = OldGateway(r) \/ NewGateway(r, gw), SetGateway(r, gw, routes)
  PROVE  PortsKept
<1>0. Typed /\ OneGateway
  BY Elementwise
<1>1. /\ routers'[r].gw = gw
      /\ \A p \in ports : p \in ports' \/ (p.device = r /\ p.owner = Gw)
      /\ gw # None => gw \in ports'
  BY DEF SetGateway, Put, PortsOf
<1>2. r \in DOMAIN routers /\ routers'[r].gw = routers[r].gw
        => \A p \in ports : p.device = r /\ p.owner = Gw => p \in ports'
  BY <1>0, <1>1, NoneIsNoPort DEF OneGateway, Typed
<1>3. QED BY <1>1, <1>2 DEF PortsKept

LEMMA StepKeepsPorts == IInv /\ Next => PortsKept
<1> SUFFICES ASSUME IInv, Next PROVE PortsKept
  OBVIOUS
<1>0. Typed /\ Owned /\ PortsFormed
  BY Elementwise
<1>1. ports \subseteq ports' => PortsKept
  BY DEF PortsKept
<1>2. ASSUME NEW p \in ports, p.device \notin Routers, ports \ {p} \subseteq ports'
      PROVE  PortsKept
  BY <1>0, <1>2 DEF PortsKept, Typed
<1>3. ASSUME NEW n \in Externals, UpdateExternal(n) PROVE PortsKept
  BY <1>1, <1>3 DEF UpdateExternal
<1>4. ASSUME NEW id \in PortIds, NEW n \in Networks, NEW device \in {Vm, "none"}, NEW ips \in IpLists,
             CreatePort(id, n, device, ips)
      PROVE  PortsKept
  BY <1>1, <1>4 DEF CreatePort
<1>5. ASSUME NEW p \in ports, NEW ips \in IpLists, UpdatePort(p, ips) PROVE PortsKept
  <2>1. p.device \notin Routers
    BY <1>0, <1>5, Names DEF UpdatePort, PortsFormed, L3Owners
  <2>2. ports \ {p} \subseteq ports'
    BY <1>5 DEF UpdatePort
  <2>3. QED BY <1>2, <2>1, <2>2
<1>6. ASSUME NEW p \in ports, DeletePort(p) PROVE PortsKept
  <2>1. p.device \notin Routers
    BY <1>0, <1>6, Names DEF DeletePort, PortsFormed, L3Owners
  <2>2. ports \ {p} \subseteq ports'
    BY <1>6 DEF DeletePort
  <2>3. QED BY <1>2, <2>1, <2>2
<1>7. ASSUME NEW r \in Routers, NEW n \in Networks \cup {None}, CreateRouter(r, n) PROVE PortsKept
  <2>1. PICK gw \in Gateways(r, n) : SetGateway(r, gw, {})
    BY <1>7 DEF CreateRouter
  <2>2. QED BY <2>1, GatewaysFacts, GatewayKeepsPorts
<1>8. ASSUME NEW r \in Routers, NEW routes \in RouteLists \cup {Unset},
             NEW n \in Networks \cup {None, Unset}, UpdateRouter(r, routes, n)
      PROVE  PortsKept
  <2> DEFINE gateways == IF n = Unset THEN {routers[r].gw} ELSE Gateways(r, n)
  <2>1. r \in DOMAIN routers
    BY <1>8 DEF UpdateRouter
  <2>2. (\E gw \in gateways : \E new : SetGateway(r, gw, new)) \/ UNCHANGED ports
    BY <1>8 DEF UpdateRouter
  <2>3. ASSUME NEW gw \in gateways, NEW new, SetGateway(r, gw, new) PROVE PortsKept
    <3>1. gw = OldGateway(r) \/ NewGateway(r, gw)
      BY <2>1, UpdatedGateway
    <3>2. QED BY <2>3, <3>1, GatewayKeepsPorts
  <2>4. QED BY <1>1, <2>2, <2>3
<1>9. ASSUME NEW r \in Routers, DeleteRouter(r) PROVE PortsKept
  BY <1>9 DEF DeleteRouter, PortsOf, Drop, Restrict, PortsKept
<1>10. ASSUME NEW r \in Routers, NEW s \in Subnets, AddInterfaceBySubnet(r, s) PROVE PortsKept
  BY <1>1, <1>10 DEF AddInterfaceBySubnet
<1>11. ASSUME NEW r \in Routers, NEW p \in ports, AddInterfaceByPort(r, p) PROVE PortsKept
  BY <1>2, <1>11, Names DEF AddInterfaceByPort
<1>12. ASSUME NEW r \in Routers, NEW p \in ports, RemoveInterface(r, p) PROVE PortsKept
  <2>1. /\ p.device = r /\ ports' = ports \ {p}
        /\ \A s \in SubnetsOf(p) : NotInUse(r, s)
    BY <1>12 DEF RemoveInterface, PortsOf
  <2>2. \A h \in routers[r].routes : ~OnSubnetOf(p, h)
    BY <2>1 DEF NotInUse, SubnetsOf, OnSubnetOf
  <2>3. QED BY <2>1, <2>2 DEF PortsKept
<1>13. ASSUME NEW f \in FipIds, NEW id, NEW a, NEW n \in Networks, CreateFloatingIp(f, n, id, a)
       PROVE  PortsKept
  BY <1>1, <1>13 DEF CreateFloatingIp
<1>14. ASSUME NEW f \in FipIds, NEW id, NEW a, UpdateFloatingIp(f, id, a) PROVE PortsKept
  BY <1>1, <1>14 DEF UpdateFloatingIp
<1>15. ASSUME NEW f \in FipIds, DeleteFloatingIp(f) PROVE PortsKept
  <2>1. \A p \in ports : p \in ports' \/ p.device \notin Routers
    BY <1>15, Names DEF DeleteFloatingIp, PortsOf
  <2>2. QED BY <1>0, <2>1 DEF PortsKept, Typed
<1>16. QED BY <1>3, <1>4, <1>5, <1>6, <1>7, <1>8, <1>9, <1>10, <1>11, <1>12, <1>13, <1>14, <1>15 DEF Next

(* As long as its gateway is not replaced, a router stays connected to the *)
(* nexthops of its extra routes: _confirm_router_interface_not_in_use is   *)
(* asked on every way a port of a router can go.                           *)
THEOREM RoutesHold == Spec => RoutesKept
<1> DEFINE Kept == \A r \in DOMAIN routers \cap DOMAIN routers' :
                     routers'[r].gw = routers[r].gw =>
                       \A h \in routers[r].routes \cap routers'[r].routes :
                         Connected(RouterPorts(r), h) => Connected(RouterPorts(r)', h)
<1>1. IInv /\ Next => Kept
  <2> SUFFICES ASSUME PortsKept,
                      NEW r \in DOMAIN routers \cap DOMAIN routers', routers'[r].gw = routers[r].gw,
                      NEW h \in routers[r].routes, Connected(RouterPorts(r), h)
               PROVE  Connected(RouterPorts(r)', h)
    BY StepKeepsPorts
  <2>1. PICK p \in ports : p.device = r /\ \E a \in p.ips : Text(a)[1] = h[1]
    BY DEF Connected, RouterPorts
  <2>2. OnSubnetOf(p, h)
    BY <2>1 DEF OnSubnetOf, Text
  <2>3. p \in RouterPorts(r)'
    BY <2>1, <2>2 DEF PortsKept, RouterPorts
  <2>4. QED BY <2>1, <2>3 DEF Connected
<1>2. IInv /\ [Next]_vars => [Kept]_vars
  BY <1>1
<1>3. QED BY <1>2, Invariance, PTL DEF Spec, RoutesKept

----------------------------------------------------------------------------
(* Whom a step tells (ChangesTold). *)

(* Nothing get_sync_data reads of router r changes but, maybe, ports of    *)
(* other owners and floating IPs of other routers.                         *)
Untouched(r) ==
  /\ r \in DOMAIN routers' /\ routers'[r] = routers[r]
  /\ \A p : p.device = r /\ p.owner = Intf => (p \in ports' <=> p \in ports)
  /\ \A f \in DOMAIN fips : fips[f].router = r => f \in DOMAIN fips' /\ fips'[f] = fips[f]
  /\ \A f \in DOMAIN fips' : fips'[f].router = r => f \in DOMAIN fips /\ fips[f].router = r

LEMMA UntouchedData ==
  ASSUME NEW r, Untouched(r)
  PROVE  SyncData(r)' = SyncData(r)
<1>1. PortsOf(r, Intf)' = PortsOf(r, Intf)
  BY DEF PortsOf, Untouched
<1> DEFINE Own == {f \in DOMAIN fips : fips[f].router = r}
<1>2. Own' = Own /\ \A f \in Own : fips'[f] = fips[f]
  BY DEF Untouched
<1> DEFINE Said(f) == [id |-> f, fixed_ip |-> fips[f].fixed_ip]
<1>3. {Said(f) : f \in Own}' = {Said(f) : f \in Own}
  <2>1. \A f \in Own : Said(f)' = Said(f)
    BY <1>2
  <2> HIDE DEF Own, Said
  <2>2. QED BY <1>2, <2>1
<1>4. routers'[r] = routers[r]
  BY DEF Untouched
<1>5. QED BY <1>1, <1>3, <1>4 DEF SyncData

(* An accepted call tells every router it touches. *)
TouchedTold == last'.ok => \A r \in DOMAIN routers : r \in last'.told \/ Untouched(r)

LEMMA GatewayTouches ==
  ASSUME NEW r \in Routers, NEW gw, NEW routes, SetGateway(r, gw, routes), UNCHANGED fips,
         gw # None => gw.owner = Gw
  PROVE  \A x \in DOMAIN routers : x # r => Untouched(x)
<1>1. \A x \in DOMAIN routers : x # r => x \in DOMAIN routers' /\ routers'[x] = routers[x]
  BY DEF SetGateway, Put
<1>2. \A p : p.owner = Intf => (p \in ports' <=> p \in ports)
  BY Names DEF SetGateway, PortsOf
<1>3. QED BY <1>1, <1>2 DEF Untouched

(* The gateway port a router may come to have is one. *)
LEMMA GatewayOwner ==
  ASSUME IInv, NEW r \in Routers, NEW gw, gw = OldGateway(r) \/ NewGateway(r, gw)
  PROVE  gw # None => gw.owner = Gw
BY OldGatewayFacts DEF NewGateway

LEMMA DisassociatedTouches ==
  ASSUME Typed, NEW id, NEW r \in Routers, fips' = Disassociated(id),
         \A f \in Associated(id) : fips[f].router # r
  PROVE  /\ \A f \in DOMAIN fips : fips[f].router = r => f \in DOMAIN fips' /\ fips'[f] = fips[f]
         /\ \A f \in DOMAIN fips' : fips'[f].router = r => f \in DOMAIN fips /\ fips[f].router = r
<1>1. /\ DOMAIN fips' = DOMAIN fips
      /\ \A f \in DOMAIN fips : IF f \in Associated(id) THEN Unassociated(fips'[f])
                                  ELSE fips'[f] = fips[f]
  BY DisassociatedFacts
<1>2. QED BY <1>1, Names DEF Unassociated

LEMMA StepTells == IInv /\ Next => TouchedTold
<1> SUFFICES ASSUME IInv, Next PROVE TouchedTold
  OBVIOUS
<1>0. Typed /\ Owned /\ PortsFormed
  BY Elementwise
<1>1. \A r \in DOMAIN routers : r \in Routers /\ r # None
  BY <1>0, Names DEF Typed
<1>2. \A told : Answer(told) => last'.told = told \ {None}
  BY DEF Answer
<1>3. ASSUME NEW n \in Externals, UpdateExternal(n) PROVE TouchedTold
  BY <1>3 DEF UpdateExternal, TouchedTold, Untouched
<1>4. ASSUME NEW id \in PortIds, NEW n \in Networks, NEW device \in {Vm, "none"}, NEW ips \in IpLists,
             CreatePort(id, n, device, ips)
      PROVE  TouchedTold
  <2>1. \A p : p.owner = Intf => (p \in ports' <=> p \in ports)
    BY <1>4, Names DEF CreatePort, L3Owners
  <2>2. QED BY <1>4, <2>1 DEF CreatePort, TouchedTold, Untouched
<1>5. ASSUME NEW p \in ports, NEW ips \in IpLists, UpdatePort(p, ips) PROVE TouchedTold
  <2> DEFINE q == [p EXCEPT !.ips = ips]
  <2>1. p.owner # Intf /\ q.owner # Intf
    BY <1>0, <1>5, Names DEF UpdatePort, L3Owners, Typed, PortRow
  <2>2. ports' = (ports \ {p}) \cup {q} /\ UNCHANGED <<routers, fips>>
    BY <1>5 DEF UpdatePort
  <2> HIDE DEF q
  <2>3. QED BY <2>1, <2>2 DEF TouchedTold, Untouched
<1>6. ASSUME NEW p \in ports, DeletePort(p) PROVE TouchedTold
  <2>1. p.owner # Intf
    BY <1>0, <1>6 DEF DeletePort, PortsFormed, L3Owners
  <2>2. /\ ports' = ports \ {p} /\ fips' = Disassociated(p.id) /\ UNCHANGED routers
        /\ last'.told = {fips[f].router : f \in Associated(p.id)} \ {None}
    BY <1>2, <1>6 DEF DeletePort
  <2>3. QED BY <1>0, <1>1, <2>1, <2>2, DisassociatedTouches DEF TouchedTold, Untouched
<1>7. ASSUME NEW r \in Routers, NEW n \in Networks \cup {None}, CreateRouter(r, n) PROVE TouchedTold
  <2>1. PICK gw \in Gateways(r, n) : SetGateway(r, gw, {})
    BY <1>7 DEF CreateRouter
  <2>2. gw # None => gw.owner = Gw
    BY GatewaysFacts, GatewayOwner
  <2>3. r \notin DOMAIN routers /\ UNCHANGED fips
    BY <1>7 DEF CreateRouter
  <2>4. QED BY <2>1, <2>2, <2>3, GatewayTouches DEF TouchedTold
<1>8. ASSUME NEW r \in Routers, NEW routes \in RouteLists \cup {Unset},
             NEW n \in Networks \cup {None, Unset}, UpdateRouter(r, routes, n)
      PROVE  TouchedTold
  <2> DEFINE gateways == IF n = Unset THEN {routers[r].gw} ELSE Gateways(r, n)
  <2>1. r \in DOMAIN routers /\ UNCHANGED fips
    BY <1>8 DEF UpdateRouter
  <2>2. \/ (\E gw \in gateways : \E new : SetGateway(r, gw, new)) /\ Answer({r})
        \/ ~last'.ok
    BY <1>8 DEF UpdateRouter
  <2>3. ASSUME NEW gw \in gateways, NEW new, SetGateway(r, gw, new), Answer({r}) PROVE TouchedTold
    <3>1. gw # None => gw.owner = Gw
      BY <2>1, UpdatedGateway, GatewayOwner
    <3>2. \A x \in DOMAIN routers : x # r => Untouched(x)
      BY <2>1, <2>3, <3>1, GatewayTouches
    <3>3. QED BY <1>1, <1>2, <2>3, <3>2 DEF TouchedTold
  <2>4. QED BY <2>2, <2>3 DEF TouchedTold
<1>9. ASSUME NEW r \in Routers, DeleteRouter(r) PROVE TouchedTold
  <2>1. \A x \in DOMAIN routers : x # r => x \in DOMAIN routers' /\ routers'[x] = routers[x]
    BY <1>9 DEF DeleteRouter, Drop, Restrict
  <2>2. /\ \A p : p.owner = Intf => (p \in ports' <=> p \in ports)
        /\ UNCHANGED fips /\ Answer({r})
    BY <1>9, Names DEF DeleteRouter, PortsOf
  <2>3. QED BY <1>1, <1>2, <2>1, <2>2 DEF TouchedTold, Untouched
<1>10. ASSUME NEW r \in Routers, NEW s \in Subnets, AddInterfaceBySubnet(r, s) PROVE TouchedTold
  <2> DEFINE q == L3Port(Intf, r, NetworkOf[s], {[subnet |-> s, host |-> GatewayHost]})
  <2>1. q.device = r
    BY DEF L3Port
  <2>2. ports' = ports \cup {q} /\ Answer({r}) /\ UNCHANGED <<routers, fips>>
    BY <1>10 DEF AddInterfaceBySubnet
  <2> HIDE DEF q
  <2>3. QED BY <1>1, <1>2, <2>1, <2>2 DEF TouchedTold, Untouched
<1>11. ASSUME NEW r \in Routers, NEW p \in ports, AddInterfaceByPort(r, p) PROVE TouchedTold
  <2> DEFINE q == [p EXCEPT !.device = r, !.owner = Intf]
  <2>1. q.device = r
    BY <1>0 DEF Typed, PortRow
  <2>2. /\ ports' = (ports \ {p}) \cup {q} /\ Answer({r}) /\ UNCHANGED <<routers, fips>>
        /\ p.device = None
    BY <1>11 DEF AddInterfaceByPort
  <2> HIDE DEF q
  <2>3. QED BY <1>1, <1>2, <2>1, <2>2 DEF TouchedTold, Untouched
<1>12. ASSUME NEW r \in Routers, NEW p \in ports, RemoveInterface(r, p) PROVE TouchedTold
  <2>1. /\ p.device = r /\ ports' = ports \ {p} /\ fips' = Disassociated(p.id) /\ UNCHANGED routers
        /\ last'.told = ({r} \cup {fips[f].router : f \in Associated(p.id)}) \ {None}
    BY <1>2, <1>12 DEF RemoveInterface, PortsOf
  <2>2. QED BY <1>0, <1>1, <2>1, DisassociatedTouches DEF TouchedTold, Untouched
<1>13. ASSUME NEW f \in FipIds, NEW id \in {p.id : p \in ports} \cup {None}, NEW a,
              NEW n \in Networks, CreateFloatingIp(f, n, id, a)
       PROVE  TouchedTold
  <2>1. f \notin DOMAIN fips /\ UNCHANGED routers
    BY <1>13 DEF CreateFloatingIp
  <2>2. \E ips, assoc, row :
          /\ ports' = ports \cup {L3Port(Fip, f, n, ips)}
          /\ fips' = Put(fips, f, row) /\ row.router = assoc.router
          /\ Answer({assoc.router})
    BY <1>13 DEF CreateFloatingIp
  <2>3. PICK ips, assoc, row :
          /\ ports' = ports \cup {L3Port(Fip, f, n, ips)}
          /\ fips' = Put(fips, f, row) /\ row.router = assoc.router
          /\ Answer({assoc.router})
    BY <2>2
  <2>4. \A p : p.owner = Intf => (p \in ports' <=> p \in ports)
    BY <2>3, Names DEF L3Port
  <2>5. /\ DOMAIN fips' = DOMAIN fips \cup {f} /\ fips'[f].router = assoc.router
        /\ \A x \in DOMAIN fips : fips'[x] = fips[x]
    BY <2>1, <2>3 DEF Put
  <2>6. QED BY <1>1, <1>2, <2>1, <2>3, <2>4, <2>5 DEF TouchedTold, Untouched
<1>14. ASSUME NEW f \in FipIds, NEW id \in {p.id : p \in ports} \cup {None}, NEW a,
              UpdateFloatingIp(f, id, a)
       PROVE  TouchedTold
  <2>1. f \in DOMAIN fips /\ UNCHANGED <<routers, ports>>
    BY <1>14 DEF UpdateFloatingIp
  <2>2. PICK assoc : /\ fips' = [fips EXCEPT ![f].port = assoc.port, ![f].fixed_ip = assoc.fixed_ip,
                                             ![f].router = assoc.router]
                     /\ Answer({fips[f].router, assoc.router})
    BY <1>14 DEF UpdateFloatingIp
  <2>3. /\ DOMAIN fips' = DOMAIN fips /\ fips'[f].router = assoc.router
        /\ \A x \in DOMAIN fips : x # f => fips'[x] = fips[x]
    BY <1>0, <2>1, <2>2 DEF Typed, FipRow
  <2>4. QED BY <1>1, <1>2, <2>1, <2>2, <2>3 DEF TouchedTold, Untouched
<1>15. ASSUME NEW f \in FipIds, DeleteFloatingIp(f) PROVE TouchedTold
  <2>1. /\ f \in DOMAIN fips /\ DOMAIN fips' = DOMAIN fips \ {f}
        /\ \A x \in DOMAIN fips' : fips'[x] = fips[x]
    BY <1>15 DEF DeleteFloatingIp, Drop, Restrict
  <2>2. /\ \A p : p.owner = Intf => (p \in ports' <=> p \in ports)
        /\ UNCHANGED routers /\ Answer({fips[f].router})
    BY <1>15, Names DEF DeleteFloatingIp, PortsOf
  <2>3. QED BY <1>1, <1>2, <2>1, <2>2 DEF TouchedTold, Untouched
<1>16. QED BY <1>3, <1>4, <1>5, <1>6, <1>7, <1>8, <1>9, <1>10, <1>11, <1>12, <1>13, <1>14, <1>15 DEF Next

(* Every accepted call that changes what an agent configures for a router  *)
(* notifies the agents of it: also the router a floating IP leaves, and    *)
(* the one that loses it with its port.                                    *)
THEOREM ChangesAreTold == Spec => ChangesTold
<1> DEFINE Told == \A r \in DOMAIN routers :
                     last'.ok /\ (r \notin DOMAIN routers' \/ SyncData(r)' # SyncData(r)) => r \in last'.told
<1>1. IInv /\ Next => Told
  <2> SUFFICES ASSUME TouchedTold, NEW r \in DOMAIN routers, last'.ok, r \notin last'.told
               PROVE  r \in DOMAIN routers' /\ SyncData(r)' = SyncData(r)
    BY StepTells
  <2>1. Untouched(r)
    BY DEF TouchedTold
  <2>2. QED BY <2>1, UntouchedData DEF Untouched
<1>2. IInv /\ [Next]_vars => [Told]_vars
  BY <1>1
<1>3. QED BY <1>2, Invariance, PTL DEF Spec, ChangesTold
=============================================================================
