--------------------------- MODULE DhcpAgentProofs ---------------------------
(***************************************************************************)
(* What the DHCP agent has in its cache, its lookups and its processes     *)
(* goes together, whatever the server changes, a driver action or a call   *)
(* fails or the agent is restarted at: for all networks and every bound.   *)
(***************************************************************************)
EXTENDS DhcpAgent, SequenceTheorems, TLAPS

(* A network as the agent holds it, with all its fields and no other. *)
Whole(net) ==
  /\ IsModel(net)
  /\ net = [id |-> net.id, up |-> net.up, dhcp |-> net.dhcp, ip |-> net.ip, own |-> net.own]

Messages ==
  [method : {"network_create_end", "network_delete_end", "subnet_update_end"}, network : Networks]
    \cup [method : {"network_update_end"}, network : Networks, up : BOOLEAN]
    \cup [method : {"subnet_delete_end"}, subnet : Subnets]
    \cup [method : {"port_update_end"}, port : Ports, ip : Ips]
    \cup [method : {"port_delete_end"}, port : Ports]

(* The server's tables: what is of a network goes with it. *)
TablesOK ==
  /\ DOMAIN up \subseteq Networks /\ \A n \in DOMAIN up : up[n] \in BOOLEAN
  /\ \A s \in DOMAIN dhcp : s \in Subnets /\ NetworkOf[s] \in DOMAIN up /\ dhcp[s] \in BOOLEAN
  /\ \A p \in DOMAIN ip : p \in Ports /\ NetworkOf[p] \in DOMAIN up /\ ip[p] \in Ips
  /\ own \in [Networks -> SUBSET Subnets]
  /\ \A n \in Networks : own[n] \subseteq Of(n, DOMAIN dhcp)

SyncOK(j) ==
  /\ j = [pc |-> "sync", active |-> j.active, gone |-> j.gone]
  /\ \A net \in j.active : Whole(net) /\ net.up

(* Only a network with DHCP is enabled or restarted, and then it is put    *)
(* into the cache.                                                         *)
DriverOK(j) ==
  /\ Whole(j.net) /\ j.kept \in BOOLEAN
  /\ j.action \in {"enable", "restart"} => j.kept /\ DhcpSubnets(j.net) # {}
  /\ j.then = NoJob \/ SyncOK(j.then)

JobOK ==
  /\ job.pc \in {"none", "got", "driver", "ask", "sync"}
  /\ job.pc = "got" => /\ job.net # None => Whole(job.net)
                       /\ job.old # None => Whole(job.old)
  /\ job.pc = "driver" => DriverOK(job)
  /\ job.pc = "sync" => SyncOK(job)

CacheOK ==
  /\ \A n \in DOMAIN cache : Whole(cache[n]) /\ cache[n].id = n
  /\ lookup \subseteq Subnets \cup Ports

ProcessesOK ==
  \A n \in DOMAIN dnsmasq :
    /\ n \in Networks /\ dnsmasq[n].dhcp # {}
    /\ dnsmasq[n] = [dhcp |-> dnsmasq[n].dhcp, ip |-> dnsmasq[n].ip]

(* The inductive invariant.  The lookups can be kept for each network by   *)
(* itself because all that is held is of one network, wherever it waits:   *)
(* in a notification, in an answer of the server, with a thread or with    *)
(* the driver.                                                             *)
IInv ==
  /\ TablesOK /\ inbox \in Seq(Messages)
  /\ CacheOK /\ LookupsCover
  /\ JobOK /\ \A net \in threads : Whole(net) /\ net.up
  /\ needs_resync \in BOOLEAN
  /\ ProcessesOK /\ RunningIsKnown

----------------------------------------------------------------------------
(* The data. *)

(* What a notification of each method has. *)
LEMMA MessageFacts ==
  ASSUME NEW msg \in Messages
  PROVE  /\ msg.method \in {"network_create_end", "network_delete_end", "network_update_end",
                            "subnet_update_end"} => msg.network \in Networks
         /\ msg.method = "subnet_delete_end" => msg.subnet \in Subnets
         /\ msg.method = "port_update_end" => msg.port \in Ports /\ msg.ip \in Ips
         /\ msg.method = "port_delete_end" => msg.port \in Ports
BY DEF Messages

(* What a key of a network is. *)
LEMMA KeyFacts ==
  ASSUME NEW net, Whole(net)
  PROVE  /\ net.id \in Networks
         /\ \A k \in Keys(net) : k \in Subnets \cup Ports /\ NetworkOf[k] = net.id
         /\ DhcpSubnets(net) \subseteq Of(net.id, Subnets)
BY DEF Whole, IsModel, Keys, Of, DhcpSubnets

(* What the server tells of a network is of that network.                  *)
LEMMA ModelFacts ==
  ASSUME TablesOK, NEW n \in DOMAIN up, NEW subnets, subnets \subseteq Of(n, DOMAIN dhcp)
  PROVE  /\ Whole(Model(n, subnets)) /\ Model(n, subnets).id = n /\ Model(n, subnets).up = up[n]
<1> DEFINE net == Model(n, subnets)
<1>1. /\ net = [id |-> net.id, up |-> net.up, dhcp |-> net.dhcp, ip |-> net.ip, own |-> net.own]
      /\ net.id = n /\ net.up = up[n] /\ net.own = own[n]
      /\ net.dhcp = Restrict(dhcp, subnets) /\ net.ip = Restrict(ip, Of(n, DOMAIN ip))
  BY DEF Model
<1> HIDE DEF net
<1>2. n \in Networks /\ up[n] \in BOOLEAN /\ own[n] \subseteq Of(n, Subnets)
  BY DEF TablesOK, Of
<1>3. DOMAIN net.dhcp \subseteq Of(n, Subnets) /\ Range(net.dhcp) \subseteq BOOLEAN
  BY <1>1 DEF TablesOK, Of, Restrict, Range
<1>4. DOMAIN net.ip \subseteq Of(n, Ports) /\ Range(net.ip) \subseteq Ips
  BY <1>1 DEF TablesOK, Of, Restrict, Range
<1>5. QED BY <1>1, <1>2, <1>3, <1>4 DEF Whole, IsModel, net

LEMMA InfoFacts ==
  ASSUME TablesOK
  PROVE  /\ \A n : NetworkInfo(n) # None => Whole(NetworkInfo(n))
         /\ \A net \in ActiveNetworksInfo : Whole(net) /\ net.up
<1>1. ASSUME NEW n, NetworkInfo(n) # None PROVE Whole(NetworkInfo(n))
  BY <1>1, ModelFacts DEF NetworkInfo
<1>2. ASSUME NEW net \in ActiveNetworksInfo PROVE Whole(net) /\ net.up
  <2>1. PICK n \in DOMAIN up : up[n] /\ net = Model(n, Enabled(n))
    BY <1>2 DEF ActiveNetworksInfo
  <2>2. Enabled(n) \subseteq Of(n, DOMAIN dhcp)
    BY DEF Enabled
  <2>3. QED BY <2>1, <2>2, ModelFacts
<1>3. QED BY <1>1, <1>2

----------------------------------------------------------------------------
(* NetworkCache. *)

(* put() leaves the keys of other networks in the lookups. *)
LEMMA CachePutFacts ==
  ASSUME CacheOK, LookupsCover, NEW net, Whole(net), CachePut(net)
  PROVE  CacheOK' /\ LookupsCover' /\ DOMAIN cache' = DOMAIN cache \cup {net.id}
<1> DEFINE n == net.id
           replaced == IF n \in DOMAIN cache THEN Keys(cache[n]) ELSE {}
<1>1. /\ DOMAIN cache' = DOMAIN cache \cup {n} /\ cache'[n] = net
      /\ \A m \in DOMAIN cache : m # n => cache'[m] = cache[m]
      /\ lookup' = (lookup \ replaced) \cup Keys(net)
  BY DEF CachePut, Put
<1>2. \A k \in Keys(net) : k \in Subnets \cup Ports
  BY KeyFacts
<1>3. \A m \in DOMAIN cache : \A k \in Keys(cache[m]) : NetworkOf[k] = m
  BY KeyFacts DEF CacheOK
<1>4. CacheOK'
  BY <1>1, <1>2 DEF CacheOK
<1>5. LookupsCover'
  BY <1>1, <1>3 DEF LookupsCover
<1>6. QED BY <1>1, <1>4, <1>5

(* remove() takes keys of the network alone. *)
LEMMA CacheRemoveFacts ==
  ASSUME CacheOK, LookupsCover, NEW net, Whole(net), CacheRemove(net)
  PROVE  CacheOK' /\ LookupsCover' /\ DOMAIN cache' = DOMAIN cache \ {net.id}
<1>1. PICK gone \in SUBSET Keys(net) :
        /\ DOMAIN cache' = DOMAIN cache \ {net.id} /\ \A m \in DOMAIN cache' : cache'[m] = cache[m]
        /\ lookup' = lookup \ gone
  <2>1. CASE net.id \notin DOMAIN cache /\ UNCHANGED <<cache, lookup>>
    BY <2>1
  <2>2. CASE net.id \in DOMAIN cache /\ cache' = Drop(cache, {net.id})
    BY <2>2 DEF CacheRemove, Drop, Restrict
  <2>3. QED BY <2>1, <2>2 DEF CacheRemove
<1>2. \A k \in gone : NetworkOf[k] = net.id
  BY KeyFacts
<1>3. \A m \in DOMAIN cache : \A k \in Keys(cache[m]) : NetworkOf[k] = m
  BY KeyFacts DEF CacheOK
<1>4. CacheOK'
  BY <1>1 DEF CacheOK
<1>5. LookupsCover'
  BY <1>1, <1>2, <1>3 DEF LookupsCover
<1>6. QED BY <1>1, <1>4, <1>5

----------------------------------------------------------------------------
(* The driver. *)

(* The DHCP port gets addresses on subnets that the network has.           *)
LEMMA SetupFacts ==
  ASSUME TablesOK, NEW net, Whole(net), net.id \in DOMAIN up, ~Refused(net)
  PROVE  /\ SetupDhcpPort(net) \subseteq Of(net.id, DOMAIN dhcp)
         /\ Enabled(net.id) \subseteq Of(net.id, DOMAIN dhcp)
<1>1. net.id \in Networks /\ own[net.id] \subseteq Of(net.id, DOMAIN dhcp)
  BY DEF TablesOK
<1>2. net.own \subseteq Of(net.id, Subnets) /\ DhcpSubnets(net) \subseteq Of(net.id, Subnets)
  BY KeyFacts DEF Whole, IsModel
<1>3. ~(DhcpSubnets(net) \subseteq net.own) => net.own \cup DhcpSubnets(net) \subseteq Of(net.id, DOMAIN dhcp)
  BY <1>2 DEF Refused, Of
<1>4. QED BY <1>1, <1>3 DEF SetupDhcpPort, Enabled

(* TablesOK of what the driver may change. *)
LEMMA OwnFacts ==
  ASSUME TablesOK, UNCHANGED <<up, dhcp, ip>>, NEW n \in Networks, NEW subnets,
         subnets \subseteq Of(n, DOMAIN dhcp), own' = [own EXCEPT ![n] = subnets] \/ UNCHANGED own
  PROVE  TablesOK'
<1>1. own' \in [Networks -> SUBSET Subnets] /\ \A m \in Networks : own'[m] \subseteq Of(m, DOMAIN dhcp)
  BY DEF TablesOK, Of
<1>2. QED BY <1>1 DEF TablesOK

LEMMA PortAfterFacts ==
  ASSUME TablesOK, UNCHANGED <<up, dhcp, ip>>, NEW net, Whole(net), PortAfter(net)
  PROVE  TablesOK'
<1>1. CASE UNCHANGED own
  BY <1>1 DEF TablesOK
<1>2. CASE /\ net.id \in DOMAIN up /\ ~Refused(net)
           /\ \E more \in {{}, Enabled(net.id)} : own' = [own EXCEPT ![net.id] = SetupDhcpPort(net) \cup more]
  <2>1. PICK more \in {{}, Enabled(net.id)} : own' = [own EXCEPT ![net.id] = SetupDhcpPort(net) \cup more]
    BY <1>2
  <2>2. SetupDhcpPort(net) \cup more \subseteq Of(net.id, DOMAIN dhcp)
    BY <1>2, SetupFacts
  <2>3. QED BY <2>1, <2>2, KeyFacts, OwnFacts
<1>3. QED BY <1>1, <1>2 DEF PortAfter

LEMMA KillFacts ==
  ASSUME ProcessesOK, NEW n, Kill(n)
  PROVE  ProcessesOK' /\ DOMAIN dnsmasq' = DOMAIN dnsmasq \ {n}
<1>1. DOMAIN dnsmasq' = DOMAIN dnsmasq \ {n} /\ \A m \in DOMAIN dnsmasq' : dnsmasq'[m] = dnsmasq[m]
  BY DEF Kill, Drop, Restrict
<1>2. QED BY <1>1 DEF ProcessesOK

LEMMA ReloadFacts ==
  ASSUME TablesOK, UNCHANGED <<up, dhcp, ip>>, ProcessesOK, NEW net, Whole(net), Reload(net)
  PROVE  TablesOK' /\ ProcessesOK' /\ DOMAIN dnsmasq' = DOMAIN dnsmasq
<1> DEFINE n == net.id
<1>1. TablesOK'
  <2>1. own[n] \cup Enabled(n) \subseteq Of(n, DOMAIN dhcp)
    BY KeyFacts DEF TablesOK, Enabled
  <2>2. QED BY <2>1, KeyFacts, OwnFacts DEF Reload
<1>2. CASE n \notin DOMAIN dnsmasq
  BY <1>1, <1>2 DEF Reload, ProcessesOK
<1>3. CASE n \in DOMAIN dnsmasq
  <2>1. dnsmasq' = [dnsmasq EXCEPT ![n] = [dnsmasq[n] EXCEPT !.ip = net.ip]]
    BY <1>3 DEF Reload
  <2>2. [dnsmasq[n] EXCEPT !.ip = net.ip] = [dhcp |-> dnsmasq[n].dhcp, ip |-> net.ip]
    BY <1>3 DEF ProcessesOK
  <2>3. /\ DOMAIN dnsmasq' = DOMAIN dnsmasq /\ dnsmasq'[n] = [dhcp |-> dnsmasq[n].dhcp, ip |-> net.ip]
        /\ \A m \in DOMAIN dnsmasq : m # n => dnsmasq'[m] = dnsmasq[m]
    BY <1>3, <2>1, <2>2
  <2>4. ProcessesOK'
    BY <1>3, <2>3 DEF ProcessesOK
  <2>5. QED BY <1>1, <2>3, <2>4
<1>4. QED BY <1>2, <1>3

LEMMA DisableFacts ==
  ASSUME TablesOK, UNCHANGED <<up, dhcp, ip>>, ProcessesOK, NEW net, Whole(net), Disable(net)
  PROVE  TablesOK' /\ ProcessesOK' /\ DOMAIN dnsmasq' = DOMAIN dnsmasq \ {net.id}
<1>1. ProcessesOK' /\ DOMAIN dnsmasq' = DOMAIN dnsmasq \ {net.id}
  BY KillFacts DEF Disable
<1>2. own' = [own EXCEPT ![net.id] = {}] \/ UNCHANGED own
  BY DEF Disable
<1>3. TablesOK'
  BY <1>2, KeyFacts, OwnFacts
<1>4. QED BY <1>1, <1>3

LEMMA EnableFacts ==
  ASSUME TablesOK, UNCHANGED <<up, dhcp, ip>>, ProcessesOK, NEW net, Whole(net), DhcpSubnets(net) # {},
         Enable(net)
  PROVE  TablesOK' /\ ProcessesOK' /\ DOMAIN dnsmasq' = DOMAIN dnsmasq \cup {net.id}
<1>1. TablesOK'
  <2>1. SetupDhcpPort(net) \cup Enabled(net.id) \subseteq Of(net.id, DOMAIN dhcp)
    BY SetupFacts DEF Enable, SetUp
  <2>2. QED BY <2>1, KeyFacts, OwnFacts DEF Enable
<1>2. /\ DOMAIN dnsmasq' = DOMAIN dnsmasq \cup {net.id}
      /\ dnsmasq'[net.id] = [dhcp |-> DhcpSubnets(net), ip |-> net.ip]
      /\ \A m \in DOMAIN dnsmasq : m # net.id => dnsmasq'[m] = dnsmasq[m]
  BY DEF Enable, Put
<1>3. ProcessesOK'
  BY <1>2, KeyFacts DEF ProcessesOK
<1>4. QED BY <1>1, <1>2, <1>3

(* Only an action that succeeds starts a process, and only of its network. *)
LEMMA SucceedsFacts ==
  ASSUME TablesOK, UNCHANGED <<up, dhcp, ip>>, ProcessesOK, NEW net, Whole(net), NEW action,
         action \in {"enable", "restart"} => DhcpSubnets(net) # {}, Succeeds(action, net)
  PROVE  /\ TablesOK' /\ ProcessesOK' /\ DOMAIN dnsmasq' \subseteq DOMAIN dnsmasq \cup {net.id}
         /\ action \notin {"enable", "restart"} => DOMAIN dnsmasq' \subseteq DOMAIN dnsmasq
         /\ action = "disable" => net.id \notin DOMAIN dnsmasq'
<1>1. CASE action \in {"enable", "restart"} /\ Enable(net)
  BY <1>1, EnableFacts
<1>2. CASE action \in {"disable", "reload_allocations"} /\ Disable(net)
  BY <1>2, DisableFacts
<1>3. CASE action = "reload_allocations" /\ Reload(net)
  BY <1>3, ReloadFacts
<1>4. QED BY <1>1, <1>2, <1>3 DEF Succeeds

(* An action that fails starts none. *)
LEMMA BreaksFacts ==
  ASSUME TablesOK, UNCHANGED <<up, dhcp, ip>>, ProcessesOK, NEW net, Whole(net), NEW action, NEW kept,
         Breaks(action, net, kept)
  PROVE  TablesOK' /\ ProcessesOK' /\ DOMAIN dnsmasq' \subseteq DOMAIN dnsmasq
<1>1. CASE UNCHANGED dnsmasq \/ Kill(net.id)
  <2>1. ProcessesOK' /\ DOMAIN dnsmasq' \subseteq DOMAIN dnsmasq
    BY <1>1, KillFacts DEF ProcessesOK
  <2>2. CASE PortAfter(net)
    BY <2>1, <2>2, PortAfterFacts
  <2>3. CASE UNCHANGED own
    BY <2>1, <2>3 DEF TablesOK
  <2>4. CASE Reload(net)
    BY <2>4, ReloadFacts
  <2>5. CASE action = "reload_allocations" /\ Succeeds(action, net)
    BY <2>5, SucceedsFacts
  <2>6. QED BY <2>2, <2>3, <2>4, <2>5 DEF Breaks
<1>2. CASE Reload(net)
  BY <1>2, ReloadFacts
<1>3. CASE action = "reload_allocations" /\ Succeeds(action, net)
  BY <1>3, SucceedsFacts
<1>4. QED BY <1>1, <1>2, <1>3 DEF Breaks

(* call_driver: a network whose process is started is put into the cache,  *)
(* and one is taken out of it only with its process.                       *)
LEMMA CallDriverFacts ==
  ASSUME IInv, UNCHANGED <<up, dhcp, ip>>, NEW net, Whole(net), NEW action, NEW kept \in BOOLEAN,
         NEW syncing, action \in {"enable", "restart"} => kept /\ DhcpSubnets(net) # {},
         CallDriver(action, net, kept, syncing)
  PROVE  TablesOK' /\ ProcessesOK' /\ CacheOK' /\ LookupsCover' /\ RunningIsKnown' /\ needs_resync' \in BOOLEAN
<1>0. TablesOK /\ ProcessesOK /\ CacheOK /\ LookupsCover /\ RunningIsKnown
  BY DEF IInv
<1>1. ASSUME Uncached PROVE CacheOK' /\ LookupsCover' /\ DOMAIN cache' = DOMAIN cache
  BY <1>0, <1>1 DEF Uncached, CacheOK, LookupsCover
<1>2. CASE /\ Succeeds(action, net)
           /\ IF action = "disable" THEN CacheRemove(net) ELSE IF kept THEN CachePut(net) ELSE Uncached
           /\ needs_resync' = (needs_resync \/ (action = "disable" /\ syncing /\ KeyError(net)))
  <2>1. /\ TablesOK' /\ ProcessesOK' /\ DOMAIN dnsmasq' \subseteq DOMAIN dnsmasq \cup {net.id}
        /\ action \notin {"enable", "restart"} => DOMAIN dnsmasq' \subseteq DOMAIN dnsmasq
        /\ action = "disable" => net.id \notin DOMAIN dnsmasq'
    BY <1>0, <1>2, SucceedsFacts
  <2>2. needs_resync' \in BOOLEAN
    BY <1>2
  <2>3. CASE action = "disable" /\ CacheRemove(net)
    <3>1. CacheOK' /\ LookupsCover' /\ DOMAIN cache' = DOMAIN cache \ {net.id}
      BY <1>0, <2>3, CacheRemoveFacts
    <3>2. QED BY <1>0, <2>1, <2>2, <2>3, <3>1 DEF RunningIsKnown
  <2>4. CASE CachePut(net)
    <3>1. CacheOK' /\ LookupsCover' /\ DOMAIN cache' = DOMAIN cache \cup {net.id}
      BY <1>0, <2>4, CachePutFacts
    <3>2. QED BY <1>0, <2>1, <2>2, <3>1 DEF RunningIsKnown
  <2>5. CASE action \notin {"enable", "restart"} /\ Uncached
    BY <1>0, <1>1, <2>1, <2>2, <2>5 DEF RunningIsKnown
  <2>6. QED BY <1>2, <2>3, <2>4, <2>5
<1>3. CASE Breaks(action, net, kept) /\ needs_resync' = TRUE /\ AfterFailure(action, net, kept)
  <2>1. TablesOK' /\ ProcessesOK' /\ DOMAIN dnsmasq' \subseteq DOMAIN dnsmasq
    BY <1>0, <1>3, BreaksFacts
  <2>2. CASE CachePut(net)
    <3>1. CacheOK' /\ LookupsCover' /\ DOMAIN cache' = DOMAIN cache \cup {net.id}
      BY <1>0, <2>2, CachePutFacts
    <3>2. QED BY <1>0, <1>3, <2>1, <3>1 DEF RunningIsKnown
  <2>3. CASE Uncached
    BY <1>0, <1>1, <1>3, <2>1, <2>3 DEF RunningIsKnown
  <2>4. QED BY <1>3, <2>2, <2>3 DEF AfterFailure
<1>4. QED BY <1>2, <1>3 DEF CallDriver

----------------------------------------------------------------------------
(* The server. *)

(* An API call tells of its change, and the agent has nothing of it yet.   *)
LEMMA ChangeFacts ==
  ASSUME IInv, NEW msg \in Messages, Notify(msg), TablesOK'
  PROVE  IInv'
<1>1. inbox' \in Seq(Messages)
  BY DEF IInv, Notify
<1>2. UNCHANGED <<cache, lookup, job, threads, needs_resync, dnsmasq>>
  BY DEF Notify, agent
<1>3. CacheOK' /\ LookupsCover' /\ ProcessesOK' /\ RunningIsKnown'
  BY <1>2 DEF IInv, CacheOK, LookupsCover, ProcessesOK, RunningIsKnown
<1>4. JobOK' /\ (\A net \in threads' : Whole(net) /\ net.up) /\ needs_resync' \in BOOLEAN
  BY <1>2 DEF IInv, JobOK
<1>5. QED BY <1>1, <1>3, <1>4 DEF IInv

LEMMA NetworkStep ==
  ASSUME IInv, NEW n \in Networks,
         CreateNetwork(n) \/ DeleteNetwork(n) \/ \E b \in BOOLEAN : UpdateNetwork(n, b)
  PROVE  IInv'
<1>0. TablesOK
  BY DEF IInv
<1>1. CASE CreateNetwork(n)
  <2>1. /\ DOMAIN up' = DOMAIN up \cup {n} /\ up'[n] = TRUE /\ \A m \in DOMAIN up : up'[m] \in {up[m], TRUE}
        /\ UNCHANGED <<dhcp, ip, own>>
    BY <1>1 DEF CreateNetwork, Put
  <2>2. TablesOK'
    BY <1>0, <2>1 DEF TablesOK
  <2> DEFINE msg == [method |-> "network_create_end", network |-> n]
  <2>3. msg \in Messages
    BY DEF Messages
  <2>4. Notify(msg)
    BY <1>1 DEF CreateNetwork
  <2>5. QED BY <2>2, <2>3, <2>4, ChangeFacts
<1>2. CASE DeleteNetwork(n)
  <2>1. /\ DOMAIN up' = DOMAIN up \ {n} /\ \A m \in DOMAIN up' : up'[m] = up[m]
        /\ DOMAIN dhcp' = DOMAIN dhcp \ Of(n, Subnets) /\ \A s \in DOMAIN dhcp' : dhcp'[s] = dhcp[s]
        /\ own' = [own EXCEPT ![n] = {}] /\ ip' = ip /\ Of(n, DOMAIN ip) = {}
    BY <1>2 DEF DeleteNetwork, Drop, Restrict
  <2>2. TablesOK'
    <3>1. /\ DOMAIN up' \subseteq Networks /\ \A m \in DOMAIN up' : up'[m] \in BOOLEAN
      BY <1>0, <2>1 DEF TablesOK
    <3>2. \A s \in DOMAIN dhcp' : s \in Subnets /\ NetworkOf[s] \in DOMAIN up' /\ dhcp'[s] \in BOOLEAN
      BY <1>0, <2>1 DEF TablesOK, Of
    <3>3. \A p \in DOMAIN ip' : p \in Ports /\ NetworkOf[p] \in DOMAIN up' /\ ip'[p] \in Ips
      BY <1>0, <2>1 DEF TablesOK, Of
    <3>4. own' \in [Networks -> SUBSET Subnets] /\ \A m \in Networks : own'[m] = IF m = n THEN {} ELSE own[m]
      BY <1>0, <2>1 DEF TablesOK
    <3>5. \A m \in Networks : own'[m] \subseteq Of(m, DOMAIN dhcp')
      BY <1>0, <2>1, <3>4 DEF TablesOK, Of
    <3>6. QED BY <3>1, <3>2, <3>3, <3>4, <3>5 DEF TablesOK
  <2> DEFINE msg == [method |-> "network_delete_end", network |-> n]
  <2>3. msg \in Messages
    BY DEF Messages
  <2>4. Notify(msg)
    BY <1>2 DEF DeleteNetwork
  <2>5. QED BY <2>2, <2>3, <2>4, ChangeFacts
<1>3. ASSUME NEW b \in BOOLEAN, UpdateNetwork(n, b) PROVE IInv'
  <2>1. /\ DOMAIN up' = DOMAIN up /\ \A m \in DOMAIN up : up'[m] \in {up[m], b}
        /\ UNCHANGED <<dhcp, ip, own>>
    BY <1>3 DEF UpdateNetwork, Put
  <2>2. TablesOK'
    BY <1>0, <2>1 DEF TablesOK
  <2> DEFINE msg == [method |-> "network_update_end", network |-> n, up |-> b]
  <2>3. msg \in Messages
    BY DEF Messages
  <2>4. Notify(msg)
    BY <1>3 DEF UpdateNetwork
  <2>5. QED BY <2>2, <2>3, <2>4, ChangeFacts
<1>4. QED BY <1>1, <1>2, <1>3

LEMMA SubnetStep ==
  ASSUME IInv, NEW s \in Subnets, DeleteSubnet(s) \/ \E b \in BOOLEAN : PutSubnet(s, b)
  PROVE  IInv'
<1>0. TablesOK /\ NetworkOf[s] \in Networks
  BY NetworkOfAssumption DEF IInv
<1>1. CASE DeleteSubnet(s)
  <2>1. /\ DOMAIN dhcp' = DOMAIN dhcp \ {s} /\ \A t \in DOMAIN dhcp' : dhcp'[t] = dhcp[t]
        /\ own' = [own EXCEPT ![NetworkOf[s]] = @ \ {s}] /\ UNCHANGED <<up, ip>>
    BY <1>1 DEF DeleteSubnet, Drop, Restrict
  <2>2. /\ own' \in [Networks -> SUBSET Subnets]
        /\ \A n \in Networks : own'[n] = IF n = NetworkOf[s] THEN own[n] \ {s} ELSE own[n]
    BY <1>0, <2>1 DEF TablesOK
  <2>3. \A n \in Networks : own'[n] \subseteq Of(n, DOMAIN dhcp')
    BY <1>0, <2>1, <2>2 DEF TablesOK, Of
  <2>4. TablesOK'
    BY <1>0, <2>1, <2>2, <2>3 DEF TablesOK
  <2> DEFINE msg == [method |-> "subnet_delete_end", subnet |-> s]
  <2>5. msg \in Messages
    BY DEF Messages
  <2>6. Notify(msg)
    BY <1>1 DEF DeleteSubnet
  <2>7. QED BY <2>4, <2>5, <2>6, ChangeFacts
<1>2. ASSUME NEW b \in BOOLEAN, PutSubnet(s, b) PROVE IInv'
  <2>1. /\ DOMAIN dhcp' = DOMAIN dhcp \cup {s} /\ dhcp'[s] = b /\ NetworkOf[s] \in DOMAIN up
        /\ \A t \in DOMAIN dhcp : dhcp'[t] \in {dhcp[t], b}
        /\ UNCHANGED <<up, ip, own>>
    BY <1>2 DEF PutSubnet, Put
  <2>2. \A n \in Networks : own'[n] \subseteq Of(n, DOMAIN dhcp')
    BY <1>0, <2>1 DEF TablesOK, Of
  <2>3. TablesOK'
    BY <1>0, <2>1, <2>2 DEF TablesOK
  <2> DEFINE msg == [method |-> "subnet_update_end", network |-> NetworkOf[s]]
  <2>4. msg \in Messages
    BY <1>0 DEF Messages
  <2>5. Notify(msg)
    BY <1>2 DEF PutSubnet
  <2>6. QED BY <2>3, <2>4, <2>5, ChangeFacts
<1>3. QED BY <1>1, <1>2

LEMMA PortStep ==
  ASSUME IInv, NEW p \in Ports, DeletePort(p) \/ \E i \in Ips : PutPort(p, i)
  PROVE  IInv'
<1>0. TablesOK
  BY DEF IInv
<1>1. CASE DeletePort(p)
  <2>1. /\ DOMAIN ip' = DOMAIN ip \ {p} /\ \A q \in DOMAIN ip' : ip'[q] = ip[q]
        /\ UNCHANGED <<up, dhcp, own>>
    BY <1>1 DEF DeletePort, Drop, Restrict
  <2>2. TablesOK'
    BY <1>0, <2>1 DEF TablesOK
  <2> DEFINE msg == [method |-> "port_delete_end", port |-> p]
  <2>3. msg \in Messages
    BY DEF Messages
  <2>4. Notify(msg)
    BY <1>1 DEF DeletePort
  <2>5. QED BY <2>2, <2>3, <2>4, ChangeFacts
<1>2. ASSUME NEW i \in Ips, PutPort(p, i) PROVE IInv'
  <2>1. /\ DOMAIN ip' = DOMAIN ip \cup {p} /\ ip'[p] = i
        /\ \A q \in DOMAIN ip : ip'[q] \in {ip[q], i}
        /\ Of(NetworkOf[p], DOMAIN dhcp) # {} /\ UNCHANGED <<up, dhcp, own>>
    BY <1>2 DEF PutPort, Put
  <2>2. NetworkOf[p] \in DOMAIN up
    BY <1>0, <2>1 DEF TablesOK, Of
  <2>3. TablesOK'
    BY <1>0, <2>1, <2>2 DEF TablesOK
  <2> DEFINE msg == [method |-> "port_update_end", port |-> p, ip |-> i]
  <2>4. msg \in Messages
    BY DEF Messages
  <2>5. Notify(msg)
    BY <1>2 DEF PutPort
  <2>6. QED BY <2>3, <2>4, <2>5, ChangeFacts
<1>3. QED BY <1>1, <1>2

----------------------------------------------------------------------------
(* The handlers. *)

LEMMA BeginFacts ==
  ASSUME NEW net, Whole(net), NEW action, NEW kept \in BOOLEAN,
         action \in {"enable", "restart"} => kept /\ DhcpSubnets(net) # {}, Begin(action, net, kept)
  PROVE  JobOK'
<1>1. job' = [pc |-> "driver", action |-> action, net |-> net, kept |-> kept, then |-> NoJob]
  BY DEF Begin
<1>2. DriverOK(job') /\ job'.pc = "driver"
  BY <1>1 DEF DriverOK
<1>3. QED BY <1>2 DEF JobOK

LEMMA NoJobFacts ==
  ASSUME job' = NoJob
  PROVE  JobOK'
BY DEF NoJob, JobOK

LEMMA AskFacts ==
  ASSUME IInv, NEW n, NEW old, old # None => Whole(old), Ask(n, old)
  PROVE  JobOK' /\ needs_resync' \in BOOLEAN
<1>1. CASE /\ job' = [pc |-> "got", old |-> old, net |-> NetworkInfo(n), id |-> n]
           /\ UNCHANGED <<needs_resync, failures>>
  <2>1. NetworkInfo(n) # None => Whole(NetworkInfo(n))
    BY InfoFacts DEF IInv
  <2>2. QED BY <1>1, <2>1 DEF JobOK, IInv
<1>2. CASE needs_resync' = TRUE /\ job' = NoJob
  BY <1>2, NoJobFacts
<1>3. QED BY <1>1, <1>2 DEF Ask

(* A step of the holder of the lock that leaves the server, the threads    *)
(* and the processes alone.                                                *)
LEMMA LockedFacts ==
  ASSUME IInv, UNCHANGED <<server, threads, dnsmasq>>, inbox' \in Seq(Messages), CacheOK', LookupsCover',
         JobOK', needs_resync' \in BOOLEAN, DOMAIN cache \subseteq DOMAIN cache'
  PROVE  IInv'
<1>1. TablesOK'
  BY DEF IInv, TablesOK, server
<1>2. ProcessesOK' /\ RunningIsKnown'
  BY DEF IInv, ProcessesOK, RunningIsKnown
<1>3. \A net \in threads' : Whole(net) /\ net.up
  BY DEF IInv
<1>4. QED BY <1>1, <1>2, <1>3 DEF IInv

(* A port handler changes the addresses of a network in the cache, and the *)
(* lookups as it does.                                                     *)
LEMMA NewIpFacts ==
  ASSUME IInv, NEW n \in DOMAIN cache, NEW addresses,
         DOMAIN addresses \subseteq Of(n, Ports), Range(addresses) \subseteq Ips,
         cache' = Put(cache, n, [cache[n] EXCEPT !.ip = addresses]),
         lookup' \subseteq Subnets \cup Ports,
         DOMAIN cache[n].dhcp \cup DOMAIN addresses \subseteq lookup',
         \A k \in lookup \ lookup' : NetworkOf[k] = n
  PROVE  /\ CacheOK' /\ LookupsCover' /\ DOMAIN cache' = DOMAIN cache
         /\ Whole([cache[n] EXCEPT !.ip = addresses])
<1> DEFINE net == [cache[n] EXCEPT !.ip = addresses]
<1>0. CacheOK /\ LookupsCover
  BY DEF IInv
<1>1. /\ IsModel(cache[n]) /\ cache[n].id = n
      /\ cache[n] = [id |-> cache[n].id, up |-> cache[n].up, dhcp |-> cache[n].dhcp, ip |-> cache[n].ip,
                     own |-> cache[n].own]
  BY <1>0 DEF CacheOK, Whole
<1>2. net = [id |-> n, up |-> cache[n].up, dhcp |-> cache[n].dhcp, ip |-> addresses, own |-> cache[n].own]
  BY <1>1
<1>3. cache' = Put(cache, n, net)
  OBVIOUS
<1> HIDE DEF net
<1>4. /\ net.id = n /\ net.up = cache[n].up /\ net.dhcp = cache[n].dhcp /\ net.ip = addresses
      /\ net.own = cache[n].own
      /\ net = [id |-> net.id, up |-> net.up, dhcp |-> net.dhcp, ip |-> net.ip, own |-> net.own]
  BY <1>2
<1>5. Whole(net)
  BY <1>1, <1>4 DEF Whole, IsModel
<1>6. Keys(net) \subseteq lookup'
  BY <1>4 DEF Keys
<1>7. DOMAIN cache' = DOMAIN cache /\ cache'[n] = net /\ \A m \in DOMAIN cache : m # n => cache'[m] = cache[m]
  BY <1>3 DEF Put
<1>8. CacheOK'
  BY <1>0, <1>4, <1>5, <1>7 DEF CacheOK
<1>9. \A m \in DOMAIN cache : \A k \in Keys(cache[m]) : NetworkOf[k] = m
  BY <1>0, KeyFacts DEF CacheOK
<1>10. LookupsCover'
  BY <1>0, <1>6, <1>7, <1>9 DEF LookupsCover
<1>11. QED BY <1>5, <1>7, <1>8, <1>10 DEF net

LEMMA HandleStep ==
  ASSUME IInv, Handle
  PROVE  IInv'
<1> DEFINE msg == Head(inbox)
<1>0. TablesOK /\ CacheOK /\ LookupsCover /\ needs_resync \in BOOLEAN
  BY DEF IInv
<1>1. msg \in Messages /\ inbox' \in Seq(Messages) /\ UNCHANGED <<server, threads, dnsmasq>>
  BY DEF IInv, Handle
<1>2. NetworkEnd(msg) \/ SubnetEnd(msg) \/ PortUpdateEnd(msg) \/ PortDeleteEnd(msg)
  BY DEF Handle
<1> HIDE DEF msg
<1>3. \A n \in DOMAIN cache : Whole(cache[n]) /\ cache[n].id = n
  BY <1>0 DEF CacheOK
<1>4. ASSUME Uncached PROVE CacheOK' /\ LookupsCover' /\ DOMAIN cache' = DOMAIN cache
  BY <1>0, <1>4 DEF Uncached, CacheOK, LookupsCover
<1>5. ASSUME Uncached, JobOK', needs_resync' \in BOOLEAN PROVE IInv'
  BY <1>1, <1>4, <1>5, LockedFacts
<1>6. ASSUME NEW n, NEW old, old # None => Whole(old), Ask(n, old), Uncached PROVE IInv'
  BY <1>5, <1>6, AskFacts
<1>7. ASSUME NEW n, RefreshDhcpHelper(n) PROVE IInv'
  <2> DEFINE old == IF n \in DOMAIN cache THEN cache[n] ELSE None
  <2>1. old # None => Whole(old)
    BY <1>3
  <2>2. Ask(n, old) /\ Uncached
    BY <1>7 DEF RefreshDhcpHelper
  <2>3. QED BY <1>6, <2>1, <2>2
<1>8. ASSUME job' = NoJob, Uncached, UNCHANGED needs_resync PROVE IInv'
  BY <1>0, <1>5, <1>8, NoJobFacts
<1>9. CASE NetworkEnd(msg)
  <2>1. CASE EnableDhcpHelper(msg.network)
    BY <1>6, <2>1 DEF EnableDhcpHelper
  <2>2. CASE DisableDhcpHelper(msg.network) /\ Same
    <3>1. Uncached /\ UNCHANGED needs_resync
      BY <2>2 DEF Same, Uncached
    <3>2. CASE msg.network \in DOMAIN cache /\ Begin("disable", cache[msg.network], FALSE)
      <4>1. JobOK'
        BY <1>3, <3>2, BeginFacts
      <4>2. QED BY <1>0, <1>5, <3>1, <4>1
    <3>3. QED BY <1>8, <2>2, <3>1, <3>2 DEF DisableDhcpHelper
  <2>3. QED BY <1>9, <2>1, <2>2 DEF NetworkEnd
<1>10. CASE SubnetEnd(msg)
  <2>1. \/ \E n : RefreshDhcpHelper(n)
        \/ job' = NoJob /\ Same
    BY <1>10 DEF SubnetEnd
  <2>2. QED BY <1>7, <1>8, <2>1 DEF Same, Uncached
<1>11. CASE PortUpdateEnd(msg)
  <2> DEFINE n == NetworkOf[msg.port]
             addresses == Put(cache[n].ip, msg.port, msg.ip)
             net == [cache[n] EXCEPT !.ip = addresses]
  <2>1. CASE n \in DOMAIN cache
    <3>1. /\ cache' = Put(cache, n, net) /\ lookup' = lookup \cup {msg.port}
          /\ Begin("reload_allocations", net, FALSE) /\ UNCHANGED needs_resync
      BY <1>11, <2>1 DEF PortUpdateEnd
    <3>2. msg.port \in Ports /\ msg.ip \in Ips
      BY <1>1, <1>11, MessageFacts DEF PortUpdateEnd
    <3>3. IsModel(cache[n]) /\ cache[n].id = n
      BY <1>3, <2>1 DEF Whole
    <3>4. DOMAIN addresses = DOMAIN cache[n].ip \cup {msg.port} /\ Range(addresses) \subseteq Ips
      BY <3>2, <3>3 DEF Put, Range, IsModel
    <3>5. DOMAIN addresses \subseteq Of(n, Ports)
      BY <3>2, <3>3, <3>4 DEF IsModel, Of
    <3>6. DOMAIN cache[n].dhcp \cup DOMAIN addresses \subseteq lookup'
      BY <1>0, <2>1, <3>1, <3>4 DEF LookupsCover, Keys
    <3>7. lookup' \subseteq Subnets \cup Ports /\ lookup \ lookup' = {}
      BY <1>0, <3>1, <3>2 DEF CacheOK
    <3> HIDE DEF addresses, n
    <3>8. CacheOK' /\ LookupsCover' /\ DOMAIN cache' = DOMAIN cache /\ Whole(net)
      BY <2>1, <3>1, <3>4, <3>5, <3>6, <3>7, NewIpFacts
    <3> HIDE DEF net
    <3>9. JobOK'
      BY <3>1, <3>8, BeginFacts
    <3>10. QED BY <1>0, <1>1, <3>1, <3>8, <3>9, LockedFacts
  <2>2. QED BY <1>8, <1>11, <2>1 DEF PortUpdateEnd
<1>12. CASE PortDeleteEnd(msg)
  <2> DEFINE n == NetworkOf[msg.port]
             addresses == Drop(cache[n].ip, {msg.port})
             net == [cache[n] EXCEPT !.ip = addresses]
  <2>1. CASE msg.port \in lookup /\ n \in DOMAIN cache /\ msg.port \in DOMAIN cache[n].ip
    <3>1. /\ cache' = Put(cache, n, net) /\ lookup' = lookup \ {msg.port}
          /\ Begin("reload_allocations", net, FALSE) /\ UNCHANGED needs_resync
      BY <1>12, <2>1 DEF PortDeleteEnd
    <3>2. msg.port \in Ports
      BY <1>1, <1>12, MessageFacts DEF PortDeleteEnd
    <3>3. IsModel(cache[n]) /\ cache[n].id = n
      BY <1>3, <2>1 DEF Whole
    <3>4. DOMAIN addresses = DOMAIN cache[n].ip \ {msg.port} /\ Range(addresses) \subseteq Ips
      BY <3>3 DEF Drop, Restrict, Range, IsModel
    <3>5. DOMAIN addresses \subseteq Of(n, Ports)
      BY <3>3, <3>4 DEF IsModel
    <3>6. msg.port \notin DOMAIN cache[n].dhcp
      BY <3>2, <3>3, IdsAssumption DEF IsModel, Of
    <3>7. DOMAIN cache[n].dhcp \cup DOMAIN addresses \subseteq lookup'
      BY <1>0, <2>1, <3>1, <3>4, <3>6 DEF LookupsCover, Keys
    <3>8. lookup' \subseteq Subnets \cup Ports /\ \A k \in lookup \ lookup' : NetworkOf[k] = n
      BY <1>0, <3>1 DEF CacheOK
    <3> HIDE DEF addresses, n
    <3>9. CacheOK' /\ LookupsCover' /\ DOMAIN cache' = DOMAIN cache /\ Whole(net)
      BY <2>1, <3>1, <3>4, <3>5, <3>7, <3>8, NewIpFacts
    <3> HIDE DEF net
    <3>10. JobOK'
      BY <3>1, <3>9, BeginFacts
    <3>11. QED BY <1>0, <1>1, <3>1, <3>9, <3>10, LockedFacts
  <2>2. QED BY <1>8, <1>12, <2>1 DEF PortDeleteEnd
<1>13. QED BY <1>2, <1>9, <1>10, <1>11, <1>12

LEMMA AnsweredStep ==
  ASSUME IInv, Answered
  PROVE  IInv'
<1>0. JobOK /\ CacheOK /\ LookupsCover /\ needs_resync \in BOOLEAN /\ inbox \in Seq(Messages)
  BY DEF IInv
<1>1. /\ job.net # None => Whole(job.net)
      /\ job.old # None => Whole(job.old)
  BY <1>0 DEF Answered, JobOK
<1>2. JobOK'
  <2>1. CASE job' = NoJob
    BY <2>1, NoJobFacts
  <2>2. CASE job.net # None /\ Configure(job.net)
    <3>1. CASE DhcpSubnets(job.net) # {} /\ Begin("enable", job.net, TRUE)
      BY <1>1, <2>2, <3>1, BeginFacts
    <3>2. QED BY <2>1, <2>2, <3>1 DEF Configure
  <2>3. CASE job.net # None /\ Refresh(job.old, job.net)
    <3>1. CASE DhcpSubnets(job.net) # {} /\ Begin("reload_allocations", job.net, TRUE)
      BY <1>1, <2>3, <3>1, BeginFacts
    <3>2. CASE DhcpSubnets(job.net) # {} /\ Begin("restart", job.net, TRUE)
      BY <1>1, <2>3, <3>2, BeginFacts
    <3>3. CASE DisableDhcpHelper(job.net.id)
      <4>1. CASE job.net.id \in DOMAIN cache /\ Begin("disable", cache[job.net.id], FALSE)
        BY <1>0, <4>1, BeginFacts DEF CacheOK
      <4>2. QED BY <2>1, <3>3, <4>1 DEF DisableDhcpHelper
    <3>4. QED BY <2>3, <3>1, <3>2, <3>3 DEF Refresh
  <2>4. QED BY <2>1, <2>2, <2>3 DEF Answered
<1>3. UNCHANGED <<server, threads, dnsmasq, inbox, cache, lookup, needs_resync>>
  BY DEF Answered
<1>4. CacheOK' /\ LookupsCover' /\ DOMAIN cache' = DOMAIN cache
  BY <1>0, <1>3 DEF CacheOK, LookupsCover
<1>5. QED BY <1>0, <1>2, <1>3, <1>4, LockedFacts

LEMMA DrivenStep ==
  ASSUME IInv, Driven
  PROVE  IInv'
<1>1. /\ DriverOK(job) /\ CallDriver(job.action, job.net, job.kept, job.then # NoJob)
      /\ job' = job.then /\ UNCHANGED <<up, dhcp, ip, inbox, threads>>
  BY DEF IInv, JobOK, Driven
<1>2. TablesOK' /\ ProcessesOK' /\ CacheOK' /\ LookupsCover' /\ RunningIsKnown' /\ needs_resync' \in BOOLEAN
  BY <1>1, CallDriverFacts DEF DriverOK
<1>3. JobOK'
  <2>1. CASE job.then = NoJob
    BY <1>1, <2>1, NoJobFacts
  <2>2. CASE SyncOK(job.then)
    BY <1>1, <2>2 DEF SyncOK, JobOK
  <2>3. QED BY <1>1, <2>1, <2>2 DEF DriverOK
<1>4. inbox' \in Seq(Messages) /\ \A net \in threads' : Whole(net) /\ net.up
  BY <1>1 DEF IInv
<1>5. QED BY <1>2, <1>3, <1>4 DEF IInv

----------------------------------------------------------------------------
(* The resync. *)

LEMMA SyncStateStep ==
  ASSUME IInv, SyncState
  PROVE  IInv'
<1>1. /\ UNCHANGED <<server, threads, dnsmasq, inbox, cache, lookup>>
      /\ job' = [pc |-> "ask", known |-> DOMAIN cache] /\ needs_resync' \in BOOLEAN
  BY DEF SyncState
<1>2. CacheOK' /\ LookupsCover' /\ DOMAIN cache' = DOMAIN cache /\ inbox' \in Seq(Messages)
  BY <1>1 DEF IInv, CacheOK, LookupsCover
<1>3. JobOK'
  BY <1>1 DEF JobOK
<1>4. QED BY <1>1, <1>2, <1>3, LockedFacts

LEMMA SyncAnsweredStep ==
  ASSUME IInv, SyncAnswered
  PROVE  IInv'
<1>1. UNCHANGED <<server, threads, dnsmasq, inbox, cache, lookup>>
  BY DEF SyncAnswered
<1>2. CacheOK' /\ LookupsCover' /\ DOMAIN cache' = DOMAIN cache /\ inbox' \in Seq(Messages)
  BY <1>1 DEF IInv, CacheOK, LookupsCover
<1>3. JobOK' /\ needs_resync' \in BOOLEAN
  <2>1. CASE needs_resync' = TRUE /\ job' = NoJob
    BY <2>1, NoJobFacts
  <2>2. CASE /\ job' = [pc |-> "sync", active |-> ActiveNetworksInfo,
                        gone |-> job.known \ {net.id : net \in ActiveNetworksInfo}]
             /\ UNCHANGED needs_resync
    <3>1. \A net \in ActiveNetworksInfo : Whole(net) /\ net.up
      BY InfoFacts DEF IInv
    <3>2. job'.active = ActiveNetworksInfo /\ job'.pc = "sync"
      BY <2>2
    <3>3. SyncOK(job')
      BY <2>2, <3>1 DEF SyncOK
    <3>4. QED BY <2>2, <3>2, <3>3 DEF JobOK, IInv
  <2>3. QED BY <2>1, <2>2 DEF SyncAnswered
<1>4. QED BY <1>1, <1>2, <1>3, LockedFacts

LEMMA RestFacts ==
  ASSUME NEW j, NEW active, NEW gone, NEW n, j = [pc |-> "sync", active |-> active, gone |-> gone]
  PROVE  [j EXCEPT !.gone = @ \ {n}] = [pc |-> "sync", active |-> active, gone |-> gone \ {n}]
OBVIOUS

LEMMA SyncDisableStep ==
  ASSUME IInv, NEW n, SyncDisable(n)
  PROVE  IInv'
<1> DEFINE rest == [job EXCEPT !.gone = @ \ {n}]
<1>1. /\ UNCHANGED <<server, threads, dnsmasq, inbox, cache, lookup, needs_resync>>
      /\ job' = IF n \in DOMAIN cache
                THEN [pc |-> "driver", action |-> "disable", net |-> cache[n], kept |-> FALSE, then |-> rest]
                ELSE rest
  BY DEF SyncDisable
<1>2. /\ CacheOK' /\ LookupsCover' /\ DOMAIN cache' = DOMAIN cache /\ inbox' \in Seq(Messages)
      /\ needs_resync' \in BOOLEAN
  BY <1>1 DEF IInv, CacheOK, LookupsCover
<1>3. SyncOK(job)
  BY DEF IInv, JobOK, SyncDisable
<1>4. rest = [pc |-> "sync", active |-> job.active, gone |-> job.gone \ {n}]
  BY <1>3, RestFacts DEF SyncOK
<1>5. SyncOK(rest) /\ rest.pc = "sync"
  BY <1>3, <1>4 DEF SyncOK
<1> HIDE DEF rest
<1>6. JobOK'
  <2>1. CASE n \in DOMAIN cache
    <3>1. job' = [pc |-> "driver", action |-> "disable", net |-> cache[n], kept |-> FALSE, then |-> rest]
      BY <1>1, <2>1
    <3>2. Whole(cache[n])
      BY <2>1 DEF IInv, CacheOK
    <3>3. DriverOK(job') /\ job'.pc = "driver"
      BY <1>5, <3>1, <3>2 DEF DriverOK
    <3>4. QED BY <3>3 DEF JobOK
  <2>2. CASE job' = rest
    BY <1>5, <2>2 DEF JobOK
  <2>3. QED BY <1>1, <2>1, <2>2
<1>7. QED BY <1>1, <1>2, <1>6, LockedFacts

LEMMA SyncSpawnStep ==
  ASSUME IInv, SyncSpawn
  PROVE  IInv'
<1>1. /\ UNCHANGED <<up, dhcp, ip, own, dnsmasq, inbox, cache, lookup, needs_resync>>
      /\ job' = NoJob /\ threads' = threads \cup job.active /\ SyncOK(job)
  BY DEF IInv, JobOK, SyncSpawn, server
<1>2. TablesOK' /\ CacheOK' /\ LookupsCover' /\ ProcessesOK' /\ RunningIsKnown'
  BY <1>1 DEF IInv, TablesOK, CacheOK, LookupsCover, ProcessesOK, RunningIsKnown
<1>3. \A net \in threads' : Whole(net) /\ net.up
  BY <1>1 DEF IInv, SyncOK
<1>4. JobOK' /\ inbox' \in Seq(Messages) /\ needs_resync' \in BOOLEAN
  BY <1>1, NoJobFacts DEF IInv
<1>5. QED BY <1>2, <1>3, <1>4 DEF IInv

LEMMA SafeConfigureStep ==
  ASSUME IInv, NEW net \in threads, SafeConfigure(net)
  PROVE  IInv'
<1>0. Whole(net)
  BY DEF IInv
<1>1. UNCHANGED <<up, dhcp, ip, inbox, job>> /\ threads' = threads \ {net}
  BY DEF SafeConfigure
<1>2. TablesOK' /\ ProcessesOK' /\ CacheOK' /\ LookupsCover' /\ RunningIsKnown' /\ needs_resync' \in BOOLEAN
  <2>1. CASE DhcpSubnets(net) # {} /\ CallDriver("enable", net, TRUE, FALSE)
    BY <1>0, <1>1, <2>1, CallDriverFacts
  <2>2. CASE Same /\ UNCHANGED <<own, dnsmasq>>
    BY <1>1, <2>2 DEF Same, IInv, TablesOK, ProcessesOK, CacheOK, LookupsCover, RunningIsKnown
  <2>3. QED BY <2>1, <2>2 DEF SafeConfigure
<1>3. JobOK' /\ inbox' \in Seq(Messages) /\ \A other \in threads' : Whole(other) /\ other.up
  BY <1>1 DEF IInv, JobOK
<1>4. QED BY <1>2, <1>3 DEF IInv

(* The agent that starts finds each process, and has no keys of it.        *)
LEMMA CrashStep ==
  ASSUME IInv, Crash
  PROVE  IInv'
<1>0. TablesOK /\ ProcessesOK /\ inbox \in Seq(Messages)
  BY DEF IInv
<1>1. /\ UNCHANGED <<up, dhcp, ip, own, dnsmasq>> /\ cache' = Populated /\ lookup' = {}
      /\ job' = NoJob /\ threads' = {} /\ needs_resync' = TRUE
  BY DEF Crash, server
<1>2. inbox' \in Seq(Messages)
  <2>1. PICK lost \in 0 .. Len(inbox) : inbox' = SubSeq(inbox, lost + 1, Len(inbox))
    BY DEF Crash
  <2>2. Len(inbox) \in Nat /\ \A i \in 1 .. Len(inbox) : inbox[i] \in Messages
    BY <1>0, LenProperties, ElementOfSeq
  <2>3. \A i \in (lost + 1) .. Len(inbox) : inbox[i] \in Messages
    BY <2>1, <2>2
  <2>4. QED BY <2>1, <2>2, <2>3, <1>0, SubSeqProperties
<1>3. \A n \in Networks : Whole(Found(n)) /\ Found(n).id = n /\ Keys(Found(n)) = {}
  BY DEF Found, Whole, IsModel, Keys, Empty, Range
<1>4. DOMAIN cache' = DOMAIN dnsmasq /\ \A n \in DOMAIN dnsmasq : n \in Networks /\ cache'[n] = Found(n)
  BY <1>0, <1>1 DEF Populated, ProcessesOK
<1>5. CacheOK' /\ LookupsCover'
  BY <1>1, <1>3, <1>4 DEF CacheOK, LookupsCover
<1>6. TablesOK' /\ ProcessesOK' /\ RunningIsKnown' /\ JobOK'
  BY <1>0, <1>1, <1>4, NoJobFacts DEF TablesOK, ProcessesOK, RunningIsKnown
<1>7. QED BY <1>1, <1>2, <1>5, <1>6 DEF IInv

----------------------------------------------------------------------------
LEMMA Initially ==
  ASSUME Init
  PROVE  IInv
<1>1. TablesOK /\ CacheOK /\ LookupsCover /\ ProcessesOK /\ RunningIsKnown
  BY DEF Init, Empty, TablesOK, CacheOK, LookupsCover, ProcessesOK, RunningIsKnown
<1>2. JobOK
  BY DEF Init, NoJob, JobOK
<1>3. inbox \in Seq(Messages)
  BY DEF Init
<1>4. QED BY <1>1, <1>2, <1>3 DEF Init, IInv

LEMMA Unchanged ==
  ASSUME IInv, UNCHANGED vars
  PROVE  IInv'
BY DEF vars, IInv, TablesOK, CacheOK, LookupsCover, JobOK, ProcessesOK, RunningIsKnown

LEMMA NextStep ==
  ASSUME IInv, Next
  PROVE  IInv'
<1>1. CASE Change
  <2>1. ASSUME NEW n \in Networks, CreateNetwork(n) \/ DeleteNetwork(n) \/ \E b \in BOOLEAN : UpdateNetwork(n, b)
        PROVE IInv'
    BY <2>1, NetworkStep
  <2>2. ASSUME NEW s \in Subnets, DeleteSubnet(s) \/ \E b \in BOOLEAN : PutSubnet(s, b) PROVE IInv'
    BY <2>2, SubnetStep
  <2>3. ASSUME NEW p \in Ports, DeletePort(p) \/ \E i \in Ips : PutPort(p, i) PROVE IInv'
    BY <2>3, PortStep
  <2>4. QED BY <1>1, <2>1, <2>2, <2>3 DEF Change
<1>2. CASE Locked
  BY <1>2, HandleStep, AnsweredStep, DrivenStep, SyncStateStep, SyncAnsweredStep, SyncSpawnStep, SyncDisableStep
     DEF Locked
<1>3. CASE Pool
  BY <1>3, SafeConfigureStep DEF Pool
<1>4. CASE Crash
  BY <1>4, CrashStep
<1>5. QED BY <1>1, <1>2, <1>3, <1>4 DEF Next

(* Whatever the server changes while the agent handles a notification,     *)
(* syncs or configures networks in threads, the inductive invariant holds. *)
THEOREM Invariance == Spec => []IInv
<1>1. Init => IInv
  BY Initially
<1>2. IInv /\ [Next]_vars => IInv'
  BY NextStep, Unchanged
<1>3. QED BY <1>1, <1>2, PTL DEF Spec

(* The tables, what the agent holds of them and the processes it runs are  *)
(* of their types, the agent's DHCP port has addresses on subnets that are *)
(* there, and no process runs without a subnet to serve.                   *)
THEOREM TypeCorrect == Spec => []TypeOK
<1>1. IInv => TypeOK
  BY DEF IInv, TablesOK, CacheOK, JobOK, ProcessesOK, Whole, Of, Range, TypeOK
<1>2. QED BY <1>1, Invariance, PTL

(* put() and remove() of the cache find the keys of what they replace: a   *)
(* handler that gave way in the driver does not leave the lookups without  *)
(* those of a network that is in the cache.                                *)
THEOREM LookupsKept == Spec => []LookupsCover
<1>1. IInv => LookupsCover
  BY DEF IInv
<1>2. QED BY <1>1, Invariance, PTL

(* A dnsmasq process belongs to a network that the agent has in its cache, *)
(* so that it can be stopped: after a driver action that failed, a sync    *)
(* that overlaps a handler, and a restart of the agent.                    *)
THEOREM NoneForgotten == Spec => []RunningIsKnown
<1>1. IInv => RunningIsKnown
  BY DEF IInv
<1>2. QED BY <1>1, Invariance, PTL
=============================================================================
