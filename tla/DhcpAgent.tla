----------------------------- MODULE DhcpAgent -----------------------------
(***************************************************************************)
(* The DHCP agent (neutron/agent/dhcp_agent.py) and the server it follows: *)
(* what the API changes, the notifications it casts (DhcpAgentNotifyAPI),  *)
(* the calls the agent makes (DhcpRpcCallbackMixin), its NetworkCache, and *)
(* the dnsmasq processes its driver keeps (neutron/agent/linux/dhcp.py).   *)
(*                                                                         *)
(* Handlers and sync_state hold the 'dhcp-agent' lock and give way in a    *)
(* call to the server and in the driver; the threads sync_state spawns to  *)
(* configure networks do not hold it.  A driver action takes effect in one *)
(* step, when it ends.  One agent serves every network, with namespaces    *)
(* and without the metadata proxy, as by default.                          *)
(***************************************************************************)
EXTENDS Naturals, Sequences, FiniteSets, Functions

CONSTANTS Networks, Subnets, Ports, Ips,
          NetworkOf,     \* of a subnet or port
          None,
          Failing,       \* what may fail: driver actions, and "call"
          MaxFailures, MaxChanges, MaxCrashes   \* bounds

ASSUME NetworkOfAssumption == NetworkOf \in [Subnets \cup Ports -> Networks]
ASSUME IdsAssumption == Subnets \cap Ports = {}     \* UUIDs: lookup has both
ASSUME NoneAssumption == None \notin Ips
ASSUME FailingAssumption ==
  Failing \subseteq {"call", "enable", "disable", "reload_allocations", "restart",
                     "release_lease"}
ASSUME BoundsAssumption == {MaxFailures, MaxChanges, MaxCrashes} \subseteq Nat

VARIABLES up,        \* the server's networks -> admin_state_up
          dhcp,      \* its subnets -> enable_dhcp
          ip,        \* its ports -> fixed IP
          deleted,   \* ids that were deleted: no id is used twice
          own,       \* network -> the subnets the agent's DHCP port has addresses on
          inbox,     \* notifications the agent has not begun to handle
          cache,     \* NetworkCache.cache
          lookup,    \* the keys of subnet_lookup and port_lookup
          job,       \* what the holder of the lock is at
          threads,   \* the networks sync_state's threads have to configure
          needs_resync,
          dnsmasq,   \* network -> [dhcp, ip] its process runs with
          failures, changes, crashes

server == <<up, dhcp, ip, deleted, own>>
agent == <<cache, lookup, job, threads, needs_resync, dnsmasq>>
vars == <<up, dhcp, ip, deleted, own, inbox, cache, lookup, job, threads, needs_resync, dnsmasq,
          failures, changes, crashes>>

Of(n, X) == {x \in X : NetworkOf[x] = n}
Drop(f, X) == Restrict(f, DOMAIN f \ X)
Put(f, x, v) == [y \in DOMAIN f \cup {x} |-> IF y = x THEN v ELSE f[y]]
Empty == [x \in {} |-> None]

(* A network as the server gives it, or NetModel: its subnets, its ports   *)
(* and its DHCP port. *)
Model(n, subnets) ==
  [id |-> n, up |-> up[n],
   dhcp |-> Restrict(dhcp, subnets),
   ip |-> Restrict(ip, Of(n, DOMAIN ip)),
   own |-> own[n]]

(* get_network_info: every subnet; get_active_networks_info: of the        *)
(* networks that are up, the subnets with DHCP.                            *)
Enabled(n) == {s \in Of(n, DOMAIN dhcp) : dhcp[s]}
NetworkInfo(n) == IF n \in DOMAIN up THEN Model(n, Of(n, DOMAIN dhcp)) ELSE None
ActiveNetworksInfo == {Model(n, Enabled(n)) : n \in {n \in DOMAIN up : up[n]}}

DhcpSubnets(net) == {s \in DOMAIN net.dhcp : net.dhcp[s]}
Keys(net) == DOMAIN net.dhcp \cup DOMAIN net.ip

(* Jobs: none, an answer of get_network_info under way ("got"), a driver   *)
(* action under way ("driver"; then is what comes after it), a sync that   *)
(* asks the server ("ask") and one that has its answer ("sync").           *)
NoJob == [pc |-> "none"]

Init ==
  /\ up = Empty /\ dhcp = Empty /\ ip = Empty /\ deleted = {}
  /\ own = [n \in Networks |-> {}]
  /\ inbox = <<>>
  /\ cache = Empty /\ lookup = {}
  /\ job = NoJob /\ threads = {}
  /\ needs_resync = TRUE
  /\ dnsmasq = Empty
  /\ failures = 0 /\ changes = 0 /\ crashes = 0

----------------------------------------------------------------------------
(* The server.  An API call changes the tables and casts a notification.   *)
Notify(msg) ==
  /\ changes < MaxChanges
  /\ changes' = changes + 1
  /\ inbox' = Append(inbox, msg)
  /\ UNCHANGED <<agent, failures, crashes>>

CreateNetwork(n) ==
  /\ n \notin DOMAIN up \cup deleted
  /\ up' = Put(up, n, TRUE)
  /\ Notify([method |-> "network_create_end", network |-> n])
  /\ UNCHANGED <<dhcp, ip, deleted, own>>

UpdateNetwork(n, admin_state_up) ==
  /\ n \in DOMAIN up
  /\ up' = Put(up, n, admin_state_up)
  /\ Notify([method |-> "network_update_end", network |-> n, up |-> admin_state_up])
  /\ UNCHANGED <<dhcp, ip, deleted, own>>

(* delete_network deletes the subnets and the DHCP port, and refuses when  *)
(* there are other ports.                                                  *)
DeleteNetwork(n) ==
  /\ n \in DOMAIN up
  /\ Of(n, DOMAIN ip) = {}
  /\ up' = Drop(up, {n})
  /\ dhcp' = Drop(dhcp, Of(n, Subnets))
  /\ own' = [own EXCEPT ![n] = {}]
  /\ deleted' = deleted \cup {n} \cup Of(n, DOMAIN dhcp)
  /\ Notify([method |-> "network_delete_end", network |-> n])
  /\ UNCHANGED ip

(* create_subnet and update_subnet. *)
PutSubnet(s, enable_dhcp) ==
  /\ NetworkOf[s] \in DOMAIN up /\ s \notin deleted
  /\ dhcp' = Put(dhcp, s, enable_dhcp)
  /\ Notify([method |-> "subnet_update_end", network |-> NetworkOf[s]])
  /\ UNCHANGED <<up, ip, deleted, own>>

DeleteSubnet(s) ==
  /\ s \in DOMAIN dhcp
  /\ Of(NetworkOf[s], DOMAIN ip) = {}
  /\ dhcp' = Drop(dhcp, {s})
  /\ own' = [own EXCEPT ![NetworkOf[s]] = @ \ {s}]
  /\ deleted' = deleted \cup {s}
  /\ Notify([method |-> "subnet_delete_end", subnet |-> s])
  /\ UNCHANGED <<up, ip>>

(* create_port and update_port, of a port with an address.                 *)
PutPort(p, fixed_ip) ==
  /\ Of(NetworkOf[p], DOMAIN dhcp) # {} /\ p \notin deleted
  /\ ip' = Put(ip, p, fixed_ip)
  /\ Notify([method |-> "port_update_end", port |-> p, ip |-> fixed_ip])
  /\ UNCHANGED <<up, dhcp, deleted, own>>

DeletePort(p) ==
  /\ p \in DOMAIN ip
  /\ ip' = Drop(ip, {p})
  /\ deleted' = deleted \cup {p}
  /\ Notify([method |-> "port_delete_end", port |-> p])
  /\ UNCHANGED <<up, dhcp, own>>

Change ==
  \/ \E n \in Networks : CreateNetwork(n) \/ DeleteNetwork(n)
  \/ \E n \in Networks, b \in BOOLEAN : UpdateNetwork(n, b)
  \/ \E s \in Subnets, b \in BOOLEAN : PutSubnet(s, b)
  \/ \E s \in Subnets : DeleteSubnet(s)
  \/ \E p \in Ports, i \in Ips : PutPort(p, i)
  \/ \E p \in Ports : DeletePort(p)

----------------------------------------------------------------------------
(* NetworkCache. *)

(* Mutant: the keys of the network it replaces stay out of the lookups.    *)
CachePutLoose(net) ==
  /\ cache' = Put(cache, net.id, net)
  /\ lookup' = (lookup \cup Keys(net)) \
                 (IF net.id \in DOMAIN cache THEN Keys(cache[net.id]) ELSE {})

CachePut(net) ==
  /\ cache' = Put(cache, net.id, net)
  /\ lookup' = (lookup \ (IF net.id \in DOMAIN cache THEN Keys(cache[net.id]) ELSE {}))
                 \cup Keys(net)

(* remove() is given what was cached before the driver gave way; it stops  *)
(* at the first key that is gone (KeyError).                               *)
KeyError(net) == net.id \notin DOMAIN cache \/ ~(Keys(net) \subseteq lookup)

CacheRemove(net) ==
  \/ /\ net.id \notin DOMAIN cache
     /\ UNCHANGED <<cache, lookup>>
  \/ /\ net.id \in DOMAIN cache
     /\ cache' = Drop(cache, {net.id})
     /\ \E gone \in SUBSET (Keys(net) \cap lookup) :
          /\ ~KeyError(net) => gone = Keys(net)
          /\ lookup' = lookup \ gone

----------------------------------------------------------------------------
(* The driver. *)
Fails(what) == /\ what \in Failing /\ failures < MaxFailures
               /\ failures' = failures + 1

Kill(n) == dnsmasq' = Drop(dnsmasq, {n})

(* setup_dhcp_port: without a port in net one is created, one that does    *)
(* not cover the subnets is updated; the server refuses when they, or the  *)
(* port, are gone.  Then get_dhcp_port adds what the server has enabled.   *)
Refused(net) ==
  /\ ~(DhcpSubnets(net) \subseteq net.own)
  /\ \/ ~(net.own \cup DhcpSubnets(net) \subseteq DOMAIN dhcp)
     \/ net.own # {} /\ own[net.id] = {}

SetupDhcpPort(net) ==
  IF DhcpSubnets(net) \subseteq net.own THEN own[net.id]
  ELSE IF net.own = {} THEN own[net.id] \cup DhcpSubnets(net) ELSE net.own \cup DhcpSubnets(net)

(* subnets[fixed_ip.subnet_id] of every address of the port.               *)
SetUp(net) ==
  /\ net.id \in DOMAIN up /\ ~Refused(net)
  /\ net.own \subseteq DhcpSubnets(net)

(* enable() of a running process is restart(). *)
Enable(net) ==
  /\ SetUp(net)
  /\ dnsmasq' = Put(dnsmasq, net.id, [dhcp |-> DhcpSubnets(net), ip |-> net.ip])
  /\ own' = [own EXCEPT ![net.id] = SetupDhcpPort(net) \cup Enabled(net.id)]

(* disable() gives the DHCP port back when it kills the process.           *)
Disable(net) ==
  /\ Kill(net.id)
  /\ own' = IF net.id \in DOMAIN dnsmasq THEN [own EXCEPT ![net.id] = {}] ELSE own

Reload(net) ==
  /\ dnsmasq' = IF net.id \in DOMAIN dnsmasq
                THEN [dnsmasq EXCEPT ![net.id].ip = net.ip] ELSE dnsmasq
  /\ own' = [own EXCEPT ![net.id] = @ \cup Enabled(net.id)]

Succeeds(action, net) ==
  \/ action \in {"enable", "restart"} /\ Enable(net)
  \/ action = "disable" /\ Disable(net)
  \/ action = "reload_allocations" /\ DhcpSubnets(net) = {} /\ Disable(net)
  \/ action = "reload_allocations" /\ DhcpSubnets(net) # {} /\ net.id \in DOMAIN up /\ Reload(net)

(* What an enable or restart that fails leaves of the DHCP port.           *)
PortAfter(net) ==
  \/ UNCHANGED own
  \/ /\ net.id \in DOMAIN up /\ ~Refused(net)
     /\ \E more \in {{}, Enabled(net.id)} :
          /\ more # {} => net.own \subseteq DhcpSubnets(net)
          /\ own' = [own EXCEPT ![net.id] = SetupDhcpPort(net) \cup more]

(* An action that fails: by itself, as the server has no such port or      *)
(* network any more, or after all in the release_lease of a port handler.  *)
(* restart() kills the process first, enable() when the port is set up.    *)
Breaks(action, net, kept) ==
  \/ /\ action \in {"enable", "restart"} /\ ~SetUp(net)
     /\ IF action = "restart" THEN Kill(net.id) ELSE UNCHANGED dnsmasq
     /\ PortAfter(net) /\ UNCHANGED failures
  \/ /\ Fails(action) /\ action \in {"enable", "restart"}
     /\ UNCHANGED dnsmasq \/ (Kill(net.id) /\ (action = "restart" \/ SetUp(net)))
     /\ PortAfter(net)
  \/ /\ Fails(action) /\ action \in {"disable", "reload_allocations"}
     /\ UNCHANGED dnsmasq \/ (Kill(net.id) /\ DhcpSubnets(net) = {}) \/ (Kill(net.id) /\ action = "disable")
     /\ UNCHANGED own
  \/ /\ action = "reload_allocations" /\ DhcpSubnets(net) # {} /\ net.id \notin DOMAIN up
     /\ Reload(net) /\ UNCHANGED failures
  \/ /\ action = "reload_allocations" /\ ~kept /\ Fails("release_lease")
     /\ Succeeds(action, net)

(* call_driver, and what its callers do with the cache; kept says that     *)
(* they put the network.                                                   *)
Uncached == UNCHANGED <<cache, lookup>>

(* Mutant: a network that could not be disabled is forgotten all the same. *)
AfterFailureForgets(action, net, kept) ==
  IF action = "disable" THEN CacheRemove(net)
  ELSE IF action = "reload_allocations" /\ kept THEN CachePut(net) ELSE Uncached

AfterFailure(action, net, kept) ==
  IF action = "reload_allocations" /\ kept THEN CachePut(net) ELSE Uncached

CallDriver(action, net, kept, syncing) ==
  \/ /\ Succeeds(action, net)
     /\ IF action = "disable" THEN CacheRemove(net) ELSE IF kept THEN CachePut(net) ELSE Uncached
     /\ needs_resync' = (needs_resync \/ (action = "disable" /\ syncing /\ KeyError(net)))
     /\ UNCHANGED failures
  \/ /\ Breaks(action, net, kept)
     /\ needs_resync' = TRUE
     /\ AfterFailure(action, net, kept)

----------------------------------------------------------------------------
(* The handlers. *)
Idle == job.pc = "none"

Begin(action, net, kept) ==
  job' = [pc |-> "driver", action |-> action, net |-> net, kept |-> kept, then |-> NoJob]

(* safe_get_network_info; old is the network refresh_dhcp_helper found in  *)
(* the cache, and None for enable_dhcp_helper.                             *)
Ask(n, old) ==
  \/ /\ job' = [pc |-> "got", old |-> old, net |-> NetworkInfo(n), id |-> n]
     /\ UNCHANGED <<needs_resync, failures>>
  \/ /\ Fails("call")
     /\ needs_resync' = TRUE
     /\ job' = NoJob

Same == UNCHANGED <<cache, lookup, needs_resync, failures>>

DisableDhcpHelper(n) ==
  IF n \in DOMAIN cache THEN Begin("disable", cache[n], FALSE) ELSE job' = NoJob

EnableDhcpHelper(n) == Ask(n, None) /\ Uncached

RefreshDhcpHelper(n) ==
  /\ Ask(n, IF n \in DOMAIN cache THEN cache[n] ELSE None)
  /\ Uncached

NetworkEnd(msg) ==
  \/ /\ msg.method = "network_create_end" \/ (msg.method = "network_update_end" /\ msg.up)
     /\ EnableDhcpHelper(msg.network)
  \/ /\ msg.method = "network_delete_end" \/ (msg.method = "network_update_end" /\ ~msg.up)
     /\ DisableDhcpHelper(msg.network)
     /\ Same

SubnetEnd(msg) ==
  \/ /\ msg.method = "subnet_update_end"
     /\ RefreshDhcpHelper(msg.network)
  \/ /\ msg.method = "subnet_delete_end"
     /\ LET n == NetworkOf[msg.subnet]
        IN  IF msg.subnet \in lookup /\ n \in DOMAIN cache
            THEN RefreshDhcpHelper(n) ELSE job' = NoJob /\ Same

PortUpdateEnd(msg) ==
  /\ msg.method = "port_update_end"
  /\ LET n == NetworkOf[msg.port]
         net == [cache[n] EXCEPT !.ip = Put(@, msg.port, msg.ip)]
     IN  IF n \in DOMAIN cache
         THEN /\ cache' = Put(cache, n, net)
              /\ lookup' = lookup \cup {msg.port}
              /\ Begin("reload_allocations", net, FALSE)
         ELSE job' = NoJob /\ Uncached
  /\ UNCHANGED <<needs_resync, failures>>

PortDeleteEnd(msg) ==
  /\ msg.method = "port_delete_end"
  /\ LET n == NetworkOf[msg.port]
         net == [cache[n] EXCEPT !.ip = Drop(@, {msg.port})]
     IN  IF msg.port \in lookup /\ n \in DOMAIN cache /\ msg.port \in DOMAIN cache[n].ip
         THEN /\ cache' = Put(cache, n, net)
              /\ lookup' = lookup \ {msg.port}
              /\ Begin("reload_allocations", net, FALSE)
         ELSE job' = NoJob /\ Uncached
  /\ UNCHANGED <<needs_resync, failures>>

Handle ==
  /\ Idle /\ inbox # <<>>
  /\ inbox' = Tail(inbox)
  /\ LET msg == Head(inbox)
     IN  NetworkEnd(msg) \/ SubnetEnd(msg) \/ PortUpdateEnd(msg) \/ PortDeleteEnd(msg)
  /\ UNCHANGED <<server, threads, dnsmasq, changes, crashes>>

(* Mutant: a network is enabled whether or not a subnet has DHCP.          *)
ConfigureAny(net) == IF net.up THEN Begin("enable", net, TRUE) ELSE job' = NoJob

(* configure_dhcp_for_network. *)
Configure(net) ==
  IF net.up /\ DhcpSubnets(net) # {} THEN Begin("enable", net, TRUE) ELSE job' = NoJob

(* Mutant: a network that lost its last DHCP subnet is left alone.         *)
RefreshKeeps(old, net) ==
  LET now == DhcpSubnets(net)
  IN  \/ now # {} /\ DhcpSubnets(old) = now /\ Begin("reload_allocations", net, TRUE)
      \/ now # {} /\ DhcpSubnets(old) # now /\ Begin("restart", net, TRUE)
      \/ now = {} /\ job' = NoJob

(* The rest of refresh_dhcp_helper. *)
Refresh(old, net) ==
  LET now == DhcpSubnets(net)
  IN  \/ now # {} /\ DhcpSubnets(old) = now /\ Begin("reload_allocations", net, TRUE)
      \/ now # {} /\ DhcpSubnets(old) # now /\ Begin("restart", net, TRUE)
      \/ now = {} /\ DisableDhcpHelper(net.id)

(* The server has answered. *)
Answered ==
  /\ job.pc = "got"
  /\ \/ job.net = None /\ job' = NoJob
     \/ job.net # None /\ job.old = None /\ Configure(job.net)
     \/ job.net # None /\ job.old # None /\ Refresh(job.old, job.net)
  /\ UNCHANGED <<server, inbox, cache, lookup, threads, needs_resync, dnsmasq,
                 failures, changes, crashes>>

(* The driver has ended. *)
Driven ==
  /\ job.pc = "driver"
  /\ CallDriver(job.action, job.net, job.kept, job.then # NoJob)
  /\ job' = job.then
  /\ UNCHANGED <<up, dhcp, ip, deleted, inbox, threads, changes, crashes>>

----------------------------------------------------------------------------
(* sync_state: of the networks in the cache before it asks those that are  *)
(* not active are disabled, the active ones are given to threads.  The     *)
(* first sync is that of the start.                                        *)
SyncState ==
  /\ Idle /\ needs_resync
  /\ needs_resync' = FALSE
  /\ job' = [pc |-> "ask", known |-> DOMAIN cache]
  /\ UNCHANGED <<server, inbox, cache, lookup, threads, dnsmasq, failures, changes, crashes>>

SyncAnswered ==
  /\ job.pc = "ask"
  /\ \/ /\ LET active == ActiveNetworksInfo
           IN  job' = [pc |-> "sync", active |-> active,
                       gone |-> job.known \ {net.id : net \in active}]
        /\ UNCHANGED <<needs_resync, failures>>
     \/ /\ Fails("call")
        /\ needs_resync' = TRUE
        /\ job' = NoJob
  /\ UNCHANGED <<server, inbox, cache, lookup, threads, dnsmasq, changes, crashes>>

SyncDisable(n) ==
  /\ job.pc = "sync" /\ n \in job.gone
  /\ LET rest == [job EXCEPT !.gone = @ \ {n}]
     IN  job' = IF n \in DOMAIN cache
                THEN [pc |-> "driver", action |-> "disable", net |-> cache[n],
                      kept |-> FALSE, then |-> rest]
                ELSE rest
  /\ UNCHANGED <<server, inbox, cache, lookup, threads, needs_resync, dnsmasq,
                 failures, changes, crashes>>

SyncSpawn ==
  /\ job.pc = "sync" /\ job.gone = {}
  /\ threads' = threads \cup job.active
  /\ job' = NoJob
  /\ UNCHANGED <<server, inbox, cache, lookup, needs_resync, dnsmasq, failures, changes, crashes>>

(* safe_configure_dhcp_for_network, in a thread of the pool.               *)
SafeConfigure(net) ==
  /\ net \in threads
  /\ threads' = threads \ {net}
  /\ IF DhcpSubnets(net) # {} THEN CallDriver("enable", net, TRUE, FALSE)
                              ELSE Same /\ UNCHANGED <<own, dnsmasq>>
  /\ UNCHANGED <<up, dhcp, ip, deleted, inbox, job, changes, crashes>>

(* The agent is killed and started again.  The processes go on; the        *)
(* notifications it had taken from the queue, waiting for the lock or      *)
(* being handled, are lost.  _populate_networks_cache puts networks        *)
(* without subnets and ports for the processes it finds.                   *)
Found(n) == [id |-> n, up |-> FALSE, dhcp |-> Empty, ip |-> Empty, own |-> {}]

(* Mutant: the agent starts with an empty cache.                           *)
PopulatedNone == Empty

Populated == [n \in DOMAIN dnsmasq |-> Found(n)]

Crash ==
  /\ crashes < MaxCrashes
  /\ crashes' = crashes + 1
  /\ \E lost \in 0 .. Len(inbox) : inbox' = SubSeq(inbox, lost + 1, Len(inbox))
  /\ cache' = Populated
  /\ lookup' = {}
  /\ job' = NoJob /\ threads' = {}
  /\ needs_resync' = TRUE
  /\ UNCHANGED <<server, dnsmasq, failures, changes>>

----------------------------------------------------------------------------
Locked == Handle \/ Answered \/ Driven \/ SyncState \/ SyncAnswered \/ SyncSpawn \/ \E n \in Networks : SyncDisable(n)
Pool == \E net \in threads : SafeConfigure(net)

Next == Change \/ Locked \/ Pool \/ Crash
Spec == Init /\ [][Next]_vars

(* Greenthreads that can go on do, and calls and driver actions end.       *)
FairSpec == Spec /\ WF_vars(Locked) /\ WF_vars(Pool)

----------------------------------------------------------------------------
IsModel(net) ==
  /\ net.id \in Networks /\ net.up \in BOOLEAN
  /\ DOMAIN net.dhcp \subseteq Of(net.id, Subnets) /\ Range(net.dhcp) \subseteq BOOLEAN
  /\ DOMAIN net.ip \subseteq Of(net.id, Ports) /\ Range(net.ip) \subseteq Ips
  /\ net.own \subseteq Of(net.id, Subnets)

TypeOK ==
  /\ DOMAIN up \subseteq Networks /\ Range(up) \subseteq BOOLEAN
  /\ \A s \in DOMAIN dhcp : NetworkOf[s] \in DOMAIN up /\ dhcp[s] \in BOOLEAN
  /\ \A p \in DOMAIN ip : NetworkOf[p] \in DOMAIN up /\ ip[p] \in Ips
  /\ own \in [Networks -> SUBSET DOMAIN dhcp]
  /\ \A n \in DOMAIN cache : IsModel(cache[n]) /\ cache[n].id = n
  /\ lookup \subseteq Subnets \cup Ports
  /\ job.pc \in {"none", "got", "driver", "ask", "sync"}
  /\ \A net \in threads : IsModel(net) /\ net.up
  /\ needs_resync \in BOOLEAN
  /\ \A n \in DOMAIN dnsmasq : n \in Networks /\ dnsmasq[n].dhcp # {}

(* What the cache has of a network its lookups have: put() can remove the  *)
(* network it replaces without a KeyError, and the deletion of a subnet or *)
(* port in the cache finds its network, whatever sync threads put there    *)
(* while a handler was in the driver.                                      *)
LookupsCover == \A n \in DOMAIN cache : Keys(cache[n]) \subseteq lookup

(* A dnsmasq process is that of a network in the cache: no handler and no  *)
(* sync could stop another one.                                            *)
RunningIsKnown == DOMAIN dnsmasq \subseteq DOMAIN cache

(* The subnets a network is to be served with: none unless it is up.       *)
ToServe(n) == IF n \in DOMAIN up /\ up[n] THEN Enabled(n) ELSE {}

Served(n) == IF n \in DOMAIN dnsmasq THEN dnsmasq[n] ELSE None
AsServer(n) == [dhcp |-> ToServe(n), ip |-> Restrict(ip, Of(n, DOMAIN ip))]

(* Every network is served as the server has it, by an agent with an       *)
(* address of its own on each subnet; one that is not to be served has no  *)
(* process.                                                                *)
Converged ==
  \A n \in Networks :
    /\ Served(n) = IF ToServe(n) = {} THEN None ELSE AsServer(n)
    /\ ToServe(n) \subseteq own[n]

(* Of a sync: notifications and handlers stay out of its way.              *)
Syncing == threads # {} \/ job.pc \in {"ask", "sync"} \/ (job.pc = "driver" /\ job.then # NoJob)
Quiet == Syncing => inbox = <<>>

NoMishap == failures = 0 /\ crashes = 0
OneSubnet == \A s, t \in DOMAIN dhcp : NetworkOf[s] = NetworkOf[t] => s = t
KeepsDhcp == /\ \A s \in DOMAIN dhcp : dhcp[s]
             /\ \A s \in deleted \cap Subnets : NetworkOf[s] \in deleted

(* The agent follows the server: after its last change the handlers have   *)
(* brought every network to what the server says, whatever they fetched    *)
(* before or after it.  Of networks with a subnet at a time, without       *)
(* failures, and when syncs are quiet.                                     *)
Follows == [](Quiet /\ NoMishap /\ OneSubnet) => <>[]Converged

(* The agent recovers: a resync makes good for a call or driver action     *)
(* that failed and for the notifications a restart lost.  Of subnets that  *)
(* keep DHCP as long as their network lives, and when syncs are quiet.     *)
Recovers == [](Quiet /\ KeepsDhcp) => <>[]Converged
=============================================================================
