# Neutron (Havana): a TLA+ verification project

This directory models parts of Neutron, the network service of OpenStack, as it is in this repository
(`src/neutron`, with the PLUMgrid and other plugins). It holds TLA+ modules, TLC configurations and
TLAPS proofs. `PROJECT.json` is the index: components, runs, mutants, the map from definitions to source
lines, findings, hazards and theorems.

Run everything from this directory: `tlc -workers 2 -config X.cfg M` for a run, `tlapm M.tla` for a proof.

## 1. The system

One *server* answers the API. A plugin, mostly built on `NeutronDbPluginV2`, keeps networks, subnets and
ports in a database, and the API layer casts a notification after each call. *Agents* on the hosts follow
the notifications and make the host agree with the database: DHCP processes, routers, switch flows. Vendor
plugins drive controllers outside the repository, some in background tasks.

```
 API worker -> api/v2/base.py -> plugin (db_base_plugin_v2 + mixins) -> database
      |                             |-> vendor driver -> task manager -> vShield Manager
      | cast / fanout               |
      v                             v  RPC calls (get_network_info, create_dhcp_port, ...)
  DHCP agent    L3 agent    OVS / Linux bridge agent    metadata agent
      |             |               |
  dnsmasq       namespaces      switch flows
```

### Inventory

| Component | State | Operations | What is hard | What makes it correct |
|---|---|---|---|---|
| IP availability (`db/db_base_plugin_v2.py`) | rows of `ipavailabilityranges`, `ipallocations` | `_generate_ip`, `_allocate_specific_ip`, `_recycle_ip` | splitting and joining of ranges in long sequences; pools without a range left; addresses outside the pools | no address leaks or is offered twice; ranges stay apart |
| Core plugin (same file) | networks, subnets, ports, allocations | create, update, delete of each | queries scoped to the caller; several fixed IPs in a call; update recycles before it allocates; cascades | allocations resolve; addresses and MACs unique per network; gateway not handed out; tenants' ports survive deletions |
| vShield task manager (`plugins/nicira/vshield/tasks`) | a queue, a deque per resource, tasks and who waits for them | `add`, `wait`, `stop`, `start`, `run`, the looping call | three kinds of greenthread; `stop` kills one anywhere | one task at a time and in order for a resource; nobody waits for ever; `stop` returns and finishes all |
| DHCP agent (`agent/dhcp_agent.py`, `agent/linux/dhcp.py`) | `NetworkCache`, `needs_resync`, dnsmasq processes, files | seven notifications, `sync_state`, periodic resync, start | sync threads run outside the lock; failed calls; restart with live processes; stale snapshots | cache consistent; no process forgotten; in the end it serves what the database says |
| DHCP / L3 schedulers, agent registry (`db/agents_db.py`, `db/agentschedulers_db.py`, `scheduler/`) | bindings of networks and routers to agents; heartbeats | `schedule`, `auto_schedule`, add, remove, `report_state` | concurrent schedulers; agents that die | at most `dhcp_agents_per_network` bindings; each network is bound in the end |
| L3 agent (`agent/l3_agent.py`) | `router_info`, `updated_routers`, `removed_routers`, `fullsync` | notifications, `_rpc_loop`, `_sync_routers_task` | two loops drain shared sets; a flag set while a sync is under way | namespaces follow the database |
| Routers, floating IPs (`db/l3_db.py`) | routers, their ports, floating IPs | interfaces, gateways, association | spans several transactions | a floating IP maps to one fixed IP |
| ML2 (`plugins/ml2`) | segments, VLAN/tunnel allocations, bindings | network and port calls with mechanism drivers, type drivers | drivers fail after the commit; reconfigured ranges; port status from agents | a segment is allocated to one network; none leaks |
| OVS agent (`plugins/openvswitch/agent`) | `local_vlan_map`, `available_local_vlans`, tunnels | port and tunnel notifications, `rpc_loop` | polling against notifications; full resync | one local VLAN per network, given back after the last port |
| Linux bridge agent | the same with bridges | the same | the same | the same |
| Security groups (`db/securitygroups*`, `agent/*iptables*`) | rules, filters, refresh flags | rule and member updates | deferred refreshes | filters follow the rules |
| LBaaS, FWaaS, VPNaaS, metering (`services/`, `db/*`) | objects with a status | CRUD, status reports by agents | delete against a late status | no object resurrected |
| Nicira NVP (`plugins/nicira`) | cached states, connection pool | `_synchronize_state`, `acquire`/`release` | chunks against concurrent calls; connections that expire | status converges; connections not lost |
| API, policy, quotas, metadata proxy, other vendor plugins, `openstack/common`, migrations | little or external | | request handling, adapters, copied library code | |

`PROJECT.json` lists every hazard at the line where it bites, and which property would notice.

## 2. Plan

| | Module | Composition | State |
|---|---|---|---|
| 1 | `AddressPool` | abstract: what one subnet's allocation promises | done |
| 2 | `Subnetting` | address arithmetic, used by 3 and 4 | done |
| 3 | `IpAvailability` | ranges of one subnet; implements 1 | done, proved |
| 4 | `CorePlugin` | all tables; takes ranges as the sets that 3 implements | done, proved |
| 5 | `TaskManager` | alone | done, proved |
| 6 | `DhcpAgent` | agent, its server, the casts between them | done, proved |
| 7 | `L3Router` | routers, gateways, interfaces, routes and floating IPs, one call a step | done, proved |
| 8 | `L3Scheduler` | bindings of routers to agents, the casts to them | done, proved with 9 |
| 9 | `L3Agent` | the agents; extends 8 | done, proved |
| 10 | `Ml2Segments` | allocation tables of the type drivers and the networks that use them | done, proved |
| 11 | `OvsAgent` | agent, bridges, the plugin's device calls, the casts between them | done, proved |
| 12 | proofs about 5 to 11 | one module each, over the component's | done |
| 13 | DHCP scheduler; mechanism drivers and port binding over 10; concurrent transactions over 3 | | later |
| 14 | NVP synchroniser, connection pool; load balancer status | | as time allows |

Each component has one safety run with failures, which states its liveness too where its loops justify
fairness. "Proved" means that every safety property its passing runs check, invariants and action properties,
is a theorem of its specification (section 5).

## 3. The modules

### `AddressPool`, `Subnetting`, `IpAvailability`

Addresses are numbers, and a CIDR is the interval of its network and broadcast address. A row of
`ipavailabilityranges` is a record `[pool, first, last]`; `allocated` are the addresses of `ipallocations`.
`GenerateIp`, `AllocateSpecificIp` and `RecycleIp` are the helpers of the same names, each inside one
transaction with its rows locked (`with_lockmode('update')`). The query of `_generate_ip` has no order, so
`GenerateIp` picks any range and takes its first address. `Without` is the delete/trim/split by cases of
`_allocate_specific_ip`, written as the nonempty ones of two pieces. `Joined` is the four-way join of
`_recycle_ip`.

`AddressPool` says what that is for: a set of offered addresses and one of addresses in use.
`IpAvailability` implements it with `offered <- UNION` of the ranges.

`Subnetting` has the arithmetic: usable addresses, valid allocation pools, and the default pools on both
sides of the gateway.

### `CorePlugin`

One action per API call of networks, subnets and ports: `CreateNetwork` ... `DeletePort`. A call is one
transaction, so one step; a call that raises rolls back and is no step. `ctx` is the caller: `Owns` and
`Sees` are the scope `_model_query` gives a query, and the guards with "policy" comments are rules of
`etc/policy.json`. `available` is the set of addresses of a subnet's ranges (what `IpAvailability` shows it
is). The requests a caller can make are constants (`Cidrs`, `GatewayIps`, `PoolLists`, `FixedIpLists`).

`Requested` and `Automatic` give all grants `_allocate_ips_for_port` can return: a grant is a function from
the position in the request (or the IP version) to an address. `UpdatePort` keeps what is named again,
recycles the others and then allocates, in this order. `SubnetInUse` keeps the effect of the join in
`delete_subnet`: its filter selects ports of the network, not allocations of the subnet.

Left out: bulk creation (the same creations in one transaction), name servers, host routes, names and
`admin_state_up`, none of which these tables' properties depend on. Row ids may be used again in the model;
nothing refers to an id after its deletion (`AllocationsResolve`), so this only adds behaviours.

### `TaskManager`

The manager's queues are shared by greenthreads, which give way only where they block, in callbacks and on
events. A step is what a greenthread does between two such places, and `main` and `monitor` say where the
two threads block. `queue` is `_tasks_queue`, `tasks` the dictionary of deques (`_tasks`), `events[t]` the
states somebody waits for (`Task._states`). `main` at `execute` is `_main_thread_exec_task`.

| Action | Code |
|---|---|
| `Add`, `Wait` | `add()`, `Task.wait()` |
| `GetTask`, `MainExecuted`, `MainResult`, `Leave`, `Loop` | `run()` with `_get_task`, `_execute`, `_result` |
| `Check`, `CheckNext`, `Checked`, `MonitorResult`, `MonitorExecuted` | `_check_pending_tasks`, `_dequeue` |
| `Abort`, `AbortNext`, `AbortResult` | `_abort()` |
| `Stop`, `Killed`, `Start` | `stop()`: kill where it blocks, or a callback that swallows the kill; `start()` |

External: the callbacks. They return any status or raise (`Returned`).

### `DhcpAgent`

The module composes the server (its tables and the API calls that change them, `Change`), the queue of
notifications (`inbox`), the agent and its processes.

| State | Code |
|---|---|
| `up`, `dhcp`, `ip`, `deleted` | networks, subnets and ports of the database; ids are never used again |
| `own[n]` | the subnets on which the agent's DHCP port of `n` has addresses |
| `cache`, `lookup` | `NetworkCache.cache`; the keys of `subnet_lookup` and `port_lookup` |
| `job` | what the holder of the `'dhcp-agent'` lock is doing |
| `threads` | the networks the GreenPool of `sync_state` still configures |
| `dnsmasq` | network -> subnets and hosts its process runs with |

A handler is three steps: it takes the message (`Handle`), it gets the server's answer (`Answered`), and its
driver action ends (`Driven`); the server's tables, and the sync threads, may change things in between. The
answer is the snapshot the server made when it was asked. `sync_state` reads the cache (`SyncState`), gets
its snapshot (`SyncAnswered`), disables what is not active (`SyncDisable`, each with `Driven`), and spawns
(`SyncSpawn`). Each thread is one `SafeConfigure`, outside the lock. `Crash` restarts the agent: it loses
notifications it had taken, finds processes and puts networks without subnets into the cache.

The driver keeps what decides about later states: whether the process lives, with what, and what addresses
the DHCP port has after `setup_dhcp_port` (created, updated, or `KeyError`) and `get_dhcp_port` (called for
the default route, covers what the server has enabled). A failed action may have killed the process
before, and may have changed the port.

Left out: the metadata proxy (off by default), the files written for dnsmasq, state reports, and
scheduling: one agent serves every network, as with plugins that have no agent scheduler. Two DHCP ports
of one network are not told apart.

### `L3Router`

One action per call of the router service on routers, their interfaces and gateways, extra routes and
floating IPs, and the two calls of the core plugin that end in its hooks: `DeletePort` (ML2's, which clears
floating IPs) and `UpdateExternal` (`router:external` of a network). A call is one step. `last` is the
outcome of the last one: whether it was accepted, and which routers' agents it told.

| State | Code |
|---|---|
| `routers`, `ports`, `fips` | the tables `routers`, `ports` (with owner, device and fixed IPs) and `floatingips` |
| `external` | the rows of `externalnetworks` |

`update_router` of `ExtraRoute_db_mixin` stores the routes in a transaction of its own before the gateway is
looked at: `UpdateRouter` has the outcome in which the routes stay and the call is refused. Two subnets
overlap when `CidrOf` says they are the same. Which address a new port gets is left open among the free ones;
how it is found is `CorePlugin`'s part. Left out: changes of router ports by `update_port`, the SNAT flag of
a gateway, and overlapping calls.

### `L3Scheduler` and `L3Agent`

`L3Scheduler` is the server's side: what routers have (`routers`), the rows of `RouterL3AgentBinding`
(`bound`), agents that are enabled and seem alive, and the casts (`inbox`, a bag for each host: handlers run
as greenthreads of their own, in any order). Every call is one step. `Hosting` keeps what the query does:
`admin_state_up` is filtered on a table nothing joins, so that a binding passes if any agent is enabled.

`L3Agent` extends it with the agents. A handler only adds to `updated_routers`, `removed_routers` or sets
`fullsync`. `_rpc_loop` and `_sync_routers_task` exclude each other by the `'l3-agent'` lock; `job[h]` is where
its holder is: in the call to the server (`ask`), before `_process_routers` (`process`), or in
`_process_router_delete` (`delete`).

| Action | Code |
|---|---|
| `Handle` | `routers_updated`, `router_deleted`, `agent_updated`, ... |
| `RpcLoop`, `SyncRoutersTask` | the two loops up to their call |
| `Answered` | `sync_routers` on the server with `auto_schedule_routers`; or a call that fails |
| `ProcessRouters` | `_process_routers` with `process_router` and `_router_removed`; the threads of the pool work on different routers and are one step |
| `ProcessRouterDelete` | one router of `_process_router_delete` |
| `Crash` | a restart, which destroys the namespaces |

`info[h][r]` is the `RouterInfo`: internal ports, gateway, and the devices that are really plugged. Left out:
floating IP addresses, NAT rules, routes and the metadata proxy of a router.

### `Ml2Segments`

`rows` is the union of the drivers' tables: a segment that is in the table, and whether it is allocated.
`networks` has the segments of each network. `Restart` is a start of the server with another configuration
(`_sync_vlan_allocations`, `_sync_gre_allocations`, ...); `CreateProviderNetwork`, `CreateTenantNetwork` and
`DeleteNetwork` are the calls, a transaction each. GRE and VXLAN have the same code over other names and are
one type, `tunnel`. `Kept` says which rows survive a release: for tunnels it follows the loop, which deletes
the row at the first range that does not hold the id.

Left out: mechanism drivers. One that fails after the commit makes the plugin call `delete_network`, which is
an action here.

### `OvsAgent`

The agent of one host, the bridges, and the plugin's side of its calls. A greenthread (`Loop`, which is
`rpc_loop`, or one of `Workers`, the handlers at work) gives way in calls and in commands; `job[t]` is what it
does next. The lookups and updates of `local_vlan_map` between two of these are one step.

| State | Code |
|---|---|
| `tag` | the devices on the integration bridge, with their VLAN tags |
| `inbound`, `outbound` | the two flows of a network that `provision_local_vlan` adds |
| `available_local_vlans`, `local_vlan_map` | the same; a mapping has its VLAN and `vif_ports` |
| `ports`, `sync`, `scan` | the variables of `rpc_loop`, and what `update_ports` found and is not treated yet |

| Action | Code |
|---|---|
| `Poll`, `DeviceAdded`, `DeviceRemoved`, `Polled` | a round of `rpc_loop`: `update_ports`, a call for each device, the end |
| `Treat`, `Flows`, `Tag` | `treat_vif_port` with `port_bound` and `provision_local_vlan`, or `port_dead` |
| `Unbind`, `Reclaimed` | `port_unbound` and `reclaim_local_vlan`, before and after its commands |
| `Report` | `update_device_up` or `update_device_down` at the end of either path |
| `Handle` | `port_update` and `network_delete` |
| `Crash` | a restart: flows and maps are gone, tags stay |

`Faults` says what may fail: calls, commands (`ovs-vsctl` then lists nothing), the agent itself. Left out: tunnel
ports, `tunnel_sync`, l2 population, ancillary bridges, security groups, the drop flow of a dead port (its
tag stands for both).

## 4. The runs

| Run | Instance | What it asks | Why the bounds are enough |
|---|---|---|---|
| `availability` | a /28, pools 2-5, 6-7 and 9 | partition, apartness, refinement of `AddressPool` | two pools that touch show a join across the border, the pool of one address shows a range that vanishes, a pool of four all of trim, split and the four joins; the other addresses are in no pool |
| `core_addresses` | one network, an IPv4 and an IPv6 subnet, two ports, five requests | partition, dangling rows, uniqueness, gateway | both versions, two pools, requests by address, by subnet, by both, two at a time and outside the pools |
| `core_tenants` | two networks, two tenants and an admin, small subnets | MAC, sharing, deletions that take only auto-deleted ports | a foreign and an own network, shared and not; ports of both owners |
| `tasks_order` | three tasks of one edge, one of another, one stop, then restarts | order, exclusion, waiters, abort | a running task, a next one and one behind that; a second resource to be checked in the same round |
| `tasks_live` | two and one tasks, one stop | every task comes to its result unless there is a stop; `stop()` returns | a queue and a parallel task; the stop finds either thread at every place |
| `dhcp_agent` | a network, two subnets, a port with two addresses; four changes, one failure of any kind, one restart | cache and lookups agree; no forgotten process; `Follows` and `Recovers` | two syncs and a handler overlap; a replaced network differs in both kinds of key; four changes are a network, a subnet, a port and its update, deletion or the end of DHCP; the failure and the restart land on every step |
| `l3_routers` | two routers, two subnets of a network, an external network, a subnet that overlaps its; a port of up to two addresses, a floating IP | `FipsConnected`, `RouterSubnetsApart`, `L3PortsOwned`, `RoutesKept`, `ChangesTold` | a floating IP moves between two routers and two addresses; each router can be given each subnet, in either order with the gateway |
| `l3_fips` | one router, one port, two floating IPs | *violated*, see section 6 | |
| `l3_agents` | two agents, one router with an interface and two gateways; two changes, two faults of different kinds at one host | `OneHost`, `Follows`, `Withdrawn` | the router goes from one host to the other and changes on the way; a lapsed heartbeat, a lost call, a failed command and a restart land on every step |
| `ml2_segments` | three networks, a physical network, three ids, three configurations; provider networks of up to two segments | `SegmentsAccounted`, `VlansFree` | the configurations have two ranges, one that overlaps them in part, and none; ids 1 to 3 are in, out and between |
| `ml2_tunnels` | the same | *violated*, see section 6 | |
| `ovs_agent` | two ports of one network, a second network without ports, two local VLANs, one handler at a time; four changes, one fault | `VlansApart`, `Follows` | four changes are the plugging of both ports and their unplugging, an update or a deletion; a VLAN is reclaimed and given to the network again; the fault lands on every call |

Bounds are constants with names: `MaxStops`, `MaxFailures`, `MaxChanges`, `MaxCrashes`, `MaxFaults`,
`MaxSegments`; the sets of ids bound the rest. Deadlock is checked in the `availability`, `core_*`, `l3_routers`,
`ml2_segments` and `ovs_agent` runs (the polling loop of the last never rests). The other systems come to rest
when nobody calls them, so their configurations switch it off. `tasks_order`, `l3_routers`, `ml2_segments` and
the `core_*` runs use symmetry in names of tasks, ports, MAC addresses, routers, hosts or networks, which
their safety properties do not tell apart; runs with liveness use none.

Every property of a passing run has a mutant (a definition with a comment that starts with "Mutant:"): a
plausible bug in one definition, with which TLC finds the property violated. The mutants are not part of any
specification.

### Fairness

- `TaskManager`: weak fairness of the task thread and of the monitor, since the eventlet hub runs every
  greenthread that is ready and callbacks end (requests have timeouts). Strong fairness of "the status
  callback of `t` says it is finished": an assumption about the vShield Manager, without which a task is
  pending for ever. API workers and `stop` have none.
- `DhcpAgent`: weak fairness of the lock holder and of the pool. Calls end by a timeout, driver actions are
  commands that end, and the periodic resync comes again. Changes, failures and crashes have none and are
  bounded, so "eventually" means after the last of them.
- `L3Agent`: weak fairness of what an agent does: the loops are periodic, calls end by a timeout, commands end.
- `OvsAgent`: weak fairness of `rpc_loop` and of each handler, for the same reasons. What nova plugs, API
  calls, failures and restarts have none.

### Hypotheses of the DHCP liveness properties

`Follows` and `Recovers` have hypotheses, each a state predicate that is to hold all along:

- `Quiet`: no notification waits while a sync is at work. The code does not ensure it: syncs come every
  `resync_interval` seconds, and their threads run outside the lock with a snapshot. Without `Quiet`, TLC
  finds runs in which a thread of a sync ends after the handler of a newer notification and puts the older
  hosts and cache entry back; `needs_resync` stays off, and nothing repairs it before the next change.
- `OneSubnet` (in `Follows`): without it, TLC finds that when one of two subnets loses DHCP `setup_dhcp_port`
  raises `KeyError` at every attempt, after dnsmasq was killed (section 6).
- `KeepsDhcp` (in `Recovers`): no subnet loses DHCP or is deleted while its network lives. Without it, a
  failed `get_network_info` in the handler of such a change, or a restart that loses the notification, is not
  made good: `sync_state` does not disable the network, for it is active, and
  `configure_dhcp_for_network` does nothing, for it has no subnet with DHCP.

So `Follows` shows that handlers keep up with changes in whatever order snapshots, queued notifications and
driver actions meet, and `Recovers` that the resync repairs what failed or was lost. The safety invariants
have no hypothesis.

### Hypotheses of the L3 agents' liveness properties

`Follows` (each host ends up with the routers the server gives it) assumes all along (`Orderly`) what the code
does not ensure; without any one of them TLC finds a host that stays wrong:

- `NoReturn`: no router is given to a host that still has to remove it. `_rpc_loop` sets up what was updated
  before it deletes what was removed, whatever came first;
- `KeptUp`: a router that is set up is not set down. Its notification makes the agent remove it, and the
  next one adds it again only if it is sent to this host;
- `GatewayKept`: a gateway is cleared before another is set: with another one at once, `process_router` fails
  on the device that is not there;
- `NoToggle`: no `agent_updated` waits while a sync processes routers: the end of the sync clears the
  `fullsync` it sets.

Both assume that the faults were lost calls, restarts and, for `Withdrawn`, failing deletions: a command that
fails in `process_router`, or the missing external bridge, is logged and never repeated, and a notification is
cast only to hosts whose agent seems alive, so a lapsed heartbeat loses it. `Withdrawn` (a router
that is taken from a host for good goes from it) needs no other hypothesis, and `OneHost` none at all.

### Hypotheses of the OVS agent's liveness property

`Follows` (a device that stays plugged gets its network's VLAN, or the dead one) assumes (`Orderly`) that no two
greenthreads wire one device at once, that `rpc_loop` does not wire it with details older than a waiting
`port_update`, and that no VLAN of a network is reclaimed while a greenthread provisions one for it. Without
the last, TLC finds both a handler whose lookup after `provision_local_vlan` raises `KeyError`, and a reclaim
whose `delete_flows` takes the inbound flow of the new VLAN. It also assumes that a device does not go and
come back between two polls (`Plug`): the sets are the same, and `rpc_loop` sees nothing. The status the
server shows is not part of it: a report that is lost in a handler is logged and not repeated. `VlansApart` has
no hypothesis.

## 5. The proofs

`IpAvailabilityProofs` proves, for every CIDR and every set of valid pools (`CidrAssumption`,
`PoolsAssumption`): the type invariant, `PoolPartition`, `MaximalRuns`, and that the ranges implement
`AddressPool` (`Refinement`). The inductive invariant is the conjunction of the three. None is inductive
alone: the partition is kept by a join only if at most one range ends before and one starts after the
address (`MaximalRuns`), and apartness only if the address is in no range (`PoolPartition`). `WithoutFacts`
says what a range without an address covers, `JoinedFacts` the same for a join; `TakingPreserves` and
`RecyclingPreserves` are the two kinds of step.

`CorePluginProofs` proves, for every set of ids, tenants, callers and requests (`NamesAssumption`), and both
settings of the two options: `TypeOK`, `PoolPartition`, `AllocationsResolve`, `AddressesUnique`,
`GatewayNotOffered`. The inductive invariant adds to these `OneHolder` (an address of a subnet has one row,
the primary key), `CidrsDisjoint` (of a network) and `PoolsOnSubnet`. The last two are what
`AddressesUnique` rests on: two rows with one address on a network lie in one CIDR, so in one subnet, so
are one row. `RequestedFacts` and `AutomaticFacts` reduce every way of choosing addresses to `GoodGrant`,
from which `AllocateFacts` follows once for `create_port` and `update_port`; there is one `...Step` lemma for
each action.

A second invariant, `RowsAgree` (`MacsUnique`, `SharedAgrees`, `PortsResolve`: a port is on a network that
exists), is kept by every step from a state of the first; its step lemmas are the `...Rows`. The action
property `TenantPortsSurvive` follows from both: a network that goes took a port along only by
`delete_network`, which saw it (`PortsResolve`), and an address that goes with its subnet was of a port of
that subnet's network (`AllocationsResolve`), which `delete_subnet` looked at.

`TaskManagerProofs` proves, for all tasks, resources and numbers of stops: `TypeOK`, `OnlyFirstPending`,
`OneAtATime`, `WaitersAhead`, `StopAborts`, and the action properties `InOrder` and `ResultIsLast`. Of the
invariants only `TypeOK` and `WaitersAhead` are part of the inductive one, which says where every task is and
why: `QueueOK` (the queue is the last part of what was added, each task once), `DequesOK` (a deque has tasks of
its resource, in the order of `add`), `FreshOK` and `StartedOK` (which tasks have been started), `MainOK` and `MonitorOK` (what
each thread holds: the one in `run()` has a task whose resource has no deque, the monitor has the first of a deque,
so `OneAtATime`), and `Placed` (a task that was added is in the queue, in its deque, in the hands of `run()`, or
finished, so `StopAborts`). `InOrder` then compares places in the order of `add`. That `EnqueueAll`, the
recursive function of `_abort`, puts each task of the queue behind its resource's deque is proved by a least
counterexample (`Least`, from `WellFoundedInduction`), a way round induction over data that works when the measure
is a set of numbers.

`DhcpAgentProofs` proves, for all networks, subnets, ports and bounds: `TypeOK`, `LookupsCover`,
`RunningIsKnown`. Subnets and ports have different ids (`IdsAssumption`): they are UUIDs, and `lookup` stands
for two dictionaries of the code. `LookupsCover` rests on every network, wherever the agent holds it
(`Whole`: in the cache, in an answer under way, with the driver, with a thread), having only keys of its own, so
that `put` and `remove` of one network take none of another's, however old the network is that they are given; that
holds because what the server tells is well-formed (`TablesOK`). `RunningIsKnown` rests on `DriverOK`: what is
enabled or restarted is put into the cache when the action succeeds (`kept`). `CallDriverFacts` says for
every action, success or failure, what happens to processes and cache together; handlers and threads both cite it.

`L3RouterProofs` proves, for all routers, subnets and requests (`TopologyAssumption`; `IdsAssumption`: routers
and floating IPs have different ids, UUIDs, and "no id" and a guest's device are none of them): `TypeOK`, `FipsConnected`, `RouterSubnetsApart`,
`L3PortsOwned`, and the action properties `RoutesKept` and `ChangesTold`. The inductive invariant adds
`PortsFormed`, what the calls rely on and no run states: a port of the plugin has an address (or the API might
delete it), a port with a router's id is its gateway or an interface, and gateway and floating ports have no id
of a guest's (so their deletion disassociates nothing). `Elementwise` restates the invariant for one port, router
and floating IP at a time; one lemma for each call uses that form. `StepTells` shows for each call that whatever
it touches of a router's data it tells.

`L3AgentProofs` proves, for all hosts, routers and faults, of the specification of the agents with the server's
actions of `L3Scheduler`: `TypeOK` and `OneHost`. `BoundOnce` says `OneHost` without `Cardinality`, and
with the server's types it is inductive; `JobOK` says of what an agent has asked for what `TypeOK` then says of the
answer.

`OvsAgentProofs` proves, for all networks, ports, numbers of handlers and finite sets of local VLANs (there are
4094): `TypeOK` and `VlansApart`. `VlansApart` counts; `Apart` is the same without counting, and inductive
together with the types and `NoneIsDown`: a device without details is not wired, so that no mapping is of an
unknown network.

`Ml2SegmentsProofs` proves, for every set of configurations and networks: `TypeOK`, `SegmentsAccounted`,
`VlansFree`. The three are inductive together, and the last two need each other: a release frees no other
network's segment because networks share none, and a reconfiguration keeps the free rows right because an
allocated row is in use.

The inductive invariants were checked by TLC on the runs' instances before they were proved. The `TypeOK` of
`Ml2Segments` and `OvsAgent` is in no run: it is there for the proofs, and proved.

Only model-checked:

- liveness, and whatever needs `ENABLED`: out of the prover's reach. This is `EveryTaskFinishes` and
  `StopReturns` of `TaskManager`, `Follows` and `Recovers` of `DhcpAgent`, `Follows` and `Withdrawn` of `L3Agent`,
  `Follows` of `OvsAgent`;
- the two violations of section 6, of course, and with them `OneFipPerPort` and `TunnelsFree`;
- that the mutants break the properties.

## 6. Findings

| Run | What the repository says | What the code does |
|---|---|---|
| `l3_fips` | `disassociate_floatingips`: several floating IPs on one port "should never happen" (`l3_db.py:749`) | a port with two fixed IPs gets one for each; `delete_port` then raises an exception that is no API error, as often as it is tried |
| `ml2_tunnels` | `tunnel_id_ranges`: "ranges of GRE tunnel IDs that are available for tenant network allocation" (`type_gre.py:33`) | a released id of the second range is deleted from the table, for the `else` of the loop belongs to its `if` |

Other disagreements, which TLC found while the models were made or which a hypothesis or guard now excludes:

- `delete_subnet` is to "Check if any tenant owned ports are using this subnet" (`db_base_plugin_v2.py:1268`); its
  filter selects the allocations of the whole network, so a port on another subnet makes it refuse.
- `_validate_subnet` is to "Ensure the gateway IP is not assigned to any port"; `update_subnet` gives it the gateway
  so far, so the address of a port can become the gateway (`db_base_plugin_v2.py:1077`).
- `_validate_shared_update` is to raise "if multiple tenants found"; a non-admin owner's query does not see other
  tenants' ports.
- `_abort` is to "Abort all tasks."; a task whose thread is killed in its result callback never reaches RESULT, and
  who waits for it stays blocked (`tasks.py:319`).
- `refresh_dhcp_helper` is to "Refresh or disable DHCP for a network depending on the current state of the
  network"; when one of two subnets loses DHCP, `setup_dhcp_port` raises `KeyError` at every attempt, after dnsmasq
  was killed (`linux/dhcp.py:710`).
- `ChanceScheduler.schedule` is to bind "if there is no enable L3 agent hosting it"; a router whose only agent is
  disabled stays where it is while any other is enabled (`l3_agentschedulers_db.py:150`).
- `update_router` of extra routes and gateway keeps the routes when it refuses the gateway, and tells no agent
  (`extraroute_db.py:76`).
- The OVS agent's "If treat devices fails - must resync with plugin" does not hold for a removed
  device: the resync clears `ports`, so it is not in `removed` again, is never reported down, and its VLAN is
  never reclaimed (`ovs_neutron_agent.py:990`).

## 7. Not modelled

Components without a module are listed in `PROJECT.json` with the reason: planned (section 2), pure I/O
(metadata proxy, bridge and iptables commands), adapters to controllers outside the repository (vendor
plugins), generated or copied code (migrations, `openstack/common`). Transactions of the core plugin are
serial in `CorePlugin`; those of concurrent API workers that the database lets overlap are planned (13).
