---------------------------- MODULE L3Scheduler ----------------------------
(***************************************************************************)
(* The server's side of the L3 agents: routers and what agents are to set  *)
(* up for them, the bindings of routers to agents (L3AgentSchedulerDbMixin *)
(* and ChanceScheduler), and the notifications cast to the agents          *)
(* (L3AgentNotifyAPI).  Each call is one step.  Every agent is registered, *)
(* uses namespaces and takes any router; the only agents are L3 agents.    *)
(***************************************************************************)
EXTENDS Naturals, FiniteSets, Bags, Functions

CONSTANTS Routers, Hosts,
          Ports, Gateways,   \* interface and gateway ports a router may come to have
          None,
          Faulty,            \* the hosts where something may go wrong
          Faults,            \* what may go wrong there: "lapse" of heartbeats; "call",
                             \* "command", "delete", "bridge", "crash" in L3Agent
          MaxChanges,        \* bound on the calls, creations apart
          MaxFaults          \* bound; each once

ASSUME NamesAssumption == None \notin Gateways /\ Faulty \subseteq Hosts /\ MaxChanges \in Nat /\ MaxFaults \in Nat
                    /\ Faults \subseteq {"lapse", "call", "command", "delete", "bridge", "crash"}

VARIABLES routers,   \* router -> [up, ports, gw]
          used,      \* ids that were given: none is given twice
          bound,     \* <<router, host>>, the rows of RouterL3AgentBinding
          enabled,   \* host -> admin_state_up of its agent
          alive,     \* host -> its agent's heartbeat is recent
          inbox,     \* host -> notifications its agent has not handled, of two queues
          changes,
          faults     \* what went wrong so far

server == <<routers, used, bound, enabled, alive, inbox, changes, faults>>

Content == [up : BOOLEAN, ports : SUBSET Ports, gw : Gateways \cup {None}]
Message == [method : {"routers_updated", "router_deleted"}, router : Routers]
           \cup {[method |-> "agent_updated"]}

ServerTypeOK ==
  /\ DOMAIN routers \subseteq used /\ used \subseteq Routers
  /\ \A r \in DOMAIN routers : routers[r] \in Content
  /\ bound \subseteq (DOMAIN routers) \X Hosts
  /\ enabled \in [Hosts -> BOOLEAN] /\ alive \in [Hosts -> BOOLEAN]
  /\ \A h \in Hosts : IsABag(inbox[h]) /\ BagToSet(inbox[h]) \subseteq Message
  /\ changes \in 0..MaxChanges /\ faults \subseteq Faults

Empty == [r \in {} |-> None]
Put(f, x, v) == [y \in DOMAIN f \cup {x} |-> IF y = x THEN v ELSE f[y]]
Drop(f, X) == Restrict(f, DOMAIN f \ X)

ServerInit ==
  /\ routers = Empty /\ used = {} /\ bound = {}
  /\ enabled = [h \in Hosts |-> TRUE] /\ alive = [h \in Hosts |-> TRUE]
  /\ inbox = [h \in Hosts |-> EmptyBag]
  /\ changes = 0 /\ faults = {}

Change == changes < MaxChanges /\ changes' = changes + 1 /\ UNCHANGED faults
Fault(h, kind) == /\ h \in Faulty /\ kind \in Faults \ faults /\ Cardinality(faults) < MaxFaults
                  /\ faults' = faults \cup {kind}
NoFault == UNCHANGED faults
Cast(hosts, msg) ==
  inbox' = [h \in Hosts |-> IF h \in hosts THEN inbox[h] (+) SetToBag({msg}) ELSE inbox[h]]
Updated(r) == [method |-> "routers_updated", router |-> r]
Deleted(r) == [method |-> "router_deleted", router |-> r]

----------------------------------------------------------------------------
(* Scheduling. *)

HostsOf(r, rows) == {h \in Hosts : <<r, h>> \in rows}

(* get_l3_agents_hosting_routers(admin_state_up=True).  The filter is on   *)
(* the table of agents, and nothing joins it to the bindings (joinedload   *)
(* has an alias of its own): every binding passes if any agent is enabled. *)
Hosting(r, rows) == IF \E h \in Hosts : enabled[h] THEN HostsOf(r, rows) ELSE {}

(* ChanceScheduler.schedule: the bindings it may leave. *)
Scheduled(r) ==
  LET candidates == {h \in Hosts : enabled[h] /\ alive[h]}
  IN  IF Hosting(r, bound) # {} \/ candidates = {} THEN {bound}
      ELSE {bound \cup {<<r, h>>} : h \in candidates}

(* Mutant: what is asked for is not looked up among the bindings. *)
AutoScheduledUnchecked(h, ids) ==
  LET unscheduled == IF ids = {} THEN {r \in DOMAIN routers : HostsOf(r, bound) = {}} ELSE ids \cap DOMAIN routers
  IN  IF enabled[h] THEN bound \cup (unscheduled \X {h}) ELSE bound

(* auto_schedule_routers: those asked for that nobody hosts, or, when none *)
(* is asked for, those without a binding.                                  *)
AutoScheduled(h, ids) ==
  LET unscheduled == IF ids = {} THEN {r \in DOMAIN routers : HostsOf(r, bound) = {}}
                     ELSE {r \in ids \cap DOMAIN routers : Hosting(r, bound) = {}}
  IN  IF enabled[h] THEN bound \cup (unscheduled \X {h}) ELSE bound

(* list_active_sync_routers_on_active_l3_agent. *)
SyncRouters(h, ids, rows) ==
  IF ~enabled[h] THEN Empty
  ELSE Restrict(routers, {r \in DOMAIN routers : /\ <<r, h>> \in rows
                                                 /\ ids = {} \/ r \in ids
                                                 /\ routers[r].up})

----------------------------------------------------------------------------
(* API calls. *)

CreateRouter(r) ==
  /\ r \notin used
  /\ routers' = Put(routers, r, [up |-> TRUE, ports |-> {}, gw |-> None])
  /\ used' = used \cup {r}
  /\ UNCHANGED <<bound, enabled, alive, inbox, changes, faults>>

(* update_router, add_router_interface and remove_router_interface: one    *)
(* thing changes.                                                          *)
Changed(c) == {[c EXCEPT !.up = ~@]}
              \cup {[c EXCEPT !.ports = IF p \in @ THEN @ \ {p} ELSE @ \cup {p}] : p \in Ports}
              \cup {[c EXCEPT !.gw = g] : g \in (Gateways \cup {None}) \ {c.gw}}

(* schedule_routers, then _agent_notification to the hosts whose agents    *)
(* seem alive.                                                             *)
UpdateRouter(r) ==
  /\ Change
  /\ r \in DOMAIN routers
  /\ \E content \in Changed(routers[r]) : routers' = [routers EXCEPT ![r] = content]
  /\ bound' \in Scheduled(r)
  /\ Cast({h \in Hosting(r, bound') : alive[h]}, Updated(r))
  /\ UNCHANGED <<used, enabled, alive>>

DeleteRouter(r) ==
  /\ Change
  /\ r \in DOMAIN routers /\ routers[r].ports = {}
  /\ routers' = Drop(routers, {r})
  /\ bound' = bound \ ({r} \X Hosts)
  /\ Cast(Hosts, Deleted(r))
  /\ UNCHANGED <<used, enabled, alive>>

AddRouterToAgent(r, h) ==
  /\ Change
  /\ r \in DOMAIN routers /\ enabled[h] /\ HostsOf(r, bound) = {}
  /\ bound' = AutoScheduled(h, {r})
  /\ Cast({h}, Updated(r))
  /\ UNCHANGED <<routers, used, enabled, alive>>

RemoveRouterFromAgent(r, h) ==
  /\ Change
  /\ <<r, h>> \in bound
  /\ bound' = bound \ {<<r, h>>}
  /\ Cast({h}, Deleted(r))
  /\ UNCHANGED <<routers, used, enabled, alive>>

UpdateAgent(h) ==
  /\ Change
  /\ enabled' = [enabled EXCEPT ![h] = ~enabled[h]]
  /\ Cast({h}, [method |-> "agent_updated"])
  /\ UNCHANGED <<routers, used, bound, alive>>

(* is_agent_down after agent_down_time without a report, until the next.   *)
Heartbeat(h) ==
  /\ \/ alive[h] /\ Fault(h, "lapse")
     \/ ~alive[h] /\ NoFault
  /\ alive' = [alive EXCEPT ![h] = ~alive[h]]
  /\ UNCHANGED <<routers, used, bound, enabled, inbox, changes>>

ServerNext ==
  \/ \E r \in Routers : CreateRouter(r) \/ UpdateRouter(r) \/ DeleteRouter(r)
  \/ \E r \in Routers, h \in Hosts : AddRouterToAgent(r, h) \/ RemoveRouterFromAgent(r, h)
  \/ \E h \in Hosts : UpdateAgent(h) \/ Heartbeat(h)

(* A router has at most one host, whoever scheduled it, and whichever      *)
(* agents are disabled and enabled again meanwhile.                        *)
OneHost == \A r \in Routers : Cardinality(HostsOf(r, bound)) <= 1
=============================================================================
