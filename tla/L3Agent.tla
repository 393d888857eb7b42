------------------------------- MODULE L3Agent -------------------------------
(***************************************************************************)
(* The L3 agents (neutron/agent/l3_agent.py) and the server they follow.   *)
(* Notifications only add to sets; _rpc_loop and _sync_routers_task drain  *)
(* them under the 'l3-agent' lock and give way in the call to the server   *)
(* and in commands.  The threads of _process_routers work on routers of    *)
(* their own while the lock is held, so they are one step.                 *)
(*                                                                         *)
(* Commands of _router_added and of the destruction of an emptied          *)
(* namespace do not fail; there is one external network.                   *)
(***************************************************************************)
EXTENDS L3Scheduler

VARIABLES fullsync,   \* host -> fullsync
          updated,    \* host -> updated_routers
          removed,    \* host -> removed_routers
          info,       \* host -> router_info: router -> [ports, gw, devices]
          job         \* host -> what the holder of the lock is at

agent == <<fullsync, updated, removed, info, job>>
vars == <<server, agent>>

(* Jobs: none, a call under way ("ask"), routers to process ("process"),   *)
(* and routers to delete ("delete").                                       *)
NoJob == [step |-> "none"]
Ask(op, ids) == [step |-> "ask", op |-> op, ids |-> ids]
Process(op, data) == [step |-> "process", op |-> op, data |-> data]
Delete(ids) == IF ids = {} THEN NoJob ELSE [step |-> "delete", ids |-> ids]

RouterInfo == [ports : SUBSET Ports, gw : Gateways \cup {None}, devices : SUBSET (Ports \cup Gateways)]

TypeOK ==
  /\ ServerTypeOK
  /\ fullsync \in [Hosts -> BOOLEAN]
  /\ updated \in [Hosts -> SUBSET Routers] /\ removed \in [Hosts -> SUBSET Routers]
  /\ \A h \in Hosts : /\ DOMAIN info[h] \subseteq Routers
                      /\ \A r \in DOMAIN info[h] : info[h][r] \in RouterInfo
                      /\ job[h].step = "process" => \A r \in DOMAIN job[h].data : job[h].data[r] \in Content
                      /\ job[h].step = "delete" => job[h].ids \subseteq removed[h]

Init ==
  /\ ServerInit
  /\ fullsync = [h \in Hosts |-> TRUE]
  /\ updated = [h \in Hosts |-> {}] /\ removed = [h \in Hosts |-> {}]
  /\ info = [h \in Hosts |-> Empty]
  /\ job = [h \in Hosts |-> NoJob]

Set(f, h, v) == f' = [f EXCEPT ![h] = v]
Besides == <<routers, used, enabled, alive, changes>>   \* of the server, what the agent leaves alone

----------------------------------------------------------------------------
(* process_router. *)

Fresh == [ports |-> {}, gw |-> None, devices |-> {}]
Down == [up |-> FALSE, ports |-> {}, gw |-> None]   \* what _router_removed makes of the router

(* A gateway is plugged or unplugged, never exchanged: with another one    *)
(* process_router_floating_ips fails on the device that is not there.      *)
Processed(ri, router) ==
  LET ports == (ri.devices \cup (router.ports \ ri.ports)) \ (ri.ports \ router.ports)
  IN  IF router.gw = None
      THEN [ports |-> router.ports, gw |-> None, devices |-> ports \ {ri.gw}]
      ELSE IF ri.gw = None
      THEN [ports |-> router.ports, gw |-> router.gw, devices |-> ports \cup {router.gw}]
      ELSE [ports |-> router.ports, gw |-> ri.gw, devices |-> ports]

(* When a command fails: a port is in internal_ports before it is plugged, *)
(* and out of it before it is unplugged.                                   *)
Failed(ri, router) ==
  LET new == router.ports \ ri.ports
      old == ri.ports \ router.ports
  IN  {[ri EXCEPT !.ports = @ \cup done \cup {p}, !.devices = @ \cup done] :
         p \in new, done \in SUBSET new}
      \cup {[ri EXCEPT !.ports = (@ \cup new) \ (done \cup {p}), !.devices = (@ \cup new) \ done] :
              p \in old, done \in SUBSET old}
      \cup {[ri EXCEPT !.ports = router.ports, !.devices = (@ \cup new) \ old]}

----------------------------------------------------------------------------
(* Notifications. *)

Handle(h) ==
  /\ \E msg \in BagToSet(inbox[h]) :
       /\ Set(inbox, h, inbox[h] (-) SetToBag({msg}))
       /\ \/ /\ msg.method = "routers_updated"
             /\ Set(updated, h, updated[h] \cup {msg.router}) /\ UNCHANGED <<removed, fullsync>>
          \/ /\ msg.method = "router_deleted"
             /\ Set(removed, h, removed[h] \cup {msg.router}) /\ UNCHANGED <<updated, fullsync>>
          \/ /\ msg.method = "agent_updated"
             /\ Set(fullsync, h, TRUE) /\ UNCHANGED <<updated, removed>>
  /\ UNCHANGED <<Besides, bound, info, job>> /\ NoFault

----------------------------------------------------------------------------
(* _rpc_loop and _sync_routers_task. *)

RpcLoop(h) ==
  /\ job[h] = NoJob
  /\ updated[h] \cup removed[h] # {}
  /\ Set(job, h, IF updated[h] # {} THEN Ask("loop", updated[h]) ELSE Delete(removed[h]))
  /\ Set(updated, h, {})
  /\ UNCHANGED <<Besides, bound, inbox, fullsync, removed, info>> /\ NoFault

(* Mutant: the sync does not take the lock. *)
SyncRoutersTaskUnlocked(h) ==
  /\ job[h].step \in {"none", "delete"}
  /\ fullsync[h]
  /\ Set(removed, h, {}) /\ Set(updated, h, {})
  /\ Set(job, h, IF job[h] = NoJob THEN Ask("sync", {}) ELSE job[h])
  /\ UNCHANGED <<Besides, bound, inbox, fullsync, info>> /\ NoFault

SyncRoutersTask(h) ==
  /\ job[h] = NoJob
  /\ fullsync[h]
  /\ Set(job, h, Ask("sync", {}))
  /\ Set(updated, h, {}) /\ Set(removed, h, {})
  /\ UNCHANGED <<Besides, bound, inbox, fullsync, info>> /\ NoFault

(* Mutant: a call that fails is forgotten. *)
AnsweredOrForgotten(h) ==
  /\ job[h].step = "ask"
  /\ bound' = AutoScheduled(h, job[h].ids)
  /\ \/ Set(job, h, Process(job[h].op, SyncRouters(h, job[h].ids, bound'))) /\ NoFault
     \/ Set(job, h, NoJob) /\ Fault(h, "call")
  /\ UNCHANGED <<Besides, inbox, updated, removed, fullsync, info>>

(* sync_routers on the server, and its answer; or the call, or the one for *)
(* the external network, fails.                                            *)
Answered(h) ==
  /\ job[h].step = "ask"
  /\ bound' = AutoScheduled(h, job[h].ids)
  /\ \/ /\ Set(job, h, Process(job[h].op, SyncRouters(h, job[h].ids, bound')))
        /\ UNCHANGED fullsync /\ NoFault
     \/ /\ Set(job, h, NoJob)
        /\ Set(fullsync, h, TRUE) /\ Fault(h, "call")
  /\ UNCHANGED <<Besides, inbox, updated, removed, info>>

(* The rest of the two loops after _process_routers. *)
Continue(h) ==
  IF job[h].op = "sync" THEN Set(fullsync, h, FALSE) /\ Set(job, h, NoJob)
  ELSE Set(job, h, Delete(removed[h])) /\ UNCHANGED fullsync

(* Mutant: a sync, too, looks only among the routers that came. *)
GoneOfData(h) == (DOMAIN info[h] \cap DOMAIN job[h].data) \ DOMAIN job[h].data

Gone(h) ==
  LET prev == IF job[h].op = "sync" THEN DOMAIN info[h] ELSE DOMAIN info[h] \cap DOMAIN job[h].data
  IN  prev \ DOMAIN job[h].data

(* _process_routers: sets up the routers of the answer and, in a sync,     *)
(* removes the others.  Threads that fail say nothing.  Without the        *)
(* external bridge it does nothing, and says nothing.                      *)
ProcessRouters(h) ==
  LET data == job[h].data
      gone == Gone(h)
      Known(r) == IF r \in DOMAIN info[h] THEN info[h][r] ELSE Fresh
      done == [r \in (DOMAIN info[h] \ gone) \cup DOMAIN data |->
                 IF r \in DOMAIN data THEN Processed(Known(r), data[r]) ELSE info[h][r]]
  IN  /\ job[h].step = "process"
      /\ \/ Set(info, h, done) /\ NoFault
         \/ /\ \/ \E r \in DOMAIN data : \E ri \in Failed(Known(r), data[r]) : Set(info, h, Put(done, r, ri))
               \/ \E r \in gone : \E ri \in Failed(info[h][r], Down) : Set(info, h, Put(done, r, ri))
            /\ Fault(h, "command")
         \/ UNCHANGED info /\ Fault(h, "bridge")
      /\ Continue(h)
      /\ UNCHANGED <<Besides, bound, inbox, updated, removed>>

(* _process_router_delete: one router of the list. *)
ProcessRouterDelete(h) ==
  /\ job[h].step = "delete"
  /\ \E r \in job[h].ids :
       \/ /\ Set(info, h, Drop(info[h], {r}))
          /\ Set(removed, h, removed[h] \ {r})
          /\ Set(job, h, Delete(job[h].ids \ {r}))
          /\ UNCHANGED fullsync /\ NoFault
       \/ /\ r \in DOMAIN info[h]
          /\ \E ri \in Failed(info[h][r], Down) : Set(info, h, Put(info[h], r, ri))
          /\ Set(fullsync, h, TRUE) /\ Set(job, h, NoJob)
          /\ UNCHANGED removed /\ Fault(h, "delete")
  /\ UNCHANGED <<Besides, bound, inbox, updated>>

(* The agent dies and starts again: _destroy_router_namespaces. *)
Crash(h) ==
  /\ Fault(h, "crash")
  /\ Set(info, h, Empty)
  /\ Set(fullsync, h, TRUE) /\ Set(updated, h, {}) /\ Set(removed, h, {})
  /\ Set(job, h, NoJob)
  /\ UNCHANGED <<Besides, bound, inbox>>

AgentNext(h) == \/ Handle(h) \/ RpcLoop(h) \/ SyncRoutersTask(h) \/ Answered(h)
                \/ ProcessRouters(h) \/ ProcessRouterDelete(h)

Next == \/ ServerNext /\ UNCHANGED agent
        \/ \E h \in Hosts : AgentNext(h) \/ Crash(h)

(* Loops come again, calls end by a timeout, and commands end. *)
Spec == Init /\ [][Next]_vars /\ \A h \in Hosts : WF_vars(AgentNext(h))

----------------------------------------------------------------------------
Desired(h) == IF enabled[h] THEN {r \in DOMAIN routers : <<r, h>> \in bound /\ routers[r].up} ELSE {}
Devices(r) == routers[r].ports \cup ({routers[r].gw} \ {None})

(* A host ends up with the routers the server gives it, each with its      *)
(* ports and no other.                                                     *)
Agrees(h) == /\ DOMAIN info[h] = Desired(h)
             /\ \A r \in Desired(h) : info[h][r].devices = Devices(r)

(* What has to hold all along for that. *)
Pending(h, method) == {msg \in BagToSet(inbox[h]) : msg.method = method}
Removing(h) == removed[h] \cup {msg.router : msg \in Pending(h, "router_deleted")}
NoReturn(h) == Removing(h) \cap Desired(h) = {}
KeptUp(h) == \A r \in DOMAIN info[h] \cap DOMAIN routers : <<r, h>> \in bound => routers[r].up
GatewayKept(h) == \A r \in DOMAIN info[h] \cap DOMAIN routers : info[h][r].gw # None => routers[r].gw \in {None, info[h][r].gw}
NoToggle(h) == job[h].step = "process" => Pending(h, "agent_updated") = {}
Orderly == \A h \in Hosts : NoReturn(h) /\ KeptUp(h) /\ GatewayKept(h) /\ NoToggle(h)

Follows == [](Orderly /\ faults \subseteq {"call", "crash"}) => <>[](\A h \in Hosts : Agrees(h))

(* A router taken from a host, or deleted, is gone from it in the end,     *)
(* whatever notifications of others, syncs and failed calls come between.  *)
Withdrawn ==
  \A r \in Routers, h \in Hosts :
    [](faults \subseteq {"call", "delete", "crash"}) /\ <>[](<<r, h>> \notin bound) => <>[](r \notin DOMAIN info[h])
=============================================================================
