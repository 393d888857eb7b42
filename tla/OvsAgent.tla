------------------------------ MODULE OvsAgent ------------------------------
(***************************************************************************)
(* The Open vSwitch agent of one host (ovs_neutron_agent.py), the bridges  *)
(* it wires, and the plugin's side of its calls (ovs_neutron_plugin.py).   *)
(*                                                                         *)
(* rpc_loop polls the integration bridge and treats the devices that came  *)
(* and went; notifications are handled by greenthreads of their own.  All  *)
(* give way in calls to the server and in commands (utils.execute), and    *)
(* nowhere else: a step is what one does between two of them.              *)
(*                                                                         *)
(* A network stands for its segment too.  Every port is bound to the host. *)
(***************************************************************************)
EXTENDS Naturals, Sequences, FiniteSets, Functions

CONSTANTS Networks, Ports, NetworkOf,
          Vlans,                   \* MIN_VLAN_TAG .. MAX_VLAN_TAG - 1
          Loop, Workers,           \* greenthreads: rpc_loop, and the handlers there can be at once
          Untagged, DeadVlan, None,
          Faults,                  \* of {"call", "command", "crash", "replug"}
          MaxChanges, MaxFaults    \* bounds

ASSUME OvsAssumption ==
  /\ NetworkOf \in [Ports -> Networks]
  /\ Loop \notin Workers /\ None \notin Networks /\ {Untagged, DeadVlan} \cap Vlans = {}
  /\ IsFiniteSet(Vlans) /\ MaxChanges \in Nat /\ MaxFaults \in Nat

VARIABLES
  port,       \* the server's ports: [admin_state_up, status]
  networks,   \* the server's networks
  inbox,      \* notifications to the agent
  tag,        \* integration bridge: plugged device -> its tag
  inbound,    \* flows: network -> the local VLAN its traffic gets
  outbound,   \* flows: local VLAN -> the network its traffic goes to
  available_local_vlans,
  local_vlan_map,   \* network -> [vlan, vif_ports]
  ports,      \* the devices rpc_loop has treated
  sync,
  scan,       \* what this round of rpc_loop still has to treat, or None
  job,        \* greenthread -> what it is doing
  changes, faults

server == <<port, networks, inbox>>
bridges == <<tag, inbound, outbound>>
vlans == <<available_local_vlans, local_vlan_map>>
round == <<ports, sync, scan>>
vars == <<server, bridges, vlans, round, job, changes, faults>>

Idle == [at |-> "idle"]
Threads == {Loop} \cup Workers
Tags == Vlans \cup {Untagged, DeadVlan}
Jobs == {Idle}
        \cup [at : {"treat"}, port : Ports, net : Networks \cup {None}, up : BOOLEAN]
        \cup [at : {"flows", "report"}, port : Ports, net : Networks, up : BOOLEAN]
        \cup [at : {"tag"}, port : Ports, net : Networks, up : BOOLEAN, vlan : Vlans]
        \cup [at : {"unbind"}, port : Ports]
        \cup [at : {"reclaim"}, net : Networks, vlan : Vlans]
Messages == [port : Ports, up : BOOLEAN] \cup [deleted : Networks]
Empty == [x \in {} |-> x]
Put(f, x, v) == [y \in DOMAIN f \cup {x} |-> IF y = x THEN v ELSE f[y]]
Drop(f, x) == [y \in DOMAIN f \ {x} |-> f[y]]

TypeOK ==
  /\ DOMAIN port \subseteq Ports
  /\ \A p \in DOMAIN port : port[p] \in [admin_state_up : BOOLEAN, status : {"ACTIVE", "DOWN"}]
  /\ networks \subseteq Networks /\ inbox \in Seq(Messages)
  /\ DOMAIN tag \subseteq Ports /\ Range(tag) \subseteq Tags
  /\ DOMAIN inbound \subseteq Networks /\ Range(inbound) \subseteq Vlans
  /\ DOMAIN outbound \subseteq Vlans /\ Range(outbound) \subseteq Networks
  /\ available_local_vlans \subseteq Vlans
  /\ DOMAIN local_vlan_map \subseteq Networks
  /\ Range(local_vlan_map) \subseteq [vlan : Vlans, vif_ports : SUBSET Ports]
  /\ ports \subseteq Ports /\ sync \in BOOLEAN
  /\ scan \in {None} \cup [added : SUBSET Ports, removed : SUBSET Ports, current : SUBSET Ports, resync : BOOLEAN]
  /\ job \in [Threads -> Jobs]
  /\ changes \in 0..MaxChanges /\ faults \in 0..MaxFaults

----------------------------------------------------------------------------
(* The start of the agent: no flow survives, tags do. *)

Started ==
  /\ inbound' = Empty /\ outbound' = Empty
  /\ available_local_vlans' = Vlans /\ local_vlan_map' = Empty
  /\ ports' = {} /\ sync' = TRUE /\ scan' = None
  /\ job' = [t \in Threads |-> Idle]

Init ==
  /\ port \in [Ports -> [admin_state_up : BOOLEAN, status : {"DOWN"}]]
  /\ networks = Networks
  /\ inbox = <<>>
  /\ tag = Empty
  /\ inbound = Empty /\ outbound = Empty
  /\ available_local_vlans = Vlans /\ local_vlan_map = Empty
  /\ ports = {} /\ sync = TRUE /\ scan = None
  /\ job = [t \in Threads |-> Idle]
  /\ changes = 0 /\ faults = 0

Fault(kind) == kind \in Faults /\ faults < MaxFaults /\ faults' = faults + 1

Crash ==
  /\ Fault("crash")
  /\ Started
  /\ inbox' = <<>>
  /\ UNCHANGED <<port, networks, tag, changes>>

----------------------------------------------------------------------------
(* Calls of the API, and what nova plugs. *)

Change == changes < MaxChanges /\ changes' = changes + 1

UpdatePort(p) ==
  LET up == ~port[p].admin_state_up
  IN  /\ Change
      /\ p \in DOMAIN port
      /\ port' = [port EXCEPT ![p].admin_state_up = up]
      /\ inbox' = Append(inbox, [port |-> p, up |-> up])
      /\ UNCHANGED <<networks, bridges, vlans, round, job, faults>>

DeletePort(p) ==   \* no agent is told
  /\ Change
  /\ p \in DOMAIN port
  /\ port' = Drop(port, p)
  /\ UNCHANGED <<networks, inbox, bridges, vlans, round, job, faults>>

DeleteNetwork(n) ==
  /\ Change
  /\ n \in networks
  /\ \A p \in DOMAIN port : NetworkOf[p] # n
  /\ networks' = networks \ {n}
  /\ inbox' = Append(inbox, [deleted |-> n])
  /\ UNCHANGED <<port, bridges, vlans, round, job, faults>>

(* Plugged again before the agent noticed it was gone: a poll between the  *)
(* two would see the same set of devices.                                  *)
Unnoticed(p) == p \in ports \/ (scan # None /\ p \in scan.current)

Plug(p) ==
  /\ Change
  /\ Unnoticed(p) => "replug" \in Faults
  /\ p \in DOMAIN port \ DOMAIN tag
  /\ tag' = Put(tag, p, Untagged)
  /\ UNCHANGED <<server, inbound, outbound, vlans, round, job, faults>>

Unplug(p) ==
  /\ Change
  /\ p \in DOMAIN tag
  /\ tag' = Drop(tag, p)
  /\ UNCHANGED <<server, inbound, outbound, vlans, round, job, faults>>

----------------------------------------------------------------------------
(* Wiring, by any greenthread t: port_bound, port_dead, port_unbound,      *)
(* provision_local_vlan and reclaim_local_vlan.                            *)

To(t, j) == job' = [job EXCEPT ![t] = j]

(* An exception ends a handler; rpc_loop catches it, drops its round and   *)
(* goes on with sync set.                                                  *)
Raise(t) ==
  /\ To(t, Idle)
  /\ IF t = Loop THEN sync' = TRUE /\ scan' = None ELSE UNCHANGED <<sync, scan>>

(* port_bound from the lookup of the mapping on. *)
Enter(t, p, n, map) ==
  /\ local_vlan_map' = [map EXCEPT ![n].vif_ports = @ \cup {p}]
  /\ To(t, [at |-> "tag", port |-> p, net |-> n, up |-> TRUE, vlan |-> map[n].vlan])

(* Mutant: the local VLAN is read from the set, not taken. *)
ProvisionShared(t, p, n) ==
  /\ n \notin DOMAIN local_vlan_map
  /\ \E v \in available_local_vlans :
       /\ local_vlan_map' = Put(local_vlan_map, n, [vlan |-> v, vif_ports |-> {}])
       /\ To(t, [at |-> "flows", port |-> p, net |-> n, up |-> TRUE])
       /\ UNCHANGED <<available_local_vlans, sync, scan>>

(* port_bound of a network without a local VLAN. *)
Provision(t, p, n) ==
  /\ n \notin DOMAIN local_vlan_map
  /\ \/ /\ available_local_vlans = {}
        /\ Raise(t)
        /\ UNCHANGED vlans
     \/ \E v \in available_local_vlans :
          /\ available_local_vlans' = available_local_vlans \ {v}
          /\ local_vlan_map' = Put(local_vlan_map, n, [vlan |-> v, vif_ports |-> {}])
          /\ To(t, [at |-> "flows", port |-> p, net |-> n, up |-> TRUE])
          /\ UNCHANGED <<sync, scan>>

(* treat_vif_port.  A device that is not in the database (no network) is   *)
(* killed.  rpc_loop looks for the device here, a handler did before.      *)
Treat(t) ==
  LET j == job[t]
      after == IF j.net = None THEN Idle ELSE [at |-> "report", port |-> j.port, net |-> j.net, up |-> j.up]
      present == t # Loop \/ j.port \in DOMAIN tag
  IN  /\ j.at = "treat"
      /\ \/ /\ present /\ j.up
            /\ \/ Provision(t, j.port, j.net)
               \/ /\ j.net \in DOMAIN local_vlan_map
                  /\ Enter(t, j.port, j.net, local_vlan_map)
                  /\ UNCHANGED <<available_local_vlans, sync, scan>>
            /\ UNCHANGED tag
         \/ /\ ~(present /\ j.up)
            /\ tag' = IF present /\ j.port \in DOMAIN tag THEN [tag EXCEPT ![j.port] = DeadVlan] ELSE tag
            /\ To(t, after)
            /\ UNCHANGED <<vlans, sync, scan>>
      /\ UNCHANGED <<server, inbound, outbound, ports, changes, faults>>

(* The flows of provision_local_vlan, and the lookup after them. *)
Flows(t) ==
  LET j == job[t]
      n == j.net
      v == local_vlan_map[n].vlan
  IN  /\ j.at = "flows"
      /\ \/ /\ n \notin DOMAIN local_vlan_map
            /\ Raise(t)
            /\ UNCHANGED <<inbound, outbound, vlans>>
         \/ /\ n \in DOMAIN local_vlan_map
            /\ inbound' = Put(inbound, n, v) /\ outbound' = Put(outbound, v, n)
            /\ Enter(t, j.port, n, local_vlan_map)
            /\ UNCHANGED <<available_local_vlans, sync, scan>>
      /\ UNCHANGED <<server, tag, ports, changes, faults>>

Tag(t) ==
  LET j == job[t]
  IN  /\ j.at = "tag"
      /\ tag' = IF j.port \in DOMAIN tag THEN [tag EXCEPT ![j.port] = j.vlan] ELSE tag
      /\ To(t, [at |-> "report", port |-> j.port, net |-> j.net, up |-> TRUE])
      /\ UNCHANGED <<server, inbound, outbound, vlans, round, changes, faults>>

(* reclaim_local_vlan: the mapping is gone at once, the local VLAN is      *)
(* available when the flows are gone.                                      *)
Reclaim(t, n) ==
  /\ local_vlan_map' = Drop(local_vlan_map, n)
  /\ To(t, [at |-> "reclaim", net |-> n, vlan |-> local_vlan_map[n].vlan])

Reclaimed(t) ==
  LET j == job[t]
  IN  /\ j.at = "reclaim"
      /\ inbound' = Drop(inbound, j.net) /\ outbound' = Drop(outbound, j.vlan)
      /\ available_local_vlans' = available_local_vlans \cup {j.vlan}
      /\ To(t, Idle)
      /\ UNCHANGED <<server, tag, local_vlan_map, round, changes, faults>>

(* port_unbound without its network, as treat_devices_removed calls it. *)
Unbind ==
  LET p == job[Loop].port
      nets == {n \in DOMAIN local_vlan_map : p \in local_vlan_map[n].vif_ports}
  IN  /\ job[Loop].at = "unbind"
      /\ \/ nets = {} /\ To(Loop, Idle) /\ UNCHANGED local_vlan_map
         \/ \E n \in nets :
              IF local_vlan_map[n].vif_ports = {p} THEN Reclaim(Loop, n)
              ELSE /\ local_vlan_map' = [local_vlan_map EXCEPT ![n].vif_ports = @ \ {p}]
                   /\ To(Loop, Idle)
      /\ UNCHANGED <<server, bridges, available_local_vlans, round, changes, faults>>

----------------------------------------------------------------------------
(* Calls to the server.  A call that fails has reached it or not. *)

With(p, status) == IF p \in DOMAIN port THEN [port EXCEPT ![p].status = status] ELSE port
Answered(new) == port' = new /\ UNCHANGED faults
Lost(new) == Fault("call") /\ port' \in {port, new}

(* update_device_up: rpc_loop reports every device it treated, a handler   *)
(* what its message says.  Only the handler catches the timeout.           *)
Report(t) ==
  LET j == job[t]
      new == With(j.port, IF t = Loop \/ j.up THEN "ACTIVE" ELSE "DOWN")
  IN  /\ j.at = "report"
      /\ \/ Answered(new) /\ To(t, Idle) /\ UNCHANGED <<sync, scan>>
         \/ Lost(new) /\ Raise(t)
      /\ UNCHANGED <<networks, inbox, bridges, vlans, ports, changes>>

----------------------------------------------------------------------------
(* rpc_loop *)

(* sync, and update_ports; a failing ovs-vsctl lists nothing. *)
Poll ==
  LET registered == IF sync THEN {} ELSE ports
      Found(current) ==
        scan' = IF current = registered THEN None
                ELSE [added |-> current \ registered, removed |-> registered \ current,
                      current |-> current, resync |-> FALSE]
  IN  /\ scan = None /\ job[Loop] = Idle
      /\ sync' = FALSE /\ ports' = registered
      /\ \/ Found(DOMAIN tag) /\ UNCHANGED faults
         \/ Found({}) /\ Fault("command")
      /\ UNCHANGED <<server, bridges, vlans, job, changes>>

(* treat_devices_added: get_device_details, which sets the status too. *)
DeviceAdded(p) ==
  LET details == IF p \in DOMAIN port
                 THEN [at |-> "treat", port |-> p, net |-> NetworkOf[p], up |-> port[p].admin_state_up]
                 ELSE [at |-> "treat", port |-> p, net |-> None, up |-> FALSE]
      new == With(p, IF details.up THEN "ACTIVE" ELSE "DOWN")
  IN  /\ scan # None /\ job[Loop] = Idle
      /\ p \in scan.added
      /\ \/ /\ Answered(new)
            /\ To(Loop, details)
            /\ scan' = [scan EXCEPT !.added = @ \ {p}]
         \/ /\ Lost(new)
            /\ scan' = [scan EXCEPT !.added = @ \ {p}, !.resync = TRUE]
            /\ UNCHANGED job
      /\ UNCHANGED <<networks, inbox, bridges, vlans, ports, sync, changes>>

(* treat_devices_removed: update_device_down. *)
DeviceRemoved(p) ==
  LET new == With(p, "DOWN")
  IN  /\ scan # None /\ job[Loop] = Idle
      /\ scan.added = {} /\ p \in scan.removed
      /\ \/ /\ Answered(new)
            /\ To(Loop, [at |-> "unbind", port |-> p])
            /\ scan' = [scan EXCEPT !.removed = @ \ {p}]
         \/ /\ Lost(new)
            /\ scan' = [scan EXCEPT !.removed = @ \ {p}, !.resync = TRUE]
            /\ UNCHANGED job
      /\ UNCHANGED <<networks, inbox, bridges, vlans, ports, sync, changes>>

(* Mutant: what failed in the round is not asked for again. *)
PolledOnce ==
  /\ scan # None /\ job[Loop] = Idle
  /\ scan.added = {} /\ scan.removed = {}
  /\ ports' = scan.current /\ scan' = None
  /\ UNCHANGED <<server, bridges, vlans, job, sync, changes, faults>>

(* The end of the round. *)
Polled ==
  /\ scan # None /\ job[Loop] = Idle
  /\ scan.added = {} /\ scan.removed = {}
  /\ ports' = scan.current /\ sync' = scan.resync /\ scan' = None
  /\ UNCHANGED <<server, bridges, vlans, job, changes, faults>>

----------------------------------------------------------------------------
(* port_update and network_delete *)

Handle(w) ==
  LET message == Head(inbox)
  IN  /\ job[w] = Idle /\ inbox # <<>>
      /\ inbox' = Tail(inbox)
      /\ \/ /\ "deleted" \in DOMAIN message
            /\ IF message.deleted \in DOMAIN local_vlan_map THEN Reclaim(w, message.deleted)
               ELSE UNCHANGED <<job, local_vlan_map>>
         \/ /\ "port" \in DOMAIN message
            /\ IF message.port \in DOMAIN tag
               THEN To(w, [at |-> "treat", port |-> message.port, net |-> NetworkOf[message.port], up |-> message.up])
               ELSE UNCHANGED job
            /\ UNCHANGED local_vlan_map
      /\ UNCHANGED <<port, networks, bridges, available_local_vlans, round, changes, faults>>

----------------------------------------------------------------------------
Step(t) == Treat(t) \/ Flows(t) \/ Tag(t) \/ Report(t) \/ Reclaimed(t)
RpcLoop == \/ Poll \/ Polled \/ Unbind
           \/ \E p \in Ports : DeviceAdded(p) \/ DeviceRemoved(p)

Next ==
  \/ \E p \in Ports : UpdatePort(p) \/ DeletePort(p) \/ Plug(p) \/ Unplug(p)
  \/ \E n \in Networks : DeleteNetwork(n)
  \/ \E t \in Threads : Step(t)
  \/ RpcLoop
  \/ \E w \in Workers : Handle(w)
  \/ Crash

Fairness ==
  /\ WF_vars(RpcLoop \/ Step(Loop))
  /\ \A w \in Workers : WF_vars(Handle(w) \/ Step(w))

Spec == Init /\ [][Next]_vars
FairSpec == Spec /\ Fairness

----------------------------------------------------------------------------
(* A local VLAN is available, or lent to one network, or being reclaimed   *)
(* by one greenthread: none is lost and none is lent twice, whatever       *)
(* handlers, polls and deletions come between.                             *)
VlansApart ==
  LET lent == [n \in DOMAIN local_vlan_map |-> local_vlan_map[n].vlan]
      back == {t \in Threads : job[t].at = "reclaim"}
  IN  /\ \A n1, n2 \in DOMAIN lent : n1 # n2 => lent[n1] # lent[n2]
      /\ \A t1, t2 \in back : t1 # t2 => job[t1].vlan # job[t2].vlan
      /\ Cardinality(available_local_vlans) + Cardinality(DOMAIN lent) + Cardinality(back) = Cardinality(Vlans)
      /\ available_local_vlans \cup Range(lent) \cup {job[t].vlan : t \in back} = Vlans

Plugged(p, up) == p \in DOMAIN port /\ port[p].admin_state_up = up /\ p \in DOMAIN tag
Wired(p) ==
  LET n == NetworkOf[p]
  IN  /\ p \in DOMAIN tag /\ n \in DOMAIN local_vlan_map /\ n \in DOMAIN inbound
      /\ LET v == local_vlan_map[n].vlan
         IN  /\ tag[p] = v /\ inbound[n] = v
             /\ v \in DOMAIN outbound /\ outbound[v] = n

Dead(p) == p \in DOMAIN tag /\ tag[p] = DeadVlan

Wiring(t) == job[t].at \in {"treat", "flows", "tag"}

(* Hypotheses: no two greenthreads wire a device at once, nor rpc_loop     *)
(* with details older than a waiting port_update; and no network's local   *)
(* VLAN is reclaimed while a greenthread provisions one for it.            *)
Orderly ==
  /\ \A t, u \in Threads : t # u /\ Wiring(t) /\ Wiring(u) => job[t].port # job[u].port
  /\ Wiring(Loop) => \A i \in DOMAIN inbox : "port" \in DOMAIN inbox[i] => inbox[i].port # job[Loop].port
  /\ \A t, u \in Threads : job[t].at = "reclaim" =>
       /\ job[t].net \notin DOMAIN local_vlan_map
       /\ ~(job[u].at = "flows" /\ job[u].net = job[t].net)

(* A device that stays plugged ends up in the local VLAN of its network,   *)
(* with the flows of both directions, while its port is up, and in the     *)
(* dead VLAN while it is down: whatever calls and commands failed, however *)
(* often the agent restarted and whatever else came and went.              *)
Follows == []Orderly => \A p \in Ports :
                          /\ <>[]Plugged(p, TRUE) => <>[]Wired(p)
                          /\ <>[]Plugged(p, FALSE) => <>[]Dead(p)
=============================================================================
