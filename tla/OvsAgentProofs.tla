--------------------------- MODULE OvsAgentProofs ---------------------------
(***************************************************************************)
(* The local VLANs of an Open vSwitch agent are kept apart and none is     *)
(* lost, for all networks, ports, local VLANs and numbers of handlers, and *)
(* whatever fails or restarts.                                             *)
(***************************************************************************)
EXTENDS OvsAgent, FiniteSetTheorems, FunctionTheorems, SequenceTheorems, TLAPS

(* VlansApart without counting. *)
Reclaiming(v) == \E t \in Threads : job[t].at = "reclaim" /\ job[t].vlan = v
Lent(v) == \E n \in DOMAIN local_vlan_map : local_vlan_map[n].vlan = v
Apart ==
  /\ \A n1, n2 \in DOMAIN local_vlan_map : n1 # n2 => local_vlan_map[n1].vlan # local_vlan_map[n2].vlan
  /\ \A t1, t2 \in Threads : t1 # t2 /\ job[t1].at = "reclaim" /\ job[t2].at = "reclaim" => job[t1].vlan # job[t2].vlan
  /\ \A v \in Vlans : \/ v \in available_local_vlans /\ ~Lent(v) /\ ~Reclaiming(v)
                      \/ v \notin available_local_vlans /\ Lent(v) /\ ~Reclaiming(v)
                      \/ v \notin available_local_vlans /\ ~Lent(v) /\ Reclaiming(v)

(* A device the server does not know has no network, and is not wired.     *)
NoneIsDown(j) == j.at = "treat" /\ j.net = None => ~j.up

(* The inductive invariant: that what is mapped has a network needs that   *)
(* no unknown device is taken for one that is up.                          *)
IInv == TypeOK /\ Apart /\ \A t \in Threads : NoneIsDown(job[t])

----------------------------------------------------------------------------
(* Lemmas about the data. *)

LEMMA JobFacts ==
  ASSUME NEW j \in Jobs
  PROVE  /\ j.at \in {"idle", "treat", "flows", "report", "tag", "unbind", "reclaim"}
         /\ j.at = "treat" => j.port \in Ports /\ j.net \in Networks \cup {None} /\ j.up \in BOOLEAN
         /\ j.at \in {"flows", "report"} => j.port \in Ports /\ j.net \in Networks /\ j.up \in BOOLEAN
         /\ j.at = "tag" => j.port \in Ports /\ j.net \in Networks /\ j.vlan \in Vlans
         /\ j.at = "unbind" => j.port \in Ports
         /\ j.at = "reclaim" => j.net \in Networks /\ j.vlan \in Vlans
BY DEF Jobs, Idle

(* What a greenthread may come to do. *)
LEMMA IsJob ==
  /\ Idle \in Jobs
  /\ \A p \in Ports, n \in Networks, up \in BOOLEAN :
       /\ [at |-> "treat", port |-> p, net |-> n, up |-> up] \in Jobs
       /\ [at |-> "flows", port |-> p, net |-> n, up |-> up] \in Jobs
       /\ [at |-> "report", port |-> p, net |-> n, up |-> up] \in Jobs
       /\ \A v \in Vlans : [at |-> "tag", port |-> p, net |-> n, up |-> up, vlan |-> v] \in Jobs
  /\ \A p \in Ports : [at |-> "unbind", port |-> p] \in Jobs
  /\ \A n \in Networks, v \in Vlans : [at |-> "reclaim", net |-> n, vlan |-> v] \in Jobs
BY DEF Jobs, Idle

(* An injective function has as many arguments as values. *)
LEMMA AsManyValues ==
  ASSUME NEW f, f = [x \in DOMAIN f |-> f[x]], IsFiniteSet(Range(f)),
         \A x, y \in DOMAIN f : x # y => f[x] # f[y]
  PROVE  Cardinality(DOMAIN f) = Cardinality(Range(f))
<1>1. f \in Injection(DOMAIN f, Range(f)) /\ f \in Surjection(DOMAIN f, Range(f))
  BY DEF Injection, Surjection, IsInjective, Range
<1>2. QED BY <1>1, FS_Injection

(* Two sets with nothing in common. *)
LEMMA DisjointCounts ==
  ASSUME NEW S, NEW T, IsFiniteSet(S), IsFiniteSet(T), S \cap T = {}
  PROVE  IsFiniteSet(S \cup T) /\ Cardinality(S \cup T) = Cardinality(S) + Cardinality(T)
<1>1. Cardinality(S \cap T) = 0
  BY FS_EmptySet
<1>2. Cardinality(S) \in Nat /\ Cardinality(T) \in Nat
  BY FS_CardinalityType
<1>3. /\ IsFiniteSet(S \cup T)
      /\ Cardinality(S \cup T) = Cardinality(S) + Cardinality(T) - Cardinality(S \cap T)
  BY FS_Union
<1>4. QED BY <1>1, <1>2, <1>3

(* Counting the local VLANs. *)
LEMMA ApartCounts ==
  ASSUME TypeOK, Apart
  PROVE  VlansApart
<1> DEFINE lent == [n \in DOMAIN local_vlan_map |-> local_vlan_map[n].vlan]
           back == {t \in Threads : job[t].at = "reclaim"}
           taken == [t \in back |-> job[t].vlan]
<1>1. /\ Range(lent) = {v \in Vlans : Lent(v)}
      /\ \A n1, n2 \in DOMAIN lent : n1 # n2 => lent[n1] # lent[n2]
  BY DEF Range, Lent, TypeOK, Apart
<1>2. \A t \in back : job[t].vlan \in Vlans
  BY JobFacts DEF TypeOK
<1>3. /\ Range(taken) = {v \in Vlans : Reclaiming(v)}
      /\ Range(taken) = {job[t].vlan : t \in back}
      /\ \A t1, t2 \in back : t1 # t2 => job[t1].vlan # job[t2].vlan
  <2>1. \A v : v \in Range(taken) <=> \E t \in Threads : job[t].at = "reclaim" /\ job[t].vlan = v
    BY DEF Range
  <2>2. \A v : v \in Range(taken) <=> v \in Vlans /\ Reclaiming(v)
    BY <1>2, <2>1 DEF Reclaiming
  <2>3. QED BY <2>1, <2>2 DEF Apart
<1>4. /\ IsFiniteSet(Range(lent)) /\ IsFiniteSet(Range(taken)) /\ IsFiniteSet(available_local_vlans)
      /\ IsFiniteSet(Vlans)
  BY <1>1, <1>3, OvsAssumption, FS_Subset DEF TypeOK
<1>5. Cardinality(DOMAIN lent) = Cardinality(Range(lent))
  BY <1>1, <1>4, AsManyValues
<1>6. Cardinality(back) = Cardinality(Range(taken))
  BY <1>3, <1>4, AsManyValues
<1>7. /\ available_local_vlans \cup Range(lent) \cup Range(taken) = Vlans
      /\ available_local_vlans \cap Range(lent) = {}
      /\ (available_local_vlans \cup Range(lent)) \cap Range(taken) = {}
  BY <1>1, <1>3 DEF Apart, TypeOK
<1> HIDE DEF lent, back, taken
<1>8. /\ IsFiniteSet(available_local_vlans \cup Range(lent))
      /\ Cardinality(available_local_vlans \cup Range(lent)) = Cardinality(available_local_vlans) + Cardinality(Range(lent))
  BY <1>4, <1>7, DisjointCounts
<1>9. Cardinality(Vlans) = Cardinality(available_local_vlans) + Cardinality(Range(lent)) + Cardinality(Range(taken))
  BY <1>4, <1>7, <1>8, DisjointCounts
<1>10. Cardinality(available_local_vlans) + Cardinality(DOMAIN lent) + Cardinality(back) = Cardinality(Vlans)
  BY <1>5, <1>6, <1>9
<1>11. QED BY <1>1, <1>3, <1>7, <1>10 DEF VlansApart, lent, back

----------------------------------------------------------------------------
(* The parts of the invariant, by who changes them. *)

ServerOK ==
  /\ DOMAIN port \subseteq Ports
  /\ \A p \in DOMAIN port : port[p] \in [admin_state_up : BOOLEAN, status : {"ACTIVE", "DOWN"}]
  /\ networks \subseteq Networks /\ inbox \in Seq(Messages)
BridgesOK ==
  /\ DOMAIN tag \subseteq Ports /\ Range(tag) \subseteq Tags
  /\ DOMAIN inbound \subseteq Networks /\ Range(inbound) \subseteq Vlans
  /\ DOMAIN outbound \subseteq Vlans /\ Range(outbound) \subseteq Networks
MapOK ==
  /\ available_local_vlans \subseteq Vlans
  /\ DOMAIN local_vlan_map \subseteq Networks
  /\ \A n \in DOMAIN local_vlan_map : local_vlan_map[n] \in [vlan : Vlans, vif_ports : SUBSET Ports]
RoundOK ==
  /\ ports \subseteq Ports /\ sync \in BOOLEAN
  /\ scan \in {None} \cup [added : SUBSET Ports, removed : SUBSET Ports, current : SUBSET Ports, resync : BOOLEAN]
JobsOK == job \in [Threads -> Jobs] /\ \A t \in Threads : NoneIsDown(job[t])
CountersOK == changes \in 0..MaxChanges /\ faults \in 0..MaxFaults

LEMMA Parts ==
  /\ IInv <=> ServerOK /\ BridgesOK /\ MapOK /\ RoundOK /\ JobsOK /\ CountersOK /\ Apart
  /\ IInv' <=> ServerOK' /\ BridgesOK' /\ MapOK' /\ RoundOK' /\ JobsOK' /\ CountersOK' /\ Apart'
<1>1. IInv <=> ServerOK /\ BridgesOK /\ MapOK /\ RoundOK /\ JobsOK /\ CountersOK /\ Apart
  <2>1. Range(local_vlan_map) \subseteq [vlan : Vlans, vif_ports : SUBSET Ports] <=>
        \A n \in DOMAIN local_vlan_map : local_vlan_map[n] \in [vlan : Vlans, vif_ports : SUBSET Ports]
    BY DEF Range
  <2>2. QED BY <2>1, Zenon DEF IInv, TypeOK, ServerOK, BridgesOK, MapOK, RoundOK, JobsOK, CountersOK
<1>2. QED BY <1>1, PTL

(* What a step leaves alone. *)
LEMMA Frames ==
  ASSUME IInv
  PROVE  /\ UNCHANGED server => ServerOK'
         /\ UNCHANGED bridges => BridgesOK'
         /\ UNCHANGED vlans => MapOK'
         /\ UNCHANGED round => RoundOK'
         /\ UNCHANGED job => JobsOK'
         /\ UNCHANGED <<vlans, job>> => Apart'
         /\ UNCHANGED <<changes, faults>> => CountersOK'
<1> USE Parts
<1>1. UNCHANGED server => ServerOK'
  BY DEF ServerOK, server
<1>2. UNCHANGED bridges => BridgesOK'
  BY DEF BridgesOK, bridges
<1>3. UNCHANGED vlans => MapOK'
  BY DEF MapOK, vlans
<1>4. UNCHANGED round => RoundOK'
  BY DEF RoundOK, round
<1>5. UNCHANGED job => JobsOK'
  BY DEF JobsOK, NoneIsDown
<1>6. UNCHANGED <<vlans, job>> => Apart'
  BY DEF Apart, Lent, Reclaiming, vlans
<1>7. UNCHANGED <<changes, faults>> => CountersOK'
  BY DEF CountersOK
<1>8. QED BY <1>1, <1>2, <1>3, <1>4, <1>5, <1>6, <1>7

(* The counters. *)
LEMMA CounterFacts ==
  ASSUME IInv
  PROVE  /\ Change /\ UNCHANGED faults => CountersOK'
         /\ \A kind : Fault(kind) /\ UNCHANGED changes => CountersOK'
BY Parts, OvsAssumption DEF CountersOK, Change, Fault

(* A greenthread goes on with another job. *)
LEMMA ToFacts ==
  ASSUME IInv, NEW t \in Threads, NEW j \in Jobs, NoneIsDown(j), To(t, j)
  PROVE  /\ JobsOK'
         /\ job'[t] = j
         /\ \A u \in Threads : u # t => job'[u] = job[u]
BY Parts DEF To, JobsOK, NoneIsDown

(* The local VLANs stay apart while no network gets or loses one. *)
LEMMA SameVlans ==
  ASSUME IInv, NEW t \in Threads, job[t].at # "reclaim",
         \A u \in Threads : u # t => job'[u] = job[u], job'[t].at # "reclaim",
         available_local_vlans' = available_local_vlans,
         DOMAIN local_vlan_map' = DOMAIN local_vlan_map,
         \A n \in DOMAIN local_vlan_map : local_vlan_map'[n].vlan = local_vlan_map[n].vlan
  PROVE  Apart'
<1>1. \A v : Lent(v)' <=> Lent(v)
  BY DEF Lent
<1>2. \A v : Reclaiming(v)' <=> Reclaiming(v)
  BY DEF Reclaiming
<1>3. QED BY <1>1, <1>2, Parts DEF Apart

(* A step that changes neither the local VLANs nor a job that gives one    *)
(* back.                                                                   *)
LEMMA OtherJob ==
  ASSUME IInv, NEW t \in Threads, job[t].at # "reclaim",
         NEW j \in Jobs, NoneIsDown(j), j.at # "reclaim", To(t, j), UNCHANGED vlans
  PROVE  JobsOK' /\ MapOK' /\ Apart'
BY Frames, ToFacts, SameVlans DEF vlans

----------------------------------------------------------------------------
(* The calls of the API, what nova plugs, and the restart. *)

LEMMA AppendFacts ==
  ASSUME IInv, NEW message \in Messages
  PROVE  Append(inbox, message) \in Seq(Messages)
BY Parts DEF ServerOK

LEMMA UpdatePortStep ==
  ASSUME IInv, NEW p \in Ports, UpdatePort(p)
  PROVE  IInv'
<1> DEFINE up == ~port[p].admin_state_up
<1>1. /\ p \in DOMAIN port /\ port' = [port EXCEPT ![p].admin_state_up = up]
      /\ inbox' = Append(inbox, [port |-> p, up |-> up])
      /\ UNCHANGED <<networks, bridges, vlans, round, job, faults>> /\ Change
  BY DEF UpdatePort
<1>2. up \in BOOLEAN
  OBVIOUS
<1> HIDE DEF up
<1>3. inbox' \in Seq(Messages)
  <2>1. [port |-> p, up |-> up] \in Messages
    BY <1>2 DEF Messages
  <2>2. QED BY <1>1, <2>1, AppendFacts
<1>4. ServerOK'
  BY <1>1, <1>2, <1>3, Parts DEF ServerOK
<1>5. QED BY <1>1, <1>4, Frames, CounterFacts, Parts

LEMMA DeletePortStep ==
  ASSUME IInv, NEW p \in Ports, DeletePort(p)
  PROVE  IInv'
<1>1. port' = Drop(port, p) /\ Change
      /\ UNCHANGED <<networks, inbox, bridges, vlans, round, job, faults>>
  BY DEF DeletePort
<1>2. ServerOK'
  BY <1>1, Parts DEF Drop, ServerOK
<1>3. QED BY <1>1, <1>2, Frames, CounterFacts, Parts

LEMMA DeleteNetworkStep ==
  ASSUME IInv, NEW n \in Networks, DeleteNetwork(n)
  PROVE  IInv'
<1>1. /\ networks' = networks \ {n} /\ inbox' = Append(inbox, [deleted |-> n]) /\ Change
      /\ UNCHANGED <<port, bridges, vlans, round, job, faults>>
  BY DEF DeleteNetwork
<1>2. [deleted |-> n] \in Messages
  BY DEF Messages
<1>3. ServerOK'
  BY <1>1, <1>2, AppendFacts, Parts DEF ServerOK
<1>4. QED BY <1>1, <1>3, Frames, CounterFacts, Parts

LEMMA PlugStep ==
  ASSUME IInv, NEW p \in Ports, Plug(p) \/ Unplug(p)
  PROVE  IInv'
<1>1. /\ tag' = Put(tag, p, Untagged) \/ tag' = Drop(tag, p)
      /\ UNCHANGED <<server, inbound, outbound, vlans, round, job, faults>> /\ Change
  BY DEF Plug, Unplug
<1>2. DOMAIN tag' \subseteq Ports /\ Range(tag') \subseteq Tags
  BY <1>1, Parts DEF BridgesOK, Tags, Put, Drop, Range
<1>3. BridgesOK'
  BY <1>1, <1>2, Parts DEF BridgesOK, Range
<1>4. QED BY <1>1, <1>3, Frames, CounterFacts, Parts

(* All that is set when the agent starts. *)
LEMMA StartFacts ==
  ASSUME inbound' = Empty, outbound' = Empty, available_local_vlans' = Vlans, local_vlan_map' = Empty,
         ports' = {}, sync' = TRUE, scan' = None, job' = [t \in Threads |-> Idle],
         DOMAIN tag' \subseteq Ports, \A p \in DOMAIN tag' : tag'[p] \in Tags
  PROVE  BridgesOK' /\ MapOK' /\ RoundOK' /\ JobsOK' /\ Apart'
<1>1. DOMAIN Empty = {} /\ \A S : Range(Empty) \subseteq S
  BY DEF Empty, Range
<1>2. BridgesOK'
  BY <1>1 DEF BridgesOK, Range
<1>3. MapOK' /\ RoundOK'
  BY <1>1 DEF MapOK, RoundOK
<1>4. JobsOK'
  BY DEF JobsOK, NoneIsDown, Jobs, Idle
<1>5. Apart'
  BY <1>1 DEF Apart, Lent, Reclaiming, Idle
<1>6. QED BY <1>2, <1>3, <1>4, <1>5

LEMMA CrashStep ==
  ASSUME IInv, Crash
  PROVE  IInv'
<1>1. /\ Started /\ inbox' = <<>> /\ UNCHANGED <<port, networks, tag, changes>> /\ Fault("crash")
  BY DEF Crash
<1>2. BridgesOK' /\ MapOK' /\ RoundOK' /\ JobsOK' /\ Apart'
  BY <1>1, StartFacts, Parts DEF Started, BridgesOK, Range
<1>3. ServerOK'
  BY <1>1, Parts DEF ServerOK
<1>4. QED BY <1>1, <1>2, <1>3, CounterFacts, Parts

----------------------------------------------------------------------------
(* What port_bound and reclaim_local_vlan make of the local VLANs. *)

LEMMA EnterFacts ==
  ASSUME IInv, NEW t \in Threads, job[t].at # "reclaim", NEW p \in Ports, NEW n \in DOMAIN local_vlan_map,
         Enter(t, p, n, local_vlan_map), UNCHANGED available_local_vlans
  PROVE  JobsOK' /\ MapOK' /\ Apart'
<1>1. /\ n \in Networks /\ local_vlan_map[n].vlan \in Vlans
      /\ \A m \in DOMAIN local_vlan_map : local_vlan_map[m] \in [vlan : Vlans, vif_ports : SUBSET Ports]
  BY Parts DEF MapOK
<1>2. local_vlan_map' = [local_vlan_map EXCEPT ![n].vif_ports = @ \cup {p}]
  BY DEF Enter
<1>3. /\ DOMAIN local_vlan_map' = DOMAIN local_vlan_map
      /\ \A m \in DOMAIN local_vlan_map : /\ local_vlan_map'[m] \in [vlan : Vlans, vif_ports : SUBSET Ports]
                                          /\ local_vlan_map'[m].vlan = local_vlan_map[m].vlan
  BY <1>1, <1>2
<1>4. MapOK'
  BY <1>3, Parts DEF MapOK
<1> DEFINE j == [at |-> "tag", port |-> p, net |-> n, up |-> TRUE, vlan |-> local_vlan_map[n].vlan]
<1>5. j \in Jobs /\ NoneIsDown(j) /\ j.at # "reclaim" /\ To(t, j)
  BY <1>1, IsJob DEF Enter, NoneIsDown
<1> HIDE DEF j
<1>6. JobsOK' /\ Apart'
  BY <1>3, <1>5, ToFacts, SameVlans
<1>7. QED BY <1>4, <1>6

LEMMA RaiseFacts ==
  ASSUME IInv, NEW t \in Threads, Raise(t), UNCHANGED ports
  PROVE  To(t, Idle) /\ Idle \in Jobs /\ NoneIsDown(Idle) /\ Idle.at # "reclaim" /\ RoundOK'
BY Parts DEF Raise, RoundOK, Idle, Jobs, NoneIsDown

(* A network gets a local VLAN that was available. *)
LEMMA ProvisionFacts ==
  ASSUME IInv, NEW t \in Threads, job[t].at # "reclaim", NEW p \in Ports, NEW n \in Networks,
         Provision(t, p, n), UNCHANGED ports
  PROVE  JobsOK' /\ MapOK' /\ RoundOK' /\ Apart'
<1>1. CASE Raise(t) /\ UNCHANGED vlans
  BY <1>1, RaiseFacts, OtherJob
<1>2. ASSUME NEW v \in available_local_vlans, n \notin DOMAIN local_vlan_map,
             available_local_vlans' = available_local_vlans \ {v},
             local_vlan_map' = Put(local_vlan_map, n, [vlan |-> v, vif_ports |-> {}]),
             To(t, [at |-> "flows", port |-> p, net |-> n, up |-> TRUE]), UNCHANGED <<sync, scan>>
      PROVE  JobsOK' /\ MapOK' /\ RoundOK' /\ Apart'
  <2>1. v \in Vlans
    BY Parts DEF MapOK
  <2> DEFINE j == [at |-> "flows", port |-> p, net |-> n, up |-> TRUE]
  <2>2. j \in Jobs /\ NoneIsDown(j) /\ j.at # "reclaim"
    BY <2>1, IsJob DEF NoneIsDown
  <2> HIDE DEF j
  <2>3. /\ JobsOK' /\ job'[t].at # "reclaim"
        /\ \A u \in Threads : u # t => job'[u] = job[u]
    BY <1>2, <2>2, ToFacts DEF j
  <2>4. /\ DOMAIN local_vlan_map' = DOMAIN local_vlan_map \cup {n}
        /\ local_vlan_map'[n] = [vlan |-> v, vif_ports |-> {}]
        /\ \A m \in DOMAIN local_vlan_map : local_vlan_map'[m] = local_vlan_map[m]
    BY <1>2 DEF Put
  <2>5. MapOK'
    <3>1. [vlan |-> v, vif_ports |-> {}] \in [vlan : Vlans, vif_ports : SUBSET Ports]
      BY <2>1
    <3>2. QED BY <1>2, <2>4, <3>1, Parts DEF MapOK
  <2>6. \A w : Reclaiming(w)' <=> Reclaiming(w)
    BY <2>3 DEF Reclaiming
  <2>7. \A w : Lent(w)' <=> Lent(w) \/ w = v
    BY <2>4 DEF Lent
  <2>8. ~Lent(v) /\ ~Reclaiming(v)
    BY <2>1, Parts DEF Apart
  <2>9. \A m \in DOMAIN local_vlan_map : local_vlan_map[m].vlan # v
    BY <2>8 DEF Lent
  <2>10. \A n1, n2 \in DOMAIN local_vlan_map' : n1 # n2 => local_vlan_map'[n1].vlan # local_vlan_map'[n2].vlan
    BY <2>4, <2>9, Parts DEF Apart
  <2>11. \A w \in Vlans : \/ w \in available_local_vlans' /\ ~Lent(w)' /\ ~Reclaiming(w)'
                          \/ w \notin available_local_vlans' /\ Lent(w)' /\ ~Reclaiming(w)'
                          \/ w \notin available_local_vlans' /\ ~Lent(w)' /\ Reclaiming(w)'
    BY <1>2, <2>6, <2>7, <2>8, Parts DEF Apart
  <2>12. Apart'
    BY <2>3, <2>10, <2>11, Parts DEF Apart
  <2>13. RoundOK'
    BY <1>2, Parts DEF RoundOK
  <2>14. QED BY <2>3, <2>5, <2>12, <2>13
<1>3. QED BY <1>1, <1>2 DEF Provision

(* A network loses its local VLAN to the greenthread that gives it back. *)
LEMMA ReclaimFacts ==
  ASSUME IInv, NEW t \in Threads, job[t].at # "reclaim", NEW n \in DOMAIN local_vlan_map,
         Reclaim(t, n), UNCHANGED available_local_vlans
  PROVE  JobsOK' /\ MapOK' /\ Apart'
<1> DEFINE v == local_vlan_map[n].vlan
           j == [at |-> "reclaim", net |-> n, vlan |-> v]
<1>1. n \in Networks /\ v \in Vlans
  BY Parts DEF MapOK
<1>2. j \in Jobs /\ NoneIsDown(j) /\ j.at = "reclaim" /\ j.vlan = v
  BY <1>1, IsJob DEF NoneIsDown
<1>3. To(t, j) /\ local_vlan_map' = Drop(local_vlan_map, n)
  BY DEF Reclaim
<1>4. /\ DOMAIN local_vlan_map' = DOMAIN local_vlan_map \ {n}
      /\ \A m \in DOMAIN local_vlan_map' : local_vlan_map'[m] = local_vlan_map[m]
  BY <1>3 DEF Drop
<1>5. \A m \in DOMAIN local_vlan_map : m # n => local_vlan_map[m].vlan # v
  BY Parts DEF Apart
<1>6. Lent(v)
  BY DEF Lent
<1> HIDE DEF j
<1>7. /\ JobsOK' /\ job'[t].at = "reclaim" /\ job'[t].vlan = v
      /\ \A u \in Threads : u # t => job'[u] = job[u]
  BY <1>2, <1>3, ToFacts
<1> HIDE DEF v
<1>8. v \notin available_local_vlans /\ ~Reclaiming(v)
  BY <1>1, <1>6, Parts DEF Apart
<1>9. MapOK'
  BY <1>4, Parts DEF MapOK
<1>10. \A w : Lent(w)' <=> Lent(w) /\ w # v
  BY <1>4, <1>5 DEF Lent, v
<1>11. \A w : Reclaiming(w)' <=> Reclaiming(w) \/ w = v
  BY <1>7 DEF Reclaiming
<1>12. \A u \in Threads : job[u].at = "reclaim" => job[u].vlan # v
  BY <1>8 DEF Reclaiming
<1>13. \A t1, t2 \in Threads : t1 # t2 /\ job'[t1].at = "reclaim" /\ job'[t2].at = "reclaim"
                                 => job'[t1].vlan # job'[t2].vlan
  BY <1>7, <1>12, Parts DEF Apart
<1>14. \A n1, n2 \in DOMAIN local_vlan_map' : n1 # n2 => local_vlan_map'[n1].vlan # local_vlan_map'[n2].vlan
  BY <1>4, Parts DEF Apart
<1>15. \A w \in Vlans : \/ w \in available_local_vlans' /\ ~Lent(w)' /\ ~Reclaiming(w)'
                        \/ w \notin available_local_vlans' /\ Lent(w)' /\ ~Reclaiming(w)'
                        \/ w \notin available_local_vlans' /\ ~Lent(w)' /\ Reclaiming(w)'
  BY <1>6, <1>8, <1>10, <1>11, Parts DEF Apart
<1>16. QED BY <1>7, <1>9, <1>13, <1>14, <1>15 DEF Apart

----------------------------------------------------------------------------
(* The steps of the greenthreads. *)

LEMMA TreatStep ==
  ASSUME IInv, NEW t \in Threads, Treat(t)
  PROVE  IInv'
<1> DEFINE j == job[t]
           after == IF j.net = None THEN Idle ELSE [at |-> "report", port |-> j.port, net |-> j.net, up |-> j.up]
           present == t # Loop \/ j.port \in DOMAIN tag
<1>1. /\ j.at = "treat" /\ j.port \in Ports /\ j.net \in Networks \cup {None} /\ j.up \in BOOLEAN
      /\ j.at # "reclaim" /\ (j.up => j.net \in Networks)
  BY JobFacts, Parts DEF Treat, JobsOK, NoneIsDown
<1>2. UNCHANGED <<server, inbound, outbound, ports, changes, faults>>
  BY DEF Treat
<1>3. CASE j.up /\ Provision(t, j.port, j.net) /\ UNCHANGED tag
  <2>1. JobsOK' /\ MapOK' /\ RoundOK' /\ Apart'
    BY <1>1, <1>2, <1>3, ProvisionFacts
  <2>2. QED BY <1>2, <1>3, <2>1, Frames, Parts DEF bridges
<1>4. CASE /\ j.net \in DOMAIN local_vlan_map
           /\ Enter(t, j.port, j.net, local_vlan_map)
           /\ UNCHANGED <<available_local_vlans, sync, scan, tag>>
  <2>1. JobsOK' /\ MapOK' /\ Apart'
    BY <1>1, <1>4, EnterFacts
  <2>2. QED BY <1>2, <1>4, <2>1, Frames, Parts DEF bridges, round
<1>5. CASE /\ tag' = IF present /\ j.port \in DOMAIN tag THEN [tag EXCEPT ![j.port] = DeadVlan] ELSE tag
           /\ To(t, after)
           /\ UNCHANGED <<vlans, sync, scan>>
  <2>1. after \in Jobs /\ NoneIsDown(after) /\ after.at # "reclaim"
    BY <1>1, IsJob DEF NoneIsDown, Idle
  <2> HIDE DEF after
  <2>2. JobsOK' /\ MapOK' /\ Apart'
    BY <1>1, <1>5, <2>1, OtherJob
  <2>3. BridgesOK'
    BY <1>2, <1>5, Parts DEF BridgesOK, Range, Tags
  <2>4. QED BY <1>2, <1>5, <2>2, <2>3, Frames, Parts DEF round
<1>6. QED BY <1>3, <1>4, <1>5 DEF Treat

LEMMA FlowsStep ==
  ASSUME IInv, NEW t \in Threads, Flows(t)
  PROVE  IInv'
<1> DEFINE j == job[t]
           n == j.net
           v == local_vlan_map[n].vlan
<1>1. j.at = "flows" /\ j.at # "reclaim" /\ j.port \in Ports /\ n \in Networks
  BY JobFacts, Parts DEF Flows, JobsOK
<1>2. UNCHANGED <<server, tag, ports, changes, faults>>
  BY DEF Flows
<1>3. CASE Raise(t) /\ UNCHANGED <<inbound, outbound, vlans>>
  <2>1. RoundOK' /\ JobsOK' /\ MapOK' /\ Apart'
    BY <1>1, <1>2, <1>3, RaiseFacts, OtherJob
  <2>2. QED BY <1>2, <1>3, <2>1, Frames, Parts DEF bridges
<1>4. CASE /\ n \in DOMAIN local_vlan_map
           /\ inbound' = Put(inbound, n, v) /\ outbound' = Put(outbound, v, n)
           /\ Enter(t, j.port, n, local_vlan_map)
           /\ UNCHANGED <<available_local_vlans, sync, scan>>
  <2>1. JobsOK' /\ MapOK' /\ Apart'
    BY <1>1, <1>4, EnterFacts
  <2>2. v \in Vlans
    BY <1>4, Parts DEF MapOK
  <2>3. BridgesOK'
    BY <1>1, <1>2, <1>4, <2>2, Parts DEF BridgesOK, Range, Put
  <2>4. QED BY <1>2, <1>4, <2>1, <2>3, Frames, Parts DEF round
<1>5. QED BY <1>3, <1>4 DEF Flows

LEMMA TagStep ==
  ASSUME IInv, NEW t \in Threads, Tag(t)
  PROVE  IInv'
<1> DEFINE j == job[t]
           after == [at |-> "report", port |-> j.port, net |-> j.net, up |-> TRUE]
<1>1. j.at = "tag" /\ j.at # "reclaim" /\ j.port \in Ports /\ j.net \in Networks /\ j.vlan \in Vlans
  BY JobFacts, Parts DEF Tag, JobsOK
<1>2. /\ tag' = IF j.port \in DOMAIN tag THEN [tag EXCEPT ![j.port] = j.vlan] ELSE tag
      /\ To(t, after)
      /\ UNCHANGED <<server, inbound, outbound, vlans, round, changes, faults>>
  BY DEF Tag
<1>3. after \in Jobs /\ NoneIsDown(after) /\ after.at # "reclaim"
  BY <1>1, IsJob DEF NoneIsDown
<1> HIDE DEF after
<1>4. JobsOK' /\ MapOK' /\ Apart'
  BY <1>1, <1>2, <1>3, OtherJob
<1>5. BridgesOK'
  BY <1>1, <1>2, Parts DEF BridgesOK, Range, Tags
<1>6. QED BY <1>2, <1>4, <1>5, Frames, Parts

(* The local VLAN is available again, and nobody else has it. *)
LEMMA ReclaimedStep ==
  ASSUME IInv, NEW t \in Threads, Reclaimed(t)
  PROVE  IInv'
<1> DEFINE v == job[t].vlan
<1>1. job[t].at = "reclaim" /\ job[t].net \in Networks /\ v \in Vlans
  BY JobFacts, Parts DEF Reclaimed, JobsOK
<1>2. /\ inbound' = Drop(inbound, job[t].net) /\ outbound' = Drop(outbound, v)
      /\ available_local_vlans' = available_local_vlans \cup {v}
      /\ To(t, Idle)
      /\ UNCHANGED <<server, tag, local_vlan_map, round, changes, faults>>
  BY DEF Reclaimed
<1>3. Idle \in Jobs /\ NoneIsDown(Idle) /\ Idle.at = "idle"
  BY IsJob DEF NoneIsDown, Idle
<1>4. /\ JobsOK' /\ job'[t].at = "idle"
      /\ \A u \in Threads : u # t => job'[u] = job[u]
  BY <1>2, <1>3, ToFacts
<1>5. MapOK'
  BY <1>1, <1>2, Parts DEF MapOK
<1>6. BridgesOK'
  BY <1>2, Parts DEF BridgesOK, Range, Drop
<1>7. Reclaiming(v)
  BY <1>1 DEF Reclaiming
<1>8. ~Lent(v)
  BY <1>1, <1>7, Parts DEF Apart
<1>9. \A u \in Threads : u # t /\ job[u].at = "reclaim" => job[u].vlan # v
  BY <1>1, Parts DEF Apart
<1> HIDE DEF v
<1>10. \A w : Lent(w)' <=> Lent(w)
  BY <1>2 DEF Lent
<1>11. \A w : Reclaiming(w)' <=> Reclaiming(w) /\ w # v
  BY <1>4, <1>9 DEF Reclaiming, v
<1>12. Apart'
  BY <1>2, <1>4, <1>8, <1>10, <1>11, Parts DEF Apart
<1>13. QED BY <1>2, <1>4, <1>5, <1>6, <1>12, Frames, Parts

LEMMA WithFacts ==
  ASSUME IInv, NEW p \in Ports, NEW status \in {"ACTIVE", "DOWN"}, NEW new, new = With(p, status)
  PROVE  /\ DOMAIN new \subseteq Ports
         /\ \A q \in DOMAIN new : new[q] \in [admin_state_up : BOOLEAN, status : {"ACTIVE", "DOWN"}]
BY Parts DEF ServerOK, With

(* The server's answer, or a call that fails: it has reached it or not. *)
LEMMA CalledFacts ==
  ASSUME IInv, NEW p \in Ports, NEW status \in {"ACTIVE", "DOWN"},
         Answered(With(p, status)) \/ Lost(With(p, status)), UNCHANGED <<networks, inbox, changes>>
  PROVE  ServerOK' /\ CountersOK'
<1>1. port' \in {port, With(p, status)}
  BY DEF Answered, Lost
<1>2. ServerOK'
  BY <1>1, WithFacts, Parts DEF ServerOK
<1>3. CountersOK'
  BY Frames, CounterFacts DEF Answered, Lost
<1>4. QED BY <1>2, <1>3

LEMMA ReportStep ==
  ASSUME IInv, NEW t \in Threads, Report(t)
  PROVE  IInv'
<1> DEFINE j == job[t]
           status == IF t = Loop \/ j.up THEN "ACTIVE" ELSE "DOWN"
<1>1. j.at = "report" /\ j.at # "reclaim" /\ j.port \in Ports /\ status \in {"ACTIVE", "DOWN"}
  BY JobFacts, Parts DEF Report, JobsOK
<1>2. UNCHANGED <<networks, inbox, bridges, vlans, ports, changes>>
  BY DEF Report
<1> HIDE DEF status
<1>3. \/ Answered(With(j.port, status)) /\ To(t, Idle) /\ UNCHANGED <<sync, scan>>
      \/ Lost(With(j.port, status)) /\ Raise(t)
  BY DEF Report, status
<1>4. ServerOK' /\ CountersOK'
  BY <1>1, <1>2, <1>3, CalledFacts
<1>5. To(t, Idle) /\ Idle \in Jobs /\ NoneIsDown(Idle) /\ Idle.at # "reclaim"
  BY <1>3, IsJob DEF Raise, NoneIsDown, Idle
<1>6. JobsOK' /\ MapOK' /\ Apart'
  BY <1>1, <1>2, <1>5, OtherJob
<1>7. RoundOK'
  BY <1>2, <1>3, RaiseFacts, Frames DEF round
<1>8. QED BY <1>2, <1>4, <1>6, <1>7, Frames, Parts

LEMMA UnbindStep ==
  ASSUME IInv, Unbind
  PROVE  IInv'
<1> DEFINE p == job[Loop].port
           nets == {n \in DOMAIN local_vlan_map : p \in local_vlan_map[n].vif_ports}
<1>1. Loop \in Threads /\ job[Loop].at = "unbind" /\ job[Loop].at # "reclaim"
  BY DEF Unbind, Threads
<1>2. UNCHANGED <<server, bridges, available_local_vlans, round, changes, faults>>
  BY DEF Unbind
<1>3. Idle \in Jobs /\ NoneIsDown(Idle) /\ Idle.at # "reclaim"
  BY IsJob DEF NoneIsDown, Idle
<1>4. JobsOK' /\ MapOK' /\ Apart'
  <2>1. CASE To(Loop, Idle) /\ UNCHANGED local_vlan_map
    BY <1>1, <1>2, <1>3, <2>1, OtherJob DEF vlans
  <2>2. ASSUME NEW n \in nets, Reclaim(Loop, n)
        PROVE  JobsOK' /\ MapOK' /\ Apart'
    BY <1>1, <1>2, <2>2, ReclaimFacts
  <2>3. ASSUME NEW n \in nets, To(Loop, Idle),
               local_vlan_map' = [local_vlan_map EXCEPT ![n].vif_ports = @ \ {p}]
        PROVE  JobsOK' /\ MapOK' /\ Apart'
    <3>1. /\ DOMAIN local_vlan_map' = DOMAIN local_vlan_map
          /\ \A m \in DOMAIN local_vlan_map :
               /\ local_vlan_map'[m] \in [vlan : Vlans, vif_ports : SUBSET Ports]
               /\ local_vlan_map'[m].vlan = local_vlan_map[m].vlan
      BY <2>3, Parts DEF MapOK
    <3>2. MapOK'
      BY <1>2, <3>1, Parts DEF MapOK
    <3>3. QED BY <1>1, <1>2, <1>3, <2>3, <3>1, <3>2, ToFacts, SameVlans
  <2>4. QED BY <2>1, <2>2, <2>3 DEF Unbind
<1>5. QED BY <1>2, <1>4, Frames, Parts

LEMMA PollStep ==
  ASSUME IInv, Poll
  PROVE  IInv'
<1> DEFINE registered == IF sync THEN {} ELSE ports
           Found(current) ==
             scan' = IF current = registered THEN None
                     ELSE [added |-> current \ registered, removed |-> registered \ current,
                           current |-> current, resync |-> FALSE]
<1>1. /\ sync' = FALSE /\ ports' = registered
      /\ UNCHANGED <<server, bridges, vlans, job, changes>>
      /\ \/ Found(DOMAIN tag) /\ UNCHANGED faults
         \/ Found({}) /\ Fault("command")
  BY DEF Poll
<1>2. DOMAIN tag \subseteq Ports /\ registered \subseteq Ports
  BY Parts DEF BridgesOK, RoundOK
<1> HIDE DEF registered
<1>3. ASSUME NEW current \in SUBSET Ports, Found(current)
      PROVE  RoundOK'
  BY <1>1, <1>2, <1>3 DEF RoundOK
<1> HIDE DEF Found
<1>4. RoundOK'
  BY <1>1, <1>2, <1>3
<1>5. CountersOK'
  BY <1>1, Frames, CounterFacts
<1>6. QED BY <1>1, <1>4, <1>5, Frames, Parts

(* The scan, with one device less to treat. *)
LEMMA ScanFacts ==
  ASSUME IInv, scan # None, NEW p \in Ports
  PROVE  \A new \in {[scan EXCEPT !.added = @ \ {p}], [scan EXCEPT !.added = @ \ {p}, !.resync = TRUE],
                     [scan EXCEPT !.removed = @ \ {p}], [scan EXCEPT !.removed = @ \ {p}, !.resync = TRUE]} :
           UNCHANGED <<ports, sync>> /\ scan' = new => RoundOK'
<1> DEFINE Scans == [added : SUBSET Ports, removed : SUBSET Ports, current : SUBSET Ports, resync : BOOLEAN]
<1>1. scan \in Scans /\ ports \subseteq Ports /\ sync \in BOOLEAN
  BY Parts DEF RoundOK
<1>2. /\ [scan EXCEPT !.added = @ \ {p}] \in Scans
      /\ [scan EXCEPT !.added = @ \ {p}, !.resync = TRUE] \in Scans
      /\ [scan EXCEPT !.removed = @ \ {p}] \in Scans
      /\ [scan EXCEPT !.removed = @ \ {p}, !.resync = TRUE] \in Scans
  BY <1>1
<1>3. QED BY <1>1, <1>2, Zenon DEF RoundOK

LEMMA DeviceAddedStep ==
  ASSUME IInv, NEW p \in Ports, DeviceAdded(p)
  PROVE  IInv'
<1> DEFINE details == IF p \in DOMAIN port
                      THEN [at |-> "treat", port |-> p, net |-> NetworkOf[p], up |-> port[p].admin_state_up]
                      ELSE [at |-> "treat", port |-> p, net |-> None, up |-> FALSE]
           status == IF details.up THEN "ACTIVE" ELSE "DOWN"
<1>1. /\ Loop \in Threads /\ job[Loop].at # "reclaim" /\ scan # None
      /\ UNCHANGED <<networks, inbox, bridges, vlans, ports, sync, changes>>
  BY DEF DeviceAdded, Threads, Idle
<1>2. details \in Jobs /\ NoneIsDown(details) /\ details.at # "reclaim"
  <2>1. CASE p \in DOMAIN port
    <3>1. NetworkOf[p] \in Networks /\ port[p].admin_state_up \in BOOLEAN /\ None \notin Networks
      BY <2>1, OvsAssumption, Parts DEF ServerOK
    <3>2. QED BY <2>1, <3>1, IsJob DEF NoneIsDown
  <2>2. CASE p \notin DOMAIN port
    BY <2>2 DEF Jobs, NoneIsDown
  <2>3. QED BY <2>1, <2>2
<1>3. status \in {"ACTIVE", "DOWN"}
  OBVIOUS
<1> HIDE DEF status
<1>4. \/ /\ Answered(With(p, status)) /\ To(Loop, details)
         /\ scan' = [scan EXCEPT !.added = @ \ {p}]
      \/ /\ Lost(With(p, status)) /\ UNCHANGED job
         /\ scan' = [scan EXCEPT !.added = @ \ {p}, !.resync = TRUE]
  BY DEF DeviceAdded, status
<1> HIDE DEF details
<1>5. ServerOK' /\ CountersOK'
  BY <1>1, <1>3, <1>4, CalledFacts
<1>6. RoundOK'
  BY <1>1, <1>4, ScanFacts
<1>7. JobsOK' /\ MapOK' /\ Apart'
  <2>1. CASE To(Loop, details)
    BY <1>1, <1>2, <2>1, OtherJob
  <2>2. CASE UNCHANGED job
    BY <1>1, <2>2, Frames
  <2>3. QED BY <1>4, <2>1, <2>2
<1>8. QED BY <1>1, <1>5, <1>6, <1>7, Frames, Parts

LEMMA DeviceRemovedStep ==
  ASSUME IInv, NEW p \in Ports, DeviceRemoved(p)
  PROVE  IInv'
<1> DEFINE unbind == [at |-> "unbind", port |-> p]
<1>1. /\ Loop \in Threads /\ job[Loop].at # "reclaim" /\ scan # None
      /\ UNCHANGED <<networks, inbox, bridges, vlans, ports, sync, changes>>
      /\ \/ /\ Answered(With(p, "DOWN")) /\ To(Loop, unbind)
            /\ scan' = [scan EXCEPT !.removed = @ \ {p}]
         \/ /\ Lost(With(p, "DOWN")) /\ UNCHANGED job
            /\ scan' = [scan EXCEPT !.removed = @ \ {p}, !.resync = TRUE]
  BY DEF DeviceRemoved, Threads, Idle
<1>2. unbind \in Jobs /\ NoneIsDown(unbind) /\ unbind.at # "reclaim"
  BY IsJob DEF NoneIsDown
<1> HIDE DEF unbind
<1>3. ServerOK' /\ CountersOK'
  BY <1>1, CalledFacts
<1>4. RoundOK'
  BY <1>1, ScanFacts
<1>5. JobsOK' /\ MapOK' /\ Apart'
  <2>1. CASE To(Loop, unbind)
    BY <1>1, <1>2, <2>1, OtherJob
  <2>2. CASE UNCHANGED job
    BY <1>1, <2>2, Frames
  <2>3. QED BY <1>1, <2>1, <2>2
<1>6. QED BY <1>1, <1>3, <1>4, <1>5, Frames, Parts

LEMMA PolledStep ==
  ASSUME IInv, Polled
  PROVE  IInv'
<1>1. /\ scan # None /\ ports' = scan.current /\ sync' = scan.resync /\ scan' = None
      /\ UNCHANGED <<server, bridges, vlans, job, changes, faults>>
  BY DEF Polled
<1>2. RoundOK'
  BY <1>1, Parts DEF RoundOK
<1>3. QED BY <1>1, <1>2, Frames, Parts

LEMMA HandleStep ==
  ASSUME IInv, NEW w \in Workers, Handle(w)
  PROVE  IInv'
<1> DEFINE message == Head(inbox)
<1>1. /\ inbox # <<>> /\ inbox' = Tail(inbox) /\ w \in Threads /\ job[w].at # "reclaim"
      /\ UNCHANGED <<port, networks, bridges, available_local_vlans, round, changes, faults>>
  BY DEF Handle, Threads, Idle
<1>2. message \in Messages /\ inbox' \in Seq(Messages)
  BY <1>1, Parts, HeadTailProperties DEF ServerOK
<1>3. ServerOK'
  BY <1>1, <1>2, Parts DEF ServerOK
<1> HIDE DEF message
<1>4. \/ UNCHANGED <<job, local_vlan_map>>
      \/ /\ "deleted" \in DOMAIN message /\ message.deleted \in DOMAIN local_vlan_map
         /\ Reclaim(w, message.deleted)
      \/ /\ "port" \in DOMAIN message /\ UNCHANGED local_vlan_map
         /\ To(w, [at |-> "treat", port |-> message.port, net |-> NetworkOf[message.port], up |-> message.up])
  BY DEF Handle, message
<1>5. JobsOK' /\ MapOK' /\ Apart'
  <2>1. CASE UNCHANGED <<job, local_vlan_map>>
    BY <1>1, <2>1, Frames DEF vlans
  <2>2. CASE message.deleted \in DOMAIN local_vlan_map /\ Reclaim(w, message.deleted)
    BY <1>1, <2>2, ReclaimFacts
  <2>3. CASE /\ "port" \in DOMAIN message /\ UNCHANGED local_vlan_map
             /\ To(w, [at |-> "treat", port |-> message.port, net |-> NetworkOf[message.port], up |-> message.up])
    <3> DEFINE j == [at |-> "treat", port |-> message.port, net |-> NetworkOf[message.port], up |-> message.up]
    <3>1. message.port \in Ports /\ message.up \in BOOLEAN
      BY <1>2, <2>3 DEF Messages
    <3>2. NetworkOf[message.port] \in Networks /\ None \notin Networks
      BY <3>1, OvsAssumption
    <3>3. j \in Jobs /\ NoneIsDown(j) /\ j.at # "reclaim"
      BY <3>1, <3>2, IsJob DEF NoneIsDown
    <3> HIDE DEF j
    <3>4. To(w, j)
      BY <2>3 DEF j
    <3>5. QED BY <1>1, <2>3, <3>3, <3>4, OtherJob DEF vlans
  <2>4. QED BY <1>4, <2>1, <2>2, <2>3
<1>6. QED BY <1>1, <1>3, <1>5, Frames, Parts

----------------------------------------------------------------------------
LEMMA Initially == Init => IInv
<1> SUFFICES ASSUME Init PROVE IInv
  OBVIOUS
<1> USE DEF Init
<1>1. DOMAIN Empty = {} /\ \A S : Range(Empty) \subseteq S
  BY DEF Empty, Range
<1>2. ServerOK
  BY DEF ServerOK
<1>3. BridgesOK /\ MapOK /\ RoundOK
  BY <1>1 DEF BridgesOK, MapOK, RoundOK
<1>4. JobsOK
  BY DEF JobsOK, NoneIsDown, Jobs, Idle
<1>5. CountersOK
  BY OvsAssumption DEF CountersOK
<1>6. Apart
  BY <1>1 DEF Apart, Lent, Reclaiming, Idle
<1>7. QED BY <1>2, <1>3, <1>4, <1>5, <1>6, Parts

LEMMA Unchanged == IInv /\ UNCHANGED vars => IInv'
BY Frames, Parts DEF vars

(* Every step of the agent, the API and nova keeps the invariant. *)
THEOREM Invariance == Spec => []IInv
<1>1. IInv /\ [Next]_vars => IInv'
  <2> SUFFICES ASSUME IInv, [Next]_vars PROVE IInv'
    OBVIOUS
  <2>1. ASSUME NEW p \in Ports, UpdatePort(p) \/ DeletePort(p) \/ Plug(p) \/ Unplug(p) PROVE IInv'
    BY <2>1, UpdatePortStep, DeletePortStep, PlugStep
  <2>2. ASSUME NEW n \in Networks, DeleteNetwork(n) PROVE IInv'
    BY <2>2, DeleteNetworkStep
  <2>3. ASSUME NEW t \in Threads, Step(t) PROVE IInv'
    BY <2>3, TreatStep, FlowsStep, TagStep, ReportStep, ReclaimedStep DEF Step
  <2>4. CASE RpcLoop
    BY <2>4, PollStep, PolledStep, UnbindStep, DeviceAddedStep, DeviceRemovedStep DEF RpcLoop
  <2>5. ASSUME NEW w \in Workers, Handle(w) PROVE IInv'
    BY <2>5, HandleStep
  <2>6. CASE Crash
    BY <2>6, CrashStep
  <2>7. QED BY <2>1, <2>2, <2>3, <2>4, <2>5, <2>6, Unchanged DEF Next
<1>2. QED BY Initially, <1>1, PTL DEF Spec

(* Every variable keeps its type; among others, no handler and no round of *)
(* rpc_loop maps a network it has no details of.                           *)
THEOREM TypeCorrect == Spec => []TypeOK
<1>1. IInv => TypeOK
  BY DEF IInv
<1>2. QED BY Invariance, <1>1, PTL

(* A local VLAN is available, lent to one network, or being given back by  *)
(* one greenthread: provision_local_vlan and reclaim_local_vlan lose none  *)
(* and lend none twice, however many handlers are between two commands.    *)
THEOREM LentOnce == Spec => []VlansApart
<1>1. IInv => VlansApart
  BY ApartCounts DEF IInv
<1>2. QED BY Invariance, <1>1, PTL
=============================================================================
