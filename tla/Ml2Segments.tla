---------------------------- MODULE Ml2Segments ----------------------------
(***************************************************************************)
(* The segments of ML2 networks: TypeManager and the type drivers for      *)
(* VLAN, GRE, VXLAN and flat networks, each with its table of allocations, *)
(* as create_network, delete_network and a restart of the server with      *)
(* another configuration use them.  Each call is a transaction.            *)
(*                                                                         *)
(* GRE and VXLAN differ in the names of columns only: "tunnel" stands for  *)
(* either.  Local networks have no table.                                  *)
(***************************************************************************)
EXTENDS Naturals, Sequences, FiniteSets, SequencesExt

CONSTANTS Networks, Physnets,
          Ids,          \* VLAN tags and tunnel ids
          Configs,      \* [vlan : physnet -> ranges, tunnel : ranges, flat : SUBSET Physnets,
                        \*  tenant : Seq of types], of which restarts choose
          MaxSegments,  \* bound on the segments of a provider network
          None

ASSUME NetworksAssumption == None \notin Physnets /\ Ids \subseteq Nat \ {0} /\ MaxSegments \in Nat

VARIABLES config,     \* the server's configuration
          rows,       \* segment -> allocated, the tables of the drivers
          networks    \* network -> its NetworkSegment records

vars == <<config, rows, networks>>

Segment == [type : {"vlan"}, phys : Physnets, id : Ids]
           \cup [type : {"tunnel"}, phys : {None}, id : Ids]
           \cup [type : {"flat"}, phys : Physnets, id : {None}]

TypeOK ==
  /\ config \in Configs
  /\ DOMAIN rows \subseteq Segment /\ \A s \in DOMAIN rows : rows[s] \in BOOLEAN
  /\ DOMAIN networks \subseteq Networks /\ \A n \in DOMAIN networks : networks[n] \subseteq Segment

Within(i, range) == range[1] <= i /\ i <= range[2]
Ranges(c, s) ==   \* the ranges its driver looks at
  CASE s.type = "vlan" -> IF s.phys \in DOMAIN c.vlan THEN c.vlan[s.phys] ELSE <<>>
    [] s.type = "tunnel" -> c.tunnel
    [] OTHER -> <<>>
InPool(c, s) == \E range \in Range(Ranges(c, s)) : Within(s.id, range)

Set(f, x, v) == [y \in DOMAIN f \cup {x} |-> IF y = x THEN v ELSE f[y]]
Drop(f, X) == [y \in DOMAIN f \ X |-> f[y]]

----------------------------------------------------------------------------
(* initialize(): _sync_vlan_allocations and its like.  Flat networks are   *)
(* not synchronised.                                                       *)

(* Mutant: what is not allocatable any more leaves the table, in use or not. *)
SyncedToPool(c, old) ==
  LET kept == {s \in DOMAIN old : s.type = "flat" \/ InPool(c, s)}
      missing == {s \in Segment \ DOMAIN old : InPool(c, s)}
  IN  [s \in kept \cup missing |-> s \in kept /\ old[s]]

Synced(c, old) ==
  LET kept == {s \in DOMAIN old : s.type = "flat" \/ old[s] \/ InPool(c, s)}
      missing == {s \in Segment \ DOMAIN old : InPool(c, s)}
  IN  [s \in kept \cup missing |-> s \in kept /\ old[s]]

Init == /\ config \in Configs
        /\ rows = [s \in {s \in Segment : InPool(config, s)} |-> FALSE]
        /\ networks = [n \in {} |-> {}]

Restart(c) ==
  /\ config' = c
  /\ rows' = Synced(c, rows)
  /\ UNCHANGED networks

----------------------------------------------------------------------------
(* Network calls. *)

Valid(s) ==   \* validate_provider_segment
  CASE s.type = "vlan" -> s.phys \in DOMAIN config.vlan
    [] s.type = "flat" -> s.phys \in config.flat
    [] OTHER -> TRUE

(* reserve_provider_segment of one after the other; all or nothing. *)
CreateProviderNetwork(n, segments) ==
  /\ n \notin DOMAIN networks
  /\ segments # <<>> /\ IsInjective(segments)
  /\ \A s \in Range(segments) : Valid(s) /\ ~(s \in DOMAIN rows /\ rows[s])
  /\ rows' = [s \in DOMAIN rows \cup Range(segments) |-> s \in Range(segments) \/ rows[s]]
  /\ networks' = Set(networks, n, Range(segments))
  /\ UNCHANGED config

(* allocate_tenant_segment: any free row of the first tenant type with one. *)
CreateTenantNetwork(n) ==
  LET Free(type) == {s \in DOMAIN rows : s.type = type /\ ~rows[s]}
      types == SelectSeq(config.tenant, LAMBDA type : Free(type) # {})
  IN  /\ n \notin DOMAIN networks
      /\ types # <<>>
      /\ \E s \in Free(Head(types)) : /\ rows' = [rows EXCEPT ![s] = TRUE]
                                      /\ networks' = Set(networks, n, {s})
      /\ UNCHANGED config

(* Mutant: the row of an id outside the pool stays, free. *)
KeptAlways(s) == s.type # "flat"

(* release_segment.  The tunnel drivers' loop deletes the row at the first *)
(* range that does not hold the id, and goes on.                           *)
Kept(s) ==
  LET ranges == Ranges(config, s)
  IN  \/ s.type = "vlan" /\ InPool(config, s)
      \/ s.type = "tunnel" /\ (ranges = <<>> \/ Within(s.id, ranges[1]))

Released(segments) ==
  [s \in {s \in DOMAIN rows : s \in segments => Kept(s)} |-> rows[s] /\ s \notin segments]

DeleteNetwork(n) ==
  /\ n \in DOMAIN networks
  /\ rows' = Released(networks[n])
  /\ networks' = Drop(networks, {n})
  /\ UNCHANGED config

Next ==
  \/ \E c \in Configs : Restart(c)
  \/ \E n \in Networks : CreateTenantNetwork(n) \/ DeleteNetwork(n)
  \/ \E n \in Networks, segments \in SeqOf(Segment, MaxSegments) : CreateProviderNetwork(n, segments)

Spec == Init /\ [][Next]_vars

----------------------------------------------------------------------------
Used == UNION Range(networks)

(* A segment is allocated as long as a network has it, and then one has    *)
(* it: none is lent twice or lost, whatever the configurations since.      *)
SegmentsAccounted ==
  /\ {s \in DOMAIN rows : rows[s]} = Used
  /\ \A n1, n2 \in DOMAIN networks : n1 # n2 => networks[n1] \cap networks[n2] = {}

(* "If allocated is False, the vlan_id on the physical_network is          *)
(* available for allocation": the free rows are what the configuration     *)
(* gives tenants and no network uses, no more and no less.                 *)
FreeIsPool(type) ==
  {s \in DOMAIN rows : s.type = type /\ ~rows[s]} = {s \in Segment : s.type = type /\ InPool(config, s)} \ Used

VlansFree == FreeIsPool("vlan")

(* tunnel_id_ranges and vni_ranges are "available for tenant network       *)
(* allocation".                                                            *)
TunnelsFree == FreeIsPool("tunnel")
=============================================================================
