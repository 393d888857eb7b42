------------------------- MODULE Ml2SegmentsProofs -------------------------
(***************************************************************************)
(* The type drivers' tables agree with the networks and with the           *)
(* configuration, for every set of configurations, networks and ids.       *)
(***************************************************************************)
EXTENDS Ml2Segments, TLAPS

(* The inductive invariant: that a release gives up nothing another        *)
(* network has needs that networks share no segment, and that what is free *)
(* is what the pool offers needs that what is allocated is in use.         *)
IInv == TypeOK /\ SegmentsAccounted /\ VlansFree

----------------------------------------------------------------------------
(* Lemmas about the tables, one element at a time. *)

LEMMA UsedFacts == \A s : s \in Used <=> \E n \in DOMAIN networks : s \in networks[n]
BY DEF Used, Range

LEMMA UsedFactsNext == \A s : s \in Used' <=> \E n \in DOMAIN networks' : s \in networks'[n]
BY DEF Used, Range

(* What the invariant says of one segment and of one network. *)
LEMMA InvFacts ==
  ASSUME IInv
  PROVE  /\ \A s \in DOMAIN rows : s \in Segment /\ rows[s] \in BOOLEAN
         /\ \A s : s \in DOMAIN rows /\ rows[s] <=> s \in Used
         /\ \A s \in Segment : s.type = "vlan" =>
              (s \in DOMAIN rows /\ ~rows[s] <=> InPool(config, s) /\ s \notin Used)
         /\ \A n \in DOMAIN networks : n \in Networks /\ networks[n] \subseteq Segment
         /\ \A n1, n2 \in DOMAIN networks : n1 # n2 => networks[n1] \cap networks[n2] = {}
BY DEF IInv, TypeOK, SegmentsAccounted, VlansFree, FreeIsPool

(* And the other way round, for the next state. *)
LEMMA InvFromFacts ==
  ASSUME config' \in Configs,
         \A s \in DOMAIN rows' : s \in Segment /\ rows'[s] \in BOOLEAN,
         \A s : s \in DOMAIN rows' /\ rows'[s] <=> s \in Used',
         \A s \in Segment : s.type = "vlan" =>
           (s \in DOMAIN rows' /\ ~rows'[s] <=> InPool(config', s) /\ s \notin Used'),
         \A n \in DOMAIN networks' : n \in Networks /\ networks'[n] \subseteq Segment,
         \A n1, n2 \in DOMAIN networks' : n1 # n2 => networks'[n1] \cap networks'[n2] = {}
  PROVE  IInv'
<1>1. TypeOK'
  BY DEF TypeOK
<1>2. SegmentsAccounted'
  BY DEF SegmentsAccounted
<1>3. VlansFree'
  BY DEF VlansFree, FreeIsPool, InPool, Ranges
<1>4. QED BY <1>1, <1>2, <1>3 DEF IInv

----------------------------------------------------------------------------
(* The steps. *)

(* initialize(): what was allocated stays so, and the free rows are those  *)
(* of the new pool.                                                        *)
LEMMA RestartStep ==
  ASSUME IInv, NEW c \in Configs, Restart(c)
  PROVE  IInv'
<1> USE InvFacts
<1> DEFINE kept == {s \in DOMAIN rows : s.type = "flat" \/ rows[s] \/ InPool(c, s)}
           missing == {s \in Segment \ DOMAIN rows : InPool(c, s)}
<1>1. /\ config' = c /\ networks' = networks
      /\ rows' = [s \in kept \cup missing |-> s \in kept /\ rows[s]]
  BY DEF Restart, Synced
<1>2. \A s : s \in Used' <=> s \in Used
  BY <1>1, UsedFacts, UsedFactsNext
<1>3. \A s \in DOMAIN rows' : s \in Segment /\ rows'[s] \in BOOLEAN
  BY <1>1
<1>4. \A s : s \in DOMAIN rows' /\ rows'[s] <=> s \in Used'
  BY <1>1, <1>2
<1>5. \A s \in Segment : s.type = "vlan" =>
        (s \in DOMAIN rows' /\ ~rows'[s] <=> InPool(config', s) /\ s \notin Used')
  BY <1>1, <1>2
<1>6. QED BY <1>1, <1>3, <1>4, <1>5, InvFromFacts

(* Segments that were free, or not in the table, become those of a new     *)
(* network: what a provider and what a tenant network have in common.      *)
LEMMA TakingFacts ==
  ASSUME IInv, NEW n \in Networks, NEW taken \in SUBSET Segment,
         n \notin DOMAIN networks, \A s \in taken : ~(s \in DOMAIN rows /\ rows[s]),
         rows' = [s \in DOMAIN rows \cup taken |-> s \in taken \/ rows[s]],
         networks' = Set(networks, n, taken), config' = config
  PROVE  IInv'
<1> USE InvFacts
<1>1. /\ DOMAIN networks' = DOMAIN networks \cup {n}
      /\ networks'[n] = taken
      /\ \A m \in DOMAIN networks : networks'[m] = networks[m]
  BY DEF Set
<1>2. \A s : s \in Used' <=> s \in Used \/ s \in taken
  BY <1>1, UsedFacts, UsedFactsNext
<1>3. \A m \in DOMAIN networks : networks[m] \cap taken = {}
  BY UsedFacts
<1>4. \A s \in DOMAIN rows' : s \in Segment /\ rows'[s] \in BOOLEAN
  OBVIOUS
<1>5. \A s : s \in DOMAIN rows' /\ rows'[s] <=> s \in Used'
  BY <1>2
<1>6. \A s \in Segment : s.type = "vlan" =>
        (s \in DOMAIN rows' /\ ~rows'[s] <=> InPool(config', s) /\ s \notin Used')
  BY <1>2
<1>7. \A m \in DOMAIN networks' : m \in Networks /\ networks'[m] \subseteq Segment
  BY <1>1
<1>8. \A n1, n2 \in DOMAIN networks' : n1 # n2 => networks'[n1] \cap networks'[n2] = {}
  BY <1>1, <1>3
<1>9. config' \in Configs
  BY DEF IInv, TypeOK
<1>10. QED BY <1>4, <1>5, <1>6, <1>7, <1>8, <1>9, InvFromFacts

LEMMA CreateProviderNetworkStep ==
  ASSUME IInv, NEW n \in Networks, NEW segments \in SeqOf(Segment, MaxSegments),
         CreateProviderNetwork(n, segments)
  PROVE  IInv'
<1>1. segments \in Seq(Segment)
  BY DEF SeqOf
<1>2. Range(segments) \subseteq Segment
  BY <1>1 DEF Range
<1>3. QED BY <1>2, TakingFacts DEF CreateProviderNetwork

LEMMA CreateTenantNetworkStep ==
  ASSUME IInv, NEW n \in Networks, CreateTenantNetwork(n)
  PROVE  IInv'
<1>1. PICK s \in DOMAIN rows : /\ ~rows[s] /\ n \notin DOMAIN networks
                               /\ rows' = [rows EXCEPT ![s] = TRUE]
                               /\ networks' = Set(networks, n, {s}) /\ config' = config
  BY DEF CreateTenantNetwork
<1>2. {s} \in SUBSET Segment
  BY InvFacts
<1>3. rows' = [t \in DOMAIN rows \cup {s} |-> t \in {s} \/ rows[t]]
  BY <1>1, InvFacts
<1>4. QED BY <1>1, <1>2, <1>3, TakingFacts

(* release_segment of all segments of a network. *)
LEMMA DeleteNetworkStep ==
  ASSUME IInv, NEW n \in Networks, DeleteNetwork(n)
  PROVE  IInv'
<1> USE InvFacts
<1> DEFINE given == networks[n]
<1>1. /\ n \in DOMAIN networks /\ config' = config
      /\ rows' = [s \in {s \in DOMAIN rows : s \in given => Kept(s)} |-> rows[s] /\ s \notin given]
  BY DEF DeleteNetwork, Released
<1>2. /\ DOMAIN networks' = DOMAIN networks \ {n}
      /\ \A m \in DOMAIN networks \ {n} : networks'[m] = networks[m]
  BY DEF DeleteNetwork, Drop
<1>3. \A s : s \in Used' <=> s \in Used /\ s \notin given
  BY <1>1, <1>2, UsedFacts, UsedFactsNext
<1>4. \A s \in Segment : s.type = "vlan" => (Kept(s) <=> InPool(config, s))
  BY DEF Kept
<1>5. \A s \in given : s \in DOMAIN rows /\ rows[s]
  BY <1>1, UsedFacts
<1>6. \A s \in DOMAIN rows' : s \in Segment /\ rows'[s] \in BOOLEAN
  BY <1>1
<1>7. \A s : s \in DOMAIN rows' /\ rows'[s] <=> s \in Used'
  BY <1>1, <1>3
<1>8. \A s \in Segment : s.type = "vlan" =>
        (s \in DOMAIN rows' /\ ~rows'[s] <=> InPool(config', s) /\ s \notin Used')
  BY <1>1, <1>3, <1>4, <1>5
<1>9. \A m \in DOMAIN networks' : m \in Networks /\ networks'[m] \subseteq Segment
  BY <1>2
<1>10. \A n1, n2 \in DOMAIN networks' : n1 # n2 => networks'[n1] \cap networks'[n2] = {}
  BY <1>2
<1>11. config' \in Configs
  BY <1>1 DEF IInv, TypeOK
<1>12. QED BY <1>6, <1>7, <1>8, <1>9, <1>10, <1>11, InvFromFacts

----------------------------------------------------------------------------
LEMMA Initially == Init => IInv
<1> SUFFICES ASSUME Init PROVE IInv
  OBVIOUS
<1>1. Used = {}
  BY DEF Init, Used, Range
<1>2. TypeOK
  BY DEF Init, TypeOK
<1>3. SegmentsAccounted
  BY <1>1 DEF Init, SegmentsAccounted
<1>4. VlansFree
  BY <1>1 DEF Init, VlansFree, FreeIsPool
<1>5. QED BY <1>2, <1>3, <1>4 DEF IInv

LEMMA Unchanged == IInv /\ UNCHANGED vars => IInv'
BY DEF IInv, TypeOK, SegmentsAccounted, VlansFree, FreeIsPool, Used, InPool, Ranges, vars

(* Each call and each restart keeps the three together. *)
THEOREM Invariance == Spec => []IInv
<1>1. ASSUME IInv, [Next]_vars
      PROVE  IInv'
  <2>1. CASE \E c \in Configs : Restart(c)
    BY <2>1, <1>1, RestartStep
  <2>2. CASE \E n \in Networks : CreateTenantNetwork(n) \/ DeleteNetwork(n)
    BY <2>2, <1>1, CreateTenantNetworkStep, DeleteNetworkStep
  <2>3. CASE \E n \in Networks, segments \in SeqOf(Segment, MaxSegments) : CreateProviderNetwork(n, segments)
    BY <2>3, <1>1, CreateProviderNetworkStep
  <2>4. CASE UNCHANGED vars
    BY <2>4, <1>1, Unchanged
  <2>5. QED BY <2>1, <2>2, <2>3, <2>4, <1>1 DEF Next
<1>2. QED BY <1>1, Initially, PTL DEF Spec

(* The tables hold segments of the drivers' types and whether each is      *)
(* allocated, and networks have such segments (VlanAllocation and its      *)
(* like, NetworkSegment).                                                  *)
THEOREM TypeCorrect == Spec => []TypeOK
<1>1. IInv => TypeOK
  BY DEF IInv
<1>2. QED BY <1>1, Invariance, PTL

(* reserve_provider_segment, allocate_tenant_segment, release_segment and  *)
(* the synchronisation of the tables never lend a segment twice and never  *)
(* lose one, whatever configurations the server is started with.           *)
THEOREM Accounted == Spec => []SegmentsAccounted
<1>1. IInv => SegmentsAccounted
  BY DEF IInv
<1>2. QED BY <1>1, Invariance, PTL

(* The VLANs offered to tenants are those of network_vlan_ranges that no   *)
(* network uses: what is released outside the ranges leaves the table, and *)
(* what comes back into the ranges comes back to the table.                *)
THEOREM VlansOffered == Spec => []VlansFree
<1>1. IInv => VlansFree
  BY DEF IInv
<1>2. QED BY <1>1, Invariance, PTL
=============================================================================
