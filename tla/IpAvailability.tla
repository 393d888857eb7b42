--------------------------- MODULE IpAvailability ---------------------------
(***************************************************************************)
(* The IP address management of one subnet: neutron/db/db_base_plugin_v2   *)
(* keeps what the subnet has still to give as rows of the table            *)
(* ipavailabilityranges (an allocation pool and the first and the last     *)
(* address of a run of free addresses) and what it gave as rows of the     *)
(* table ipallocations.  Addresses are numbers, rows are records.          *)
(*                                                                         *)
(* The helpers _generate_ip, _allocate_specific_ip and _recycle_ip run     *)
(* inside the transaction of a port operation, with the rows they read     *)
(* locked (with_lockmode('update')): each is one step here.                *)
(***************************************************************************)
EXTENDS Subnetting

CONSTANTS Cidr,      \* [first, last]: the network and the broadcast address
          Pools      \* the allocation pools of the subnet, sets of [first, last]

ASSUME CidrAssumption == Cidr \in Interval
ASSUME PoolsAssumption == /\ Pools \subseteq Interval
                          /\ ValidPools(Pools, Cidr)

(* The addresses a port can have, and those the subnet offers by itself. *)
Usable == {ip \in Addrs(Cidr) : OnSubnet(Cidr, ip)}
Offerable == PoolAddrs(Pools)

Range == [pool : Pools, first : Nat, last : Nat]

VARIABLES ranges,      \* the rows of ipavailabilityranges
          allocated    \* the addresses of the rows of ipallocations

vars == <<ranges, allocated>>

(* A row of ranges is never empty and lies inside its pool. *)
TypeOK == /\ ranges \subseteq Range
          /\ \A r \in ranges : /\ r.pool.first <= r.first
                               /\ r.first <= r.last
                               /\ r.last <= r.pool.last
          /\ allocated \subseteq Usable

(* create_subnet makes one range of every pool. *)
Init == /\ ranges = {[pool |-> p, first |-> p.first, last |-> p.last] : p \in Pools}
        /\ allocated = {}

----------------------------------------------------------------------------
(* Mutant: a range left without addresses keeps its row.                   *)
WithoutEmptied(r, ip) == {[r EXCEPT !.last = ip - 1], [r EXCEPT !.first = ip + 1]}

(* A range without its address ip: nothing, a shorter range or two.        *)
Without(r, ip) ==
  {x \in {[r EXCEPT !.last = ip - 1], [r EXCEPT !.first = ip + 1]} : x.first <= x.last}

(* _generate_ip takes the first address of the first range the query       *)
(* returns; the query has no order.                                        *)
GenerateIp ==
  \E r \in ranges :
    /\ ranges' = (ranges \ {r}) \cup Without(r, r.first)
    /\ allocated' = allocated \cup {r.first}

(* Mutant: an address inside a range cuts the range off.                   *)
AllocateSpecificIpNoSplit(ip) ==
  /\ ip \notin allocated
  /\ allocated' = allocated \cup {ip}
  /\ \/ \E r \in ranges : /\ ip \in Addrs(r)
                          /\ ranges' = (ranges \ {r}) \cup
                                         {x \in {[r EXCEPT !.last = ip - 1]} : ip # r.first}
     \/ /\ \A r \in ranges : ip \notin Addrs(r)
        /\ UNCHANGED ranges

(* A request with an address: _test_fixed_ips_for_port checks that it is   *)
(* on the subnet and not in use, _allocate_specific_ip takes it out of     *)
(* the range that has it, if any (an address outside the pools has none).  *)
AllocateSpecificIp(ip) ==
  /\ ip \notin allocated
  /\ allocated' = allocated \cup {ip}
  /\ \/ \E r \in ranges : /\ ip \in Addrs(r)
                          /\ ranges' = (ranges \ {r}) \cup Without(r, ip)
     \/ /\ \A r \in ranges : ip \notin Addrs(r)
        /\ UNCHANGED ranges

(* Mutant: only the range after the address is looked for.                 *)
NeighboursAfter(p, ip) == {r \in ranges : r.pool = p /\ r.first = ip + 1}

(* The rows of pool p that end just before ip or start just after it.      *)
Neighbours(p, ip) ==
  {r \in ranges : r.pool = p /\ (r.last = ip - 1 \/ r.first = ip + 1)}

(* The range that replaces them: it has their addresses and ip.            *)
Joined(p, ip) ==
  LET near == Neighbours(p, ip)
      lows == {r \in near : r.last = ip - 1}
      highs == {r \in near : r.first = ip + 1}
  IN  [pool  |-> p,
       first |-> IF lows = {} THEN ip ELSE (CHOOSE r \in lows : TRUE).first,
       last  |-> IF highs = {} THEN ip ELSE (CHOOSE r \in highs : TRUE).last]

(* Mutant: only the pools the inner join locks are looked at.              *)
RecycleIpLockedPools(ip) ==
  /\ ip \in allocated
  /\ allocated' = allocated \ {ip}
  /\ \/ \E p \in {r.pool : r \in ranges} :
          /\ ip \in Addrs(p)
          /\ ranges' = (ranges \ Neighbours(p, ip)) \cup {Joined(p, ip)}
     \/ /\ \A r \in ranges : ip \notin Addrs(r.pool)
        /\ UNCHANGED ranges

(* _recycle_ip: the address goes back to its pool and is joined with the   *)
(* neighbouring ranges of the same pool; out of every pool it only loses   *)
(* its allocation.                                                         *)
RecycleIp(ip) ==
  /\ ip \in allocated
  /\ allocated' = allocated \ {ip}
  /\ \/ \E p \in Pools : /\ ip \in Addrs(p)
                         /\ ranges' = (ranges \ Neighbours(p, ip)) \cup {Joined(p, ip)}
     \/ /\ ip \notin Offerable
        /\ UNCHANGED ranges

Next == \/ GenerateIp
        \/ \E ip \in Usable : AllocateSpecificIp(ip) \/ RecycleIp(ip)

Spec == Init /\ [][Next]_vars

----------------------------------------------------------------------------
(* Two ranges with an address in neither of them between them. *)
Apart(q, r) == q.last + 1 < r.first \/ r.last + 1 < q.first

(* The addresses that some range offers. *)
Free == UNION {Addrs(r) : r \in ranges}

(* An address of the pools is offered exactly when no port has it: none    *)
(* leaks when ranges are split and joined, none is offered twice.          *)
PoolPartition == Free = Offerable \ allocated

(* The ranges are the maximal runs of free addresses of their pools: there *)
(* is a gap between two of the same pool (_recycle_ip relies on this when  *)
(* it asks for one() neighbour).                                           *)
MaximalRuns == \A q, r \in ranges : q # r /\ q.pool = r.pool => Apart(q, r)

(* What the subnet promises, with the union of the ranges as the offer.    *)
Promise == INSTANCE AddressPool
             WITH Pool <- Offerable, offered <- Free, inUse <- allocated

(* The ranges implement the abstract pool. *)
ImplementsPool == Promise!Spec
============================================================================
