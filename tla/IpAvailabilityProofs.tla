------------------------ MODULE IpAvailabilityProofs ------------------------
(***************************************************************************)
(* The ranges of a subnet keep the pool partitioned, whatever the CIDR and *)
(* the allocation pools, and implement AddressPool.                        *)
(***************************************************************************)
EXTENDS IpAvailability, TLAPS

(* The inductive invariant: that no address is lost or offered twice needs *)
(* that the ranges of a pool are apart, or taking an address out of one    *)
(* would leave it offered by another.                                      *)
IInv == TypeOK /\ MaximalRuns /\ PoolPartition

(* Pools are intervals of usable addresses with no address in common. *)
LEMMA PoolFacts ==
  /\ \A p \in Pools : /\ p \in Interval
                      /\ p.first \in Nat /\ p.last \in Nat /\ p.first <= p.last
                      /\ Addrs(p) \subseteq Usable
  /\ \A p, q \in Pools : p # q => Addrs(p) \cap Addrs(q) = {}
  /\ Offerable \subseteq Usable
<1>1. Cidr.first \in Nat /\ Cidr.last \in Nat
  BY CidrAssumption DEF Interval
<1>2. \A p \in Pools : p \in Interval /\ p.first \in Nat /\ p.last \in Nat
  BY PoolsAssumption DEF Interval
<1>3. \A p \in Pools : p.first <= p.last /\ Addrs(p) \subseteq Usable
  BY <1>1, <1>2, PoolsAssumption DEF ValidPools, Addrs, Usable, OnSubnet
<1>4. \A p, q \in Pools : p # q => Addrs(p) \cap Addrs(q) = {}
  BY PoolsAssumption DEF ValidPools
<1>5. QED BY <1>2, <1>3, <1>4 DEF Offerable, PoolAddrs

(* Taking an address out of a range leaves its other addresses, in at most *)
(* two ranges of the same pool that are apart.                             *)
LEMMA WithoutFacts ==
  ASSUME NEW r \in Range, NEW ip \in Addrs(r)
  PROVE  /\ \A x \in Without(r, ip) : /\ x \in Range
                                      /\ x.pool = r.pool
                                      /\ r.first <= x.first
                                      /\ x.first <= x.last
                                      /\ x.last <= r.last
                                      /\ ip \notin Addrs(x)
         /\ \A a \in Addrs(r) \ {ip} : \E x \in Without(r, ip) : a \in Addrs(x)
         /\ \A x, y \in Without(r, ip) : x # y => Apart(x, y)
<1>0. /\ r = [pool |-> r.pool, first |-> r.first, last |-> r.last]
      /\ r.pool \in Pools /\ r.first \in Nat /\ r.last \in Nat
      /\ ip \in Nat /\ r.first <= ip /\ ip <= r.last
  BY DEF Range, Addrs
<1> DEFINE low == [r EXCEPT !.last = ip - 1]
           high == [r EXCEPT !.first = ip + 1]
<1>1. /\ low = [pool |-> r.pool, first |-> r.first, last |-> ip - 1]
      /\ high = [pool |-> r.pool, first |-> ip + 1, last |-> r.last]
  BY <1>0
<1>2. Without(r, ip) = {x \in {low, high} : x.first <= x.last}
  BY DEF Without
<1> HIDE DEF low, high
<1>3. \A x \in Without(r, ip) : /\ x \in Range
                                /\ x.pool = r.pool
                                /\ r.first <= x.first
                                /\ x.first <= x.last
                                /\ x.last <= r.last
                                /\ ip \notin Addrs(x)
  BY <1>0, <1>1, <1>2 DEF Range, Addrs
<1>4. ASSUME NEW a \in Addrs(r) \ {ip}
      PROVE  \E x \in Without(r, ip) : a \in Addrs(x)
  <2>1. CASE a < ip BY <2>1, <1>0, <1>1, <1>2 DEF Addrs
  <2>2. CASE a > ip BY <2>2, <1>0, <1>1, <1>2 DEF Addrs
  <2>3. QED BY <2>1, <2>2, <1>0 DEF Addrs
<1>5. \A x, y \in Without(r, ip) : x # y => Apart(x, y)
  BY <1>0, <1>1, <1>2 DEF Apart
<1>6. QED BY <1>3, <1>4, <1>5

(* A recycled address and the ranges that touch it become one range, which *)
(* offers their addresses and is apart from the other ranges of the pool.  *)
LEMMA JoinedFacts ==
  ASSUME IInv, NEW p \in Pools, NEW ip \in allocated, ip \in Addrs(p)
  PROVE  /\ Joined(p, ip) \in Range
         /\ Joined(p, ip).pool = p
         /\ p.first <= Joined(p, ip).first
         /\ Joined(p, ip).first <= ip
         /\ ip <= Joined(p, ip).last
         /\ Joined(p, ip).last <= p.last
         /\ \A a : a \in Addrs(Joined(p, ip)) <=>
                     a = ip \/ \E r \in Neighbours(p, ip) : a \in Addrs(r)
         /\ \A r \in ranges \ Neighbours(p, ip) :
                r.pool = p => Apart(r, Joined(p, ip))
<1> DEFINE lows == {r \in Neighbours(p, ip) : r.last = ip - 1}
           highs == {r \in Neighbours(p, ip) : r.first = ip + 1}
           j == Joined(p, ip)
           first == IF lows = {} THEN ip ELSE (CHOOSE r \in lows : TRUE).first
           last == IF highs = {} THEN ip ELSE (CHOOSE r \in highs : TRUE).last
<1>1. /\ p.first \in Nat /\ p.last \in Nat /\ ip \in Nat
      /\ p.first <= ip /\ ip <= p.last
  BY PoolFacts DEF Addrs
<1>2. \A r \in ranges : /\ r \in Range
                         /\ r.pool \in Pools /\ r.first \in Nat /\ r.last \in Nat
                         /\ r.pool.first <= r.first
                         /\ r.first <= r.last
                         /\ r.last <= r.pool.last
                         /\ ip \notin Addrs(r)
  <2>1. ranges \subseteq Range BY DEF IInv, TypeOK
  <2>2. \A r \in ranges : r.pool \in Pools /\ r.first \in Nat /\ r.last \in Nat
    BY <2>1 DEF Range
  <2>3. \A r \in ranges : ip \notin Addrs(r)
    BY DEF IInv, PoolPartition, Free
  <2>4. QED BY <2>1, <2>2, <2>3 DEF IInv, TypeOK
<1>3. \A q, r \in ranges : q # r /\ q.pool = r.pool =>
                              q.last + 1 < r.first \/ r.last + 1 < q.first
  BY DEF IInv, MaximalRuns, Apart
<1>4. j = [pool |-> p, first |-> first, last |-> last]
  BY DEF Joined
<1>5. \/ lows = {} /\ first = ip
      \/ \E l \in ranges : /\ l.pool = p /\ l.last = ip - 1
                             /\ lows = {l} /\ first = l.first
  <2>1. CASE lows = {} BY <2>1
  <2>2. CASE lows # {}
    <3>1. PICK l \in lows : l = CHOOSE r \in lows : TRUE BY <2>2
    <3>2. l \in ranges /\ l.pool = p /\ l.last = ip - 1 BY DEF Neighbours
    <3>3. \A r \in lows : r = l
      <4>1. \A r \in lows : r \in ranges /\ r.pool = p /\ r.last = ip - 1
        BY DEF Neighbours
      <4>2. QED BY <4>1, <3>2, <1>2, <1>3, <1>1
    <3>4. QED BY <3>1, <3>2, <3>3, <2>2
  <2>3. QED BY <2>1, <2>2
<1>6. \/ highs = {} /\ last = ip
      \/ \E h \in ranges : /\ h.pool = p /\ h.first = ip + 1
                             /\ highs = {h} /\ last = h.last
  <2>1. CASE highs = {} BY <2>1
  <2>2. CASE highs # {}
    <3>1. PICK h \in highs : h = CHOOSE r \in highs : TRUE BY <2>2
    <3>2. h \in ranges /\ h.pool = p /\ h.first = ip + 1 BY DEF Neighbours
    <3>3. \A r \in highs : r = h
      <4>1. \A r \in highs : r \in ranges /\ r.pool = p /\ r.first = ip + 1
        BY DEF Neighbours
      <4>2. QED BY <4>1, <3>2, <1>2, <1>3, <1>1
    <3>4. QED BY <3>1, <3>2, <3>3, <2>2
  <2>3. QED BY <2>1, <2>2
<1>7. Neighbours(p, ip) = lows \cup highs
  BY DEF Neighbours
<1>8. /\ first \in Nat /\ p.first <= first /\ first <= ip
      /\ last \in Nat /\ ip <= last /\ last <= p.last
  BY <1>1, <1>2, <1>5, <1>6
<1>9. j \in Range /\ j.pool = p /\ j.first = first /\ j.last = last
  BY <1>4, <1>8 DEF Range
<1> HIDE DEF first, last, j
<1>10. ASSUME NEW a
       PROVE  a \in Addrs(j) <=> a = ip \/ \E r \in Neighbours(p, ip) : a \in Addrs(r)
  <2>1. lows = {} \/ \E l \in ranges : /\ l.last = ip - 1 /\ lows = {l}
                                        /\ Addrs(l) = first .. (ip - 1)
    BY <1>5 DEF Addrs
  <2>2. highs = {} \/ \E h \in ranges : /\ h.first = ip + 1 /\ highs = {h}
                                         /\ Addrs(h) = (ip + 1) .. last
    BY <1>6 DEF Addrs
  <2>3. (\E r \in lows : a \in Addrs(r)) <=> a \in first .. (ip - 1)
    <3>1. lows = {} => first .. (ip - 1) = {} BY <1>5, <1>8, <1>1
    <3>2. QED BY <2>1, <3>1
  <2>4. (\E r \in highs : a \in Addrs(r)) <=> a \in (ip + 1) .. last
    <3>1. highs = {} => (ip + 1) .. last = {} BY <1>6, <1>8, <1>1
    <3>2. QED BY <2>2, <3>1
  <2>5. a \in first .. last <=>
          a = ip \/ a \in first .. (ip - 1) \/ a \in (ip + 1) .. last
    BY <1>8, <1>1
  <2>6. Addrs(j) = first .. last BY <1>9 DEF Addrs
  <2> HIDE DEF lows, highs
  <2>7. QED BY <2>3, <2>4, <2>5, <2>6, <1>7
<1>11. ASSUME NEW r \in ranges \ Neighbours(p, ip), r.pool = p
       PROVE  Apart(r, j)
  <2>1. r.last # ip - 1 /\ r.first # ip + 1 BY <1>11 DEF Neighbours
  <2>2. r.first \in Nat /\ r.last \in Nat /\ (r.last + 1 < ip \/ ip + 1 < r.first)
    BY <2>1, <1>1, <1>2 DEF Addrs
  <2>3. r.last + 1 < ip => r.last + 1 < first
    BY <2>2, <1>1, <1>2, <1>3, <1>5, <1>11
  <2>4. ip + 1 < r.first => last + 1 < r.first
    BY <2>2, <1>1, <1>2, <1>3, <1>6, <1>11
  <2>5. QED BY <2>2, <2>3, <2>4, <1>9 DEF Apart
<1>12. QED BY <1>8, <1>9, <1>10, <1>11 DEF j

(* The offer of an address: the pool has it and no port does. *)
LEMMA PartitionPointwise ==
  PoolPartition <=> \A a : (\E r \in ranges : a \in Addrs(r)) <=>
                            (\E p \in Pools : a \in Addrs(p)) /\ a \notin allocated
BY DEF PoolPartition, Free, Offerable, PoolAddrs

LEMMA InitEstablishes == Init => IInv
<1> SUFFICES ASSUME Init PROVE IInv
  OBVIOUS
<1> DEFINE whole(p) == [pool |-> p, first |-> p.first, last |-> p.last]
<1>1. ranges = {whole(p) : p \in Pools} /\ allocated = {}
  BY DEF Init
<1>2. TypeOK
  BY <1>1, PoolFacts DEF TypeOK, Range
<1>3. MaximalRuns
  BY <1>1, PoolFacts DEF MaximalRuns, Apart
<1>4. \A p \in Pools : Addrs(whole(p)) = Addrs(p)
  BY DEF Addrs
<1>5. PoolPartition
  <2> HIDE DEF whole
  <2>1. Free = UNION {Addrs(p) : p \in Pools}
    BY <1>1, <1>4 DEF Free
  <2>2. QED BY <2>1, <1>1 DEF PoolPartition, Offerable, PoolAddrs
<1>6. QED BY <1>2, <1>3, <1>5 DEF IInv

(* Taking an address out of the range that offers it keeps the invariant:  *)
(* the step that _generate_ip and _allocate_specific_ip share.             *)
LEMMA TakingPreserves ==
  ASSUME IInv, NEW r \in ranges, NEW ip \in Addrs(r),
         ranges' = (ranges \ {r}) \cup Without(r, ip),
         allocated' = allocated \cup {ip}
  PROVE  IInv' /\ ip \in Offerable /\ Free' = Free \ {ip}
<1>1. \A x \in ranges : /\ x \in Range
                         /\ x.pool \in Pools /\ x.first \in Nat /\ x.last \in Nat
                         /\ x.pool.first <= x.first
                         /\ x.first <= x.last
                         /\ x.last <= x.pool.last
                         /\ Addrs(x) = x.first .. x.last
  BY DEF IInv, TypeOK, MaximalRuns, Range, Addrs
<1>2. r \in Range /\ ip \in Nat /\ r.first <= ip /\ ip <= r.last
  BY <1>1 DEF Addrs
<1>3. \A x \in Without(r, ip) : /\ x \in Range /\ x.pool = r.pool
                                /\ r.first <= x.first /\ x.first <= x.last
                                /\ x.last <= r.last /\ ip \notin Addrs(x)
                                /\ x.first \in Nat /\ x.last \in Nat
  BY <1>2, WithoutFacts DEF Range
<1>4. ip \in Free /\ ip \in Offerable /\ ip \notin allocated
  BY DEF IInv, PoolPartition, Free
<1>5. TypeOK'
  <2>1. \A x \in ranges' : /\ x.pool.first <= x.first
                            /\ x.first <= x.last
                            /\ x.last <= x.pool.last
    <3>1. \A x \in Without(r, ip) : /\ x.pool.first <= x.first
                                    /\ x.last <= x.pool.last
      <4>1. r.pool.first \in Nat /\ r.pool.last \in Nat BY <1>1, PoolFacts
      <4>2. QED BY <4>1, <1>1, <1>3
    <3>2. QED BY <3>1, <1>1, <1>3
  <2>2. ranges' \subseteq Range /\ allocated' \subseteq Usable
    BY <1>3, <1>4, PoolFacts DEF IInv, TypeOK
  <2>3. QED BY <2>1, <2>2 DEF TypeOK
<1>6. MaximalRuns'
  <2>2. ASSUME NEW x \in ranges', NEW y \in ranges', x # y, x.pool = y.pool
        PROVE  Apart(x, y)
    <3>1. CASE x \in ranges \ {r} /\ y \in ranges \ {r}
      BY <3>1, <2>2 DEF IInv, MaximalRuns
    <3>2. CASE x \in Without(r, ip) /\ y \in Without(r, ip)
      BY <3>2, <2>2, <1>2, WithoutFacts
    <3>3. CASE x \in ranges \ {r} /\ y \in Without(r, ip)
      <4>1. Apart(x, r) BY <3>3, <2>2, <1>3 DEF IInv, MaximalRuns
      <4>2. QED BY <4>1, <3>3, <1>1, <1>3 DEF Apart
    <3>4. CASE x \in Without(r, ip) /\ y \in ranges \ {r}
      <4>1. Apart(r, y) BY <3>4, <2>2, <1>3 DEF IInv, MaximalRuns
      <4>2. QED BY <4>1, <3>4, <1>1, <1>3 DEF Apart
    <3>5. QED BY <3>1, <3>2, <3>3, <3>4
  <2>3. QED BY <2>2 DEF MaximalRuns
<1>7. \A x \in ranges \ {r} : ip \notin Addrs(x)
  <2>1. ASSUME NEW x \in ranges \ {r}, ip \in Addrs(x) PROVE FALSE
    <3>1. CASE x.pool = r.pool
      <4>1. Apart(x, r) BY <3>1 DEF IInv, MaximalRuns
      <4>2. QED BY <4>1, <2>1, <1>1, <1>2 DEF Apart
    <3>2. CASE x.pool # r.pool
      <4>1. ip \in Addrs(x.pool) /\ ip \in Addrs(r.pool)
        <5>1. \A p \in Pools : Addrs(p) = p.first .. p.last /\ p.first \in Nat /\ p.last \in Nat
          BY PoolFacts DEF Addrs
        <5>2. QED BY <5>1, <2>1, <1>1, <1>2
      <4>2. QED BY <4>1, <3>2, <1>1, PoolFacts
    <3>3. QED BY <3>1, <3>2
  <2>2. QED BY <2>1
<1>8. Free' = Free \ {ip}
  <2>1. \A x \in Without(r, ip) : Addrs(x) \subseteq Addrs(r) \ {ip}
    BY <1>1, <1>2, <1>3 DEF Addrs
  <2>2. \A a \in Addrs(r) \ {ip} : \E x \in Without(r, ip) : a \in Addrs(x)
    BY <1>2, WithoutFacts
  <2>3. ASSUME NEW a
        PROVE  (\E x \in ranges' : a \in Addrs(x)) <=>
               (\E x \in ranges : a \in Addrs(x)) /\ a # ip
    BY <2>1, <2>2, <1>7
  <2>4. QED BY <2>3 DEF Free
<1>9. PoolPartition'
  BY <1>8 DEF IInv, PoolPartition
<1>10. QED BY <1>4, <1>5, <1>6, <1>8, <1>9 DEF IInv

(* Recycling an address of pool p keeps the invariant and offers it again. *)
LEMMA RecyclingPreserves ==
  ASSUME IInv, NEW p \in Pools, NEW ip \in allocated, ip \in Addrs(p),
         ranges' = (ranges \ Neighbours(p, ip)) \cup {Joined(p, ip)},
         allocated' = allocated \ {ip}
  PROVE  IInv' /\ Free' = Free \cup {ip}
<1> DEFINE j == Joined(p, ip)
           near == Neighbours(p, ip)
<1>1. /\ j \in Range /\ j.pool = p
      /\ p.first <= j.first /\ j.first <= ip /\ ip <= j.last /\ j.last <= p.last
      /\ \A a : a \in Addrs(j) <=> a = ip \/ \E r \in near : a \in Addrs(r)
      /\ \A r \in ranges \ near : r.pool = p => Apart(r, j)
  BY JoinedFacts
<1>2. near \subseteq ranges
  BY DEF Neighbours
<1> HIDE DEF j, near
<1>3. ranges' = (ranges \ near) \cup {j}
  BY DEF j, near
<1>4. TypeOK'
  <2>1. j.first <= j.last
    <3>1. j.first \in Nat /\ j.last \in Nat /\ ip \in Nat
      BY <1>1, PoolFacts DEF Range, Addrs
    <3>2. QED BY <3>1, <1>1
  <2>2. \A x \in ranges' : /\ x.pool.first <= x.first
                            /\ x.first <= x.last
                            /\ x.last <= x.pool.last
    BY <2>1, <1>1, <1>3 DEF IInv, TypeOK
  <2>3. QED BY <2>2, <1>1, <1>3 DEF IInv, TypeOK
<1>5. MaximalRuns'
  <2>1. \A x \in ranges \ near : x.pool = p => Apart(x, j) /\ Apart(j, x)
    BY <1>1 DEF Apart
  <2>2. QED BY <2>1, <1>1, <1>3 DEF IInv, MaximalRuns
<1>6. Free' = Free \cup {ip}
  <2>1. ASSUME NEW a
        PROVE  (\E x \in ranges' : a \in Addrs(x)) <=>
               (\E x \in ranges : a \in Addrs(x)) \/ a = ip
    BY <1>1, <1>2, <1>3
  <2>2. QED BY <2>1 DEF Free
<1>7. PoolPartition'
  <2>1. ip \in Offerable BY DEF Offerable, PoolAddrs
  <2>2. QED BY <2>1, <1>6 DEF IInv, PoolPartition
<1>8. QED BY <1>4, <1>5, <1>6, <1>7 DEF IInv

(* Every step of the subnet keeps the invariant and is a step of the       *)
(* abstract pool.                                                          *)
LEMMA StepFacts ==
  ASSUME IInv, Next
  PROVE  IInv' /\ Promise!Next
<1>1. \A r \in ranges : /\ r.first \in Nat /\ r.last \in Nat
                         /\ r.first <= r.last /\ r.first \in Addrs(r)
  BY DEF IInv, TypeOK, MaximalRuns, Range, Addrs
<1>2. CASE GenerateIp
  <2>1. PICK r \in ranges : /\ ranges' = (ranges \ {r}) \cup Without(r, r.first)
                            /\ allocated' = allocated \cup {r.first}
    BY <1>2 DEF GenerateIp
  <2>2. r.first \in Addrs(r) /\ r.first \in Free
    BY <1>1 DEF Free
  <2>3. IInv' /\ Free' = Free \ {r.first}
    BY <2>1, <2>2, TakingPreserves
  <2>4. QED BY <2>1, <2>2, <2>3 DEF Promise!Next, Promise!Generate
<1>3. ASSUME NEW ip \in Usable, AllocateSpecificIp(ip)
      PROVE  IInv' /\ Promise!Claim(ip)
  <2>1. ip \notin allocated /\ allocated' = allocated \cup {ip}
    BY <1>3 DEF AllocateSpecificIp
  <2>2. CASE \E r \in ranges : /\ ip \in Addrs(r)
                                /\ ranges' = (ranges \ {r}) \cup Without(r, ip)
    <3>1. PICK r \in ranges : /\ ip \in Addrs(r)
                              /\ ranges' = (ranges \ {r}) \cup Without(r, ip)
      BY <2>2
    <3>2. IInv' /\ Free' = Free \ {ip}
      BY <2>1, <3>1, TakingPreserves
    <3>3. QED BY <2>1, <3>2 DEF Promise!Claim
  <2>3. CASE (\A r \in ranges : ip \notin Addrs(r)) /\ UNCHANGED ranges
    <3>1. ip \notin Free /\ Free' = Free BY <2>3 DEF Free
    <3>2. TypeOK' BY <2>1, <2>3 DEF IInv, TypeOK
    <3>3. MaximalRuns' BY <2>3 DEF IInv, MaximalRuns
    <3>4. PoolPartition' BY <2>1, <3>1 DEF IInv, PoolPartition
    <3>5. QED BY <2>1, <3>1, <3>2, <3>3, <3>4 DEF IInv, Promise!Claim
  <2>4. QED BY <1>3, <2>2, <2>3 DEF AllocateSpecificIp
<1>4. ASSUME NEW ip \in Usable, RecycleIp(ip)
      PROVE  IInv' /\ Promise!Release(ip)
  <2>1. ip \in allocated /\ allocated' = allocated \ {ip}
    BY <1>4 DEF RecycleIp
  <2>2. CASE \E p \in Pools : /\ ip \in Addrs(p)
                              /\ ranges' = (ranges \ Neighbours(p, ip)) \cup {Joined(p, ip)}
    <3>1. PICK p \in Pools : /\ ip \in Addrs(p)
                             /\ ranges' = (ranges \ Neighbours(p, ip)) \cup {Joined(p, ip)}
      BY <2>2
    <3>2. IInv' /\ Free' = Free \cup {ip}
      BY <2>1, <3>1, RecyclingPreserves
    <3>3. ip \in Offerable BY <3>1 DEF Offerable, PoolAddrs
    <3>4. QED BY <2>1, <3>2, <3>3 DEF Promise!Release
  <2>3. CASE ip \notin Offerable /\ UNCHANGED ranges
    <3>1. Free' = Free BY <2>3 DEF Free
    <3>2. TypeOK' BY <2>1, <2>3 DEF IInv, TypeOK
    <3>3. MaximalRuns' BY <2>3 DEF IInv, MaximalRuns
    <3>4. PoolPartition' BY <2>1, <2>3, <3>1 DEF IInv, PoolPartition
    <3>5. QED BY <2>1, <2>3, <3>1, <3>2, <3>3, <3>4 DEF IInv, Promise!Release
  <2>4. QED BY <1>4, <2>2, <2>3 DEF RecycleIp
<1>5. QED BY <1>2, <1>3, <1>4 DEF Next, Promise!Next

THEOREM Invariance == Spec => []IInv
<1>1. Init => IInv
  BY InitEstablishes
<1>2. IInv /\ [Next]_vars => IInv'
  <2>1. IInv /\ Next => IInv'
    BY StepFacts
  <2>2. IInv /\ UNCHANGED vars => IInv'
    BY DEF vars, IInv, TypeOK, MaximalRuns, PoolPartition, Free
  <2>3. QED BY <2>1, <2>2
<1>3. QED BY <1>1, <1>2, PTL DEF Spec

(* The rows keep their types: no range leaves its table's domain.          *)
THEOREM TypeCorrect == Spec => []TypeOK
<1>1. IInv => TypeOK BY DEF IInv
<1>2. QED BY <1>1, Invariance, PTL

(* For every CIDR and every set of allocation pools, an address of the     *)
(* pools is offered exactly when no port has it.                           *)
THEOREM PartitionHolds == Spec => []PoolPartition
<1>1. IInv => PoolPartition BY DEF IInv
<1>2. QED BY <1>1, Invariance, PTL

(* The ranges stay the maximal runs of the free addresses of their pools.  *)
THEOREM RunsHold == Spec => []MaximalRuns
<1>1. IInv => MaximalRuns BY DEF IInv
<1>2. QED BY <1>1, Invariance, PTL

(* The rows of ranges implement the abstract pool of addresses.            *)
THEOREM Refinement == Spec => ImplementsPool
<1>1. Init => Promise!Init
  <2>1. Init => IInv /\ allocated = {}
    BY InitEstablishes DEF Init
  <2>2. QED BY <2>1 DEF IInv, PoolPartition, Promise!Init
<1>2. IInv /\ [Next]_vars => [Promise!Next]_(Promise!vars)
  <2>1. IInv /\ Next => Promise!Next
    BY StepFacts
  <2>2. UNCHANGED vars => UNCHANGED Promise!vars
    BY DEF vars, Promise!vars, Free
  <2>3. QED BY <2>1, <2>2
<1>3. QED BY <1>1, <1>2, Invariance, PTL DEF Spec, ImplementsPool, Promise!Spec
============================================================================
