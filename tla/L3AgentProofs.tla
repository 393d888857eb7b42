--------------------------- MODULE L3AgentProofs ---------------------------
(***************************************************************************)
(* A router is bound to one host at most, whatever the API, the agents and *)
(* the scheduler do, and the agents keep to their lock: for all sets of    *)
(* routers, hosts and ports, all faults and any bound on the changes.      *)
(***************************************************************************)
EXTENDS L3Agent, FiniteSetTheorems, TLAPS

(* What the server has at most of a router: OneHost without counting.      *)
BoundOnce == \A b1, b2 \in bound : b1[1] = b2[1] => b1 = b2

ServerInv == /\ ServerTypeOK /\ BoundOnce
             /\ inbox = [h \in Hosts |-> inbox[h]]

(* What the holder of the lock works on.  TypeOK says it of the routers to *)
(* set up and to delete alone: that it says so of them after a call needs  *)
(* to know what was asked for, and of which routers the answer is.         *)
JobOK(j, gone) ==
  /\ j.step \in {"none", "ask", "process", "delete"}
  /\ j.step = "ask" => j.ids \subseteq Routers
  /\ j.step = "process" => /\ DOMAIN j.data \subseteq Routers
                           /\ \A r \in DOMAIN j.data : j.data[r] \in Content
  /\ j.step = "delete" => j.ids \subseteq gone

InfoOK(i) == /\ DOMAIN i \subseteq Routers
             /\ \A r \in DOMAIN i : i[r] \in RouterInfo

AgentInv ==
  /\ fullsync \in [Hosts -> BOOLEAN]
  /\ updated \in [Hosts -> SUBSET Routers] /\ removed \in [Hosts -> SUBSET Routers]
  /\ info = [h \in Hosts |-> info[h]] /\ \A h \in Hosts : InfoOK(info[h])
  /\ job = [h \in Hosts |-> job[h]] /\ \A h \in Hosts : JobOK(job[h], removed[h])

(* The inductive invariant. *)
IInv == ServerInv /\ AgentInv

----------------------------------------------------------------------------
(* Lemmas about the data. *)

(* A notification more, or one less. *)
LEMMA BagFacts ==
  ASSUME NEW b, IsABag(b), NEW msg
  PROVE  /\ IsABag(b (+) SetToBag({msg}))
         /\ BagToSet(b (+) SetToBag({msg})) = BagToSet(b) \cup {msg}
         /\ IsABag(b (-) SetToBag({msg}))
         /\ BagToSet(b (-) SetToBag({msg})) \subseteq BagToSet(b)
<1> DEFINE more == [e \in DOMAIN b \cup {msg} |->
                      (IF e \in DOMAIN b THEN b[e] ELSE 0) + (IF e \in {msg} THEN 1 ELSE 0)]
           fewer == [e \in DOMAIN b |-> IF e \in {msg} THEN b[e] - 1 ELSE b[e]]
           less == [e \in {d \in DOMAIN fewer : fewer[d] > 0} |-> fewer[e]]
<1>1. \A e \in DOMAIN b : b[e] \in Nat /\ b[e] > 0
  BY DEF IsABag
<1>2. b (+) SetToBag({msg}) = more /\ b (-) SetToBag({msg}) = less
  BY DEF (+), (-), SetToBag
<1>3. more \in [DOMAIN b \cup {msg} -> {n \in Nat : n > 0}]
  BY <1>1
<1>4. \A e \in DOMAIN fewer : fewer[e] \in Nat
  BY <1>1
<1>5. DOMAIN less \subseteq DOMAIN b /\ less \in [DOMAIN less -> {n \in Nat : n > 0}]
  BY <1>4
<1> HIDE DEF more, less
<1>6. DOMAIN more = DOMAIN b \cup {msg}
  BY <1>3
<1>7. IsABag(more) /\ IsABag(less)
  BY <1>3, <1>5, <1>6 DEF IsABag
<1>8. QED BY <1>2, <1>5, <1>6, <1>7 DEF BagToSet

(* One more notification of the right form in the queues of some hosts. *)
LEMMA CastFacts ==
  ASSUME ServerInv, NEW hosts, NEW msg \in Message, Cast(hosts, msg)
  PROVE  /\ inbox' = [h \in Hosts |-> inbox'[h]]
         /\ \A h \in Hosts : IsABag(inbox'[h]) /\ BagToSet(inbox'[h]) \subseteq Message
<1> SUFFICES ASSUME NEW h \in Hosts
             PROVE  IsABag(inbox'[h]) /\ BagToSet(inbox'[h]) \subseteq Message
  BY DEF Cast
<1>1. IsABag(inbox[h]) /\ BagToSet(inbox[h]) \subseteq Message
  BY DEF ServerInv, ServerTypeOK
<1>2. inbox'[h] = IF h \in hosts THEN inbox[h] (+) SetToBag({msg}) ELSE inbox[h]
  BY DEF Cast
<1>3. CASE h \in hosts
  <2>1. /\ IsABag(inbox[h] (+) SetToBag({msg}))
        /\ BagToSet(inbox[h] (+) SetToBag({msg})) = BagToSet(inbox[h]) \cup {msg}
    BY <1>1, BagFacts
  <2>2. inbox'[h] = inbox[h] (+) SetToBag({msg})
    BY <1>2, <1>3
  <2>3. QED BY <1>1, <2>1, <2>2
<1>4. CASE h \notin hosts
  BY <1>1, <1>2, <1>4
<1>5. QED BY <1>3, <1>4

(* The server schedules only routers without a host, and the binding of    *)
(* one router to one host is all it adds.                                  *)
LEMMA AutoScheduledFacts ==
  ASSUME ServerInv, NEW h \in Hosts, NEW ids, NEW rows, rows = AutoScheduled(h, ids)
  PROVE  /\ rows \subseteq (DOMAIN routers) \X Hosts
         /\ \A b1, b2 \in rows : b1[1] = b2[1] => b1 = b2
<1>1. /\ bound \subseteq (DOMAIN routers) \X Hosts
      /\ \A b1, b2 \in bound : b1[1] = b2[1] => b1 = b2
  BY DEF ServerInv, ServerTypeOK, BoundOnce
<1>2. CASE ~enabled[h]
  BY <1>1, <1>2 DEF AutoScheduled
<1>3. CASE enabled[h]
  <2> DEFINE new == IF ids = {} THEN {r \in DOMAIN routers : HostsOf(r, bound) = {}}
                    ELSE {r \in ids \cap DOMAIN routers : Hosting(r, bound) = {}}
  <2>0. rows = bound \cup (new \X {h})
    BY <1>3 DEF AutoScheduled
  <2>1. new \subseteq DOMAIN routers /\ \A r \in new : HostsOf(r, bound) = {}
    BY <1>3 DEF Hosting
  <2> HIDE DEF new
  <2>2. \A b \in bound : b[1] \notin new
    BY <1>1, <2>1 DEF HostsOf
  <2>3. \A b \in new \X {h} : b[1] \in new /\ b = <<b[1], h>>
    OBVIOUS
  <2>4. rows \subseteq (DOMAIN routers) \X Hosts
    BY <1>1, <2>0, <2>1
  <2>5. \A b1, b2 \in rows : b1[1] = b2[1] => b1 = b2
    BY <1>1, <2>0, <2>2, <2>3
  <2>6. QED BY <2>4, <2>5
<1>4. QED BY <1>2, <1>3

(* A function changed at one host. *)
LEMMA SetFacts ==
  ASSUME NEW f, f = [h \in Hosts |-> f[h]], NEW g, NEW h \in Hosts, NEW v,
         g = [f EXCEPT ![h] = v]
  PROVE  /\ g = [k \in Hosts |-> g[k]]
         /\ g[h] = v
         /\ \A k \in Hosts : k # h => g[k] = f[k]
OBVIOUS

(* The bound on the changes. *)
LEMMA ChangeFacts ==
  ASSUME ServerTypeOK, Change
  PROVE  changes' \in 0..MaxChanges /\ faults' \subseteq Faults
BY NamesAssumption DEF ServerTypeOK, Change

----------------------------------------------------------------------------
(* The steps of the server. *)

LEMMA CreateRouterStep ==
  ASSUME ServerInv, NEW r \in Routers, CreateRouter(r)
  PROVE  ServerInv'
<1> USE DEF ServerInv, ServerTypeOK, CreateRouter
<1>1. routers' = Put(routers, r, [up |-> TRUE, ports |-> {}, gw |-> None])
  OBVIOUS
<1>2. DOMAIN routers' = DOMAIN routers \cup {r} /\ \A x \in DOMAIN routers' : routers'[x] \in Content
  BY <1>1 DEF Put, Content
<1>3. BoundOnce'
  BY DEF BoundOnce
<1>4. QED BY <1>2, <1>3

(* What an update makes of a router. *)
LEMMA ChangedFacts == \A c \in Content : Changed(c) \subseteq Content
<1> SUFFICES ASSUME NEW c \in Content, NEW d \in Changed(c)
             PROVE  d \in Content
  OBVIOUS
<1>1. \A up \in BOOLEAN : [c EXCEPT !.up = up] \in Content
  BY DEF Content
<1>2. \A p \in Ports : [c EXCEPT !.ports = IF p \in @ THEN @ \ {p} ELSE @ \cup {p}] \in Content
  BY DEF Content
<1>3. \A g \in Gateways \cup {None} : [c EXCEPT !.gw = g] \in Content
  BY DEF Content
<1>4. (~c.up) \in BOOLEAN
  OBVIOUS
<1>5. [c EXCEPT !.up = ~c.up] \in Content
  BY ONLY <1>1, <1>4, Zenon
<1>6. \/ d = [c EXCEPT !.up = ~c.up]
      \/ \E p \in Ports : d = [c EXCEPT !.ports = IF p \in @ THEN @ \ {p} ELSE @ \cup {p}]
      \/ \E g \in Gateways \cup {None} : d = [c EXCEPT !.gw = g]
  BY Zenon DEF Changed
<1>7. QED BY <1>2, <1>3, <1>5, <1>6, Zenon

LEMMA UpdateRouterStep ==
  ASSUME ServerInv, NEW r \in Routers, UpdateRouter(r)
  PROVE  ServerInv'
<1> USE DEF UpdateRouter
<1>1. ServerTypeOK /\ r \in DOMAIN routers /\ routers[r] \in Content
  BY DEF ServerInv, ServerTypeOK
<1>2. PICK content \in Changed(routers[r]) : routers' = [routers EXCEPT ![r] = content]
  OBVIOUS
<1>3. content \in Content
  BY <1>1, <1>2, ChangedFacts
<1>4. DOMAIN routers' = DOMAIN routers /\ \A x \in DOMAIN routers' : routers'[x] \in Content
  BY <1>1, <1>2, <1>3 DEF ServerTypeOK
<1>5. bound' \subseteq (DOMAIN routers) \X Hosts /\ \A b1, b2 \in bound' : b1[1] = b2[1] => b1 = b2
  <2>1. CASE bound' = bound
    BY <2>1 DEF ServerInv, ServerTypeOK, BoundOnce
  <2>2. ASSUME NEW h \in Hosts, enabled[h], Hosting(r, bound) = {}, bound' = bound \cup {<<r, h>>}
        PROVE  bound' \subseteq (DOMAIN routers) \X Hosts /\ \A b1, b2 \in bound' : b1[1] = b2[1] => b1 = b2
    <3>1. \A b \in bound : b[1] # r
      BY <1>1, <2>2 DEF Hosting, HostsOf, ServerTypeOK
    <3>2. bound' \subseteq (DOMAIN routers) \X Hosts
      BY <1>1, <2>2 DEF ServerTypeOK
    <3>3. \A b1, b2 \in bound' : b1[1] = b2[1] => b1 = b2
      BY <2>2, <3>1 DEF ServerInv, BoundOnce
    <3>4. QED BY <3>2, <3>3
  <2>3. QED BY <2>1, <2>2 DEF Scheduled
<1>6. Updated(r) \in Message
  BY DEF Updated, Message
<1>7. changes' \in 0..MaxChanges /\ faults' \subseteq Faults
  BY <1>1, ChangeFacts
<1>8. QED BY <1>1, <1>4, <1>5, <1>6, <1>7, CastFacts DEF ServerInv, ServerTypeOK, BoundOnce

LEMMA DeleteRouterStep ==
  ASSUME ServerInv, NEW r \in Routers, DeleteRouter(r)
  PROVE  ServerInv'
<1> USE DEF DeleteRouter
<1>1. ServerTypeOK /\ r \in DOMAIN routers
  BY DEF ServerInv
<1>2. /\ DOMAIN routers' = DOMAIN routers \ {r}
      /\ \A x \in DOMAIN routers' : routers'[x] = routers[x]
  BY DEF Drop, Restrict
<1>3. bound' \subseteq (DOMAIN routers') \X Hosts
  BY <1>1, <1>2 DEF ServerTypeOK
<1>4. Deleted(r) \in Message
  BY DEF Deleted, Message
<1>5. changes' \in 0..MaxChanges /\ faults' \subseteq Faults
  BY <1>1, ChangeFacts
<1>6. BoundOnce'
  <2>1. bound' \subseteq bound
    OBVIOUS
  <2>2. QED BY <2>1 DEF ServerInv, BoundOnce
<1>7. /\ inbox' = [h \in Hosts |-> inbox'[h]]
      /\ \A h \in Hosts : IsABag(inbox'[h]) /\ BagToSet(inbox'[h]) \subseteq Message
  BY <1>4, CastFacts
<1>8. DOMAIN routers' \subseteq used' /\ \A x \in DOMAIN routers' : routers'[x] \in Content
  BY <1>1, <1>2 DEF ServerTypeOK
<1>9. used' = used /\ enabled' = enabled /\ alive' = alive
  OBVIOUS
<1> USE DEF ServerTypeOK
<1>10. ServerTypeOK'
  BY ONLY <1>1, <1>3, <1>5, <1>7, <1>8, <1>9
<1>11. QED BY <1>6, <1>7, <1>10 DEF ServerInv

LEMMA AddRouterToAgentStep ==
  ASSUME ServerInv, NEW r \in Routers, NEW h \in Hosts, AddRouterToAgent(r, h)
  PROVE  ServerInv'
<1> USE DEF AddRouterToAgent
<1>1. ServerTypeOK
  BY DEF ServerInv
<1>2. /\ bound' \subseteq (DOMAIN routers) \X Hosts
      /\ \A b1, b2 \in bound' : b1[1] = b2[1] => b1 = b2
  BY AutoScheduledFacts
<1>3. Updated(r) \in Message
  BY DEF Updated, Message
<1>4. changes' \in 0..MaxChanges /\ faults' \subseteq Faults
  BY <1>1, ChangeFacts
<1>5. QED BY <1>1, <1>2, <1>3, <1>4, CastFacts DEF ServerInv, ServerTypeOK, BoundOnce

LEMMA RemoveRouterFromAgentStep ==
  ASSUME ServerInv, NEW r \in Routers, NEW h \in Hosts, RemoveRouterFromAgent(r, h)
  PROVE  ServerInv'
<1> USE DEF RemoveRouterFromAgent
<1>1. ServerTypeOK
  BY DEF ServerInv
<1>2. Deleted(r) \in Message
  BY DEF Deleted, Message
<1>3. changes' \in 0..MaxChanges /\ faults' \subseteq Faults
  BY <1>1, ChangeFacts
<1>4. QED BY <1>1, <1>2, <1>3, CastFacts DEF ServerInv, ServerTypeOK, BoundOnce

LEMMA UpdateAgentStep ==
  ASSUME ServerInv, NEW h \in Hosts, UpdateAgent(h)
  PROVE  ServerInv'
<1> USE DEF UpdateAgent
<1>1. ServerTypeOK
  BY DEF ServerInv
<1>2. [method |-> "agent_updated"] \in Message
  BY DEF Message
<1>3. changes' \in 0..MaxChanges /\ faults' \subseteq Faults
  BY <1>1, ChangeFacts
<1>4. QED BY <1>1, <1>2, <1>3, CastFacts DEF ServerInv, ServerTypeOK, BoundOnce

LEMMA HeartbeatStep ==
  ASSUME ServerInv, NEW h \in Hosts, Heartbeat(h)
  PROVE  ServerInv'
<1> USE DEF Heartbeat
<1>1. faults' \subseteq Faults
  BY DEF ServerInv, ServerTypeOK, Fault, NoFault
<1>2. QED BY <1>1 DEF ServerInv, ServerTypeOK, BoundOnce

LEMMA ServerStep ==
  ASSUME ServerInv, ServerNext
  PROVE  ServerInv'
BY CreateRouterStep, UpdateRouterStep, DeleteRouterStep, AddRouterToAgentStep,
   RemoveRouterFromAgentStep, UpdateAgentStep, HeartbeatStep DEF ServerNext

----------------------------------------------------------------------------
(* The steps of an agent. *)

(* Setting up a router, or failing to, leaves devices of known ports. *)
LEMMA ProcessedFacts ==
  ASSUME NEW ri \in RouterInfo, NEW router \in Content
  PROVE  Processed(ri, router) \in RouterInfo
BY DEF Processed, RouterInfo, Content

LEMMA FailedFacts ==
  ASSUME NEW ri \in RouterInfo, NEW router \in Content
  PROVE  Failed(ri, router) \subseteq RouterInfo
<1> DEFINE new == router.ports \ ri.ports
           old == ri.ports \ router.ports
           NotPlugged(p, done) == [ri EXCEPT !.ports = @ \cup done \cup {p}, !.devices = @ \cup done]
           NotUnplugged(p, done) == [ri EXCEPT !.ports = (@ \cup new) \ (done \cup {p}), !.devices = (@ \cup new) \ done]
           rest == [ri EXCEPT !.ports = router.ports, !.devices = (@ \cup new) \ old]
<1>1. /\ ri = [ports |-> ri.ports, gw |-> ri.gw, devices |-> ri.devices]
      /\ ri.ports \subseteq Ports /\ ri.gw \in Gateways \cup {None}
      /\ ri.devices \subseteq Ports \cup Gateways /\ router.ports \subseteq Ports
      /\ new \subseteq Ports /\ old \subseteq Ports
  BY DEF RouterInfo, Content
<1>2. Failed(ri, router) = {NotPlugged(p, done) : p \in new, done \in SUBSET new}
                           \cup {NotUnplugged(p, done) : p \in old, done \in SUBSET old}
                           \cup {rest}
  BY DEF Failed
<1> HIDE DEF new, old
<1>3. \A p \in new, done \in SUBSET new : NotPlugged(p, done) \in RouterInfo
  BY <1>1 DEF RouterInfo
<1>4. \A p \in old, done \in SUBSET old : NotUnplugged(p, done) \in RouterInfo
  BY <1>1 DEF RouterInfo
<1>5. rest \in RouterInfo
  BY <1>1 DEF RouterInfo
<1> HIDE DEF NotPlugged, NotUnplugged, rest
<1>6. QED BY <1>2, <1>3, <1>4, <1>5

(* A step that changes one host. *)
LEMMA HostStep ==
  ASSUME AgentInv, NEW h \in Hosts,
         fullsync' \in [Hosts -> BOOLEAN],
         updated' \in [Hosts -> SUBSET Routers], removed' \in [Hosts -> SUBSET Routers],
         info' = [k \in Hosts |-> info'[k]], job' = [k \in Hosts |-> job'[k]],
         \A k \in Hosts : k # h => removed'[k] = removed[k] /\ info'[k] = info[k] /\ job'[k] = job[k],
         InfoOK(info'[h]), JobOK(job'[h], removed'[h])
  PROVE  AgentInv'
<1>1. \A k \in Hosts : InfoOK(info'[k]) /\ JobOK(job'[k], removed'[k])
  <2> SUFFICES ASSUME NEW k \in Hosts, k # h
               PROVE  InfoOK(info'[k]) /\ JobOK(job'[k], removed'[k])
    OBVIOUS
  <2>1. removed'[k] = removed[k] /\ info'[k] = info[k] /\ job'[k] = job[k]
    OBVIOUS
  <2>2. InfoOK(info[k]) /\ JobOK(job[k], removed[k])
    BY DEF AgentInv
  <2>3. QED BY <2>1, <2>2
<1>2. \A k \in Hosts : InfoOK(info[k])' /\ JobOK(job[k], removed[k])'
  BY <1>1 DEF InfoOK, JobOK, RouterInfo, Content
<1>3. QED BY <1>2 DEF AgentInv

(* The server's part of a step that takes a notification, or binds routers. *)
LEMMA NoCastStep ==
  ASSUME ServerInv, UNCHANGED <<Besides, bound, inbox>>, faults' \subseteq Faults
  PROVE  ServerInv'
BY DEF Besides, ServerInv, ServerTypeOK, BoundOnce

(* What may go wrong is of the known kinds. *)
LEMMA FaultFacts ==
  ASSUME ServerInv
  PROVE  /\ NoFault => faults' \subseteq Faults
         /\ \A h \in Hosts : \A kind \in {"call", "command", "delete", "bridge", "crash"} :
              Fault(h, kind) => faults' \subseteq Faults
BY DEF ServerInv, ServerTypeOK, Fault, NoFault

LEMMA HandleStep ==
  ASSUME IInv, NEW h \in Hosts, Handle(h)
  PROVE  IInv'
<1> USE DEF IInv
<1>1. PICK msg \in BagToSet(inbox[h]) :
        /\ Set(inbox, h, inbox[h] (-) SetToBag({msg}))
        /\ \/ /\ msg.method = "routers_updated"
              /\ Set(updated, h, updated[h] \cup {msg.router}) /\ UNCHANGED <<removed, fullsync>>
           \/ /\ msg.method = "router_deleted"
              /\ Set(removed, h, removed[h] \cup {msg.router}) /\ UNCHANGED <<updated, fullsync>>
           \/ /\ msg.method = "agent_updated"
              /\ Set(fullsync, h, TRUE) /\ UNCHANGED <<updated, removed>>
  BY DEF Handle
<1>2. UNCHANGED <<routers, used, bound, enabled, alive, changes, faults, info, job>>
  BY DEF Handle, Besides, NoFault
<1>3. ServerInv'
  <2>1. IsABag(inbox[h]) /\ BagToSet(inbox[h]) \subseteq Message
    BY DEF ServerInv, ServerTypeOK
  <2>2. /\ IsABag(inbox[h] (-) SetToBag({msg}))
        /\ BagToSet(inbox[h] (-) SetToBag({msg})) \subseteq BagToSet(inbox[h])
    BY <2>1, BagFacts
  <2>3. /\ inbox' = [k \in Hosts |-> inbox'[k]]
        /\ inbox'[h] = inbox[h] (-) SetToBag({msg})
        /\ \A k \in Hosts : k # h => inbox'[k] = inbox[k]
    BY <1>1, SetFacts DEF Set, ServerInv
  <2>4. IsABag(inbox'[h]) /\ BagToSet(inbox'[h]) \subseteq Message
    BY <2>1, <2>2, <2>3
  <2>5. \A k \in Hosts : IsABag(inbox'[k]) /\ BagToSet(inbox'[k]) \subseteq Message
    BY <2>3, <2>4 DEF ServerInv, ServerTypeOK
  <2>6. QED BY <1>2, <2>3, <2>5 DEF ServerInv, ServerTypeOK, BoundOnce
<1>4. AgentInv'
  <2>1. msg.method # "agent_updated" => msg.router \in Routers
    BY DEF ServerInv, ServerTypeOK, Message
  <2>2. /\ fullsync' \in [Hosts -> BOOLEAN]
        /\ updated' \in [Hosts -> SUBSET Routers] /\ removed' \in [Hosts -> SUBSET Routers]
    <3>1. /\ fullsync \in [Hosts -> BOOLEAN]
          /\ updated \in [Hosts -> SUBSET Routers] /\ removed \in [Hosts -> SUBSET Routers]
      BY DEF AgentInv
    <3>2. CASE /\ msg.method = "routers_updated"
               /\ Set(updated, h, updated[h] \cup {msg.router}) /\ UNCHANGED <<removed, fullsync>>
      BY <2>1, <3>1, <3>2 DEF Set
    <3>3. CASE /\ msg.method = "router_deleted"
               /\ Set(removed, h, removed[h] \cup {msg.router}) /\ UNCHANGED <<updated, fullsync>>
      BY <2>1, <3>1, <3>3 DEF Set
    <3>4. CASE Set(fullsync, h, TRUE) /\ UNCHANGED <<updated, removed>>
      BY <3>1, <3>4 DEF Set
    <3>5. QED BY <1>1, <3>2, <3>3, <3>4
  <2>3. removed[h] \subseteq removed'[h] /\ \A k \in Hosts : k # h => removed'[k] = removed[k]
    BY <1>1 DEF AgentInv, Set
  <2>4. InfoOK(info'[h]) /\ JobOK(job'[h], removed'[h])
    BY <1>2, <2>3 DEF AgentInv, JobOK
  <2>5. info' = [k \in Hosts |-> info'[k]] /\ job' = [k \in Hosts |-> job'[k]]
    BY <1>2 DEF AgentInv
  <2>6. \A k \in Hosts : k # h => info'[k] = info[k] /\ job'[k] = job[k]
    BY <1>2
  <2>7. QED BY <2>2, <2>3, <2>4, <2>5, <2>6, HostStep
<1>5. QED BY <1>3, <1>4

LEMMA RpcLoopStep ==
  ASSUME IInv, NEW h \in Hosts, RpcLoop(h)
  PROVE  IInv'
<1> USE DEF IInv
<1>1. ServerInv'
  BY NoCastStep, FaultFacts DEF RpcLoop
<1>2. /\ job' = [job EXCEPT ![h] = IF updated[h] # {} THEN Ask("loop", updated[h]) ELSE Delete(removed[h])]
      /\ updated' = [updated EXCEPT ![h] = {}]
      /\ UNCHANGED <<fullsync, removed, info>>
  BY DEF RpcLoop, Set
<1>3. /\ job' = [k \in Hosts |-> job'[k]]
      /\ job'[h] = IF updated[h] # {} THEN Ask("loop", updated[h]) ELSE Delete(removed[h])
      /\ \A k \in Hosts : k # h => job'[k] = job[k]
  BY <1>2, SetFacts DEF AgentInv
<1>4. JobOK(job'[h], removed'[h])
  BY <1>2, <1>3 DEF AgentInv, JobOK, Ask, Delete, NoJob
<1>5. updated' \in [Hosts -> SUBSET Routers]
  BY <1>2 DEF AgentInv
<1>6. AgentInv'
  BY <1>2, <1>3, <1>4, <1>5, HostStep DEF AgentInv
<1>7. QED BY <1>1, <1>6

LEMMA SyncRoutersTaskStep ==
  ASSUME IInv, NEW h \in Hosts, SyncRoutersTask(h)
  PROVE  IInv'
<1> USE DEF IInv
<1>1. ServerInv'
  BY NoCastStep, FaultFacts DEF SyncRoutersTask
<1>2. /\ job' = [job EXCEPT ![h] = Ask("sync", {})]
      /\ updated' = [updated EXCEPT ![h] = {}] /\ removed' = [removed EXCEPT ![h] = {}]
      /\ UNCHANGED <<fullsync, info>>
  BY DEF SyncRoutersTask, Set
<1>3. /\ job' = [k \in Hosts |-> job'[k]]
      /\ job'[h] = Ask("sync", {})
      /\ \A k \in Hosts : k # h => job'[k] = job[k]
  BY <1>2, SetFacts DEF AgentInv
<1>4. JobOK(job'[h], removed'[h])
  BY <1>3 DEF JobOK, Ask
<1>5. /\ updated' \in [Hosts -> SUBSET Routers] /\ removed' \in [Hosts -> SUBSET Routers]
      /\ \A k \in Hosts : k # h => removed'[k] = removed[k]
  BY <1>2 DEF AgentInv
<1>6. AgentInv'
  BY <1>2, <1>3, <1>4, <1>5, HostStep DEF AgentInv
<1>7. QED BY <1>1, <1>6

(* The answer of the server is about routers that are known. *)
LEMMA SyncRoutersFacts ==
  ASSUME ServerInv, NEW h, NEW ids, NEW rows, NEW data, data = SyncRouters(h, ids, rows)
  PROVE  DOMAIN data \subseteq Routers /\ \A r \in DOMAIN data : data[r] \in Content
<1>1. DOMAIN routers \subseteq Routers /\ \A r \in DOMAIN routers : routers[r] \in Content
  BY DEF ServerInv, ServerTypeOK
<1>2. CASE enabled[h]
  BY <1>1, <1>2 DEF SyncRouters, Restrict
<1>3. CASE ~enabled[h]
  BY <1>3 DEF SyncRouters, Empty
<1>4. QED BY <1>2, <1>3

LEMMA AnsweredStep ==
  ASSUME IInv, NEW h \in Hosts, Answered(h)
  PROVE  IInv'
<1> USE DEF IInv
<1>1. /\ job[h].step = "ask"
      /\ bound' = AutoScheduled(h, job[h].ids)
      /\ UNCHANGED <<routers, used, enabled, alive, changes, inbox, updated, removed, info>>
  BY DEF Answered, Besides
<1>2. faults' \subseteq Faults
  BY FaultFacts DEF Answered
<1>3. /\ bound' \subseteq (DOMAIN routers) \X Hosts
      /\ \A b1, b2 \in bound' : b1[1] = b2[1] => b1 = b2
  BY <1>1, AutoScheduledFacts
<1>4. ServerInv'
  BY <1>1, <1>2, <1>3 DEF ServerInv, ServerTypeOK, BoundOnce
<1> DEFINE data == SyncRouters(h, job[h].ids, bound')
<1>5. DOMAIN data \subseteq Routers /\ \A r \in DOMAIN data : data[r] \in Content
  BY SyncRoutersFacts
<1> HIDE DEF data
<1>6. /\ \/ job' = [job EXCEPT ![h] = Process(job[h].op, data)]
         \/ job' = [job EXCEPT ![h] = NoJob]
      /\ fullsync' \in [Hosts -> BOOLEAN]
  BY DEF Answered, Set, AgentInv, data
<1>7. /\ job' = [k \in Hosts |-> job'[k]]
      /\ job'[h] \in {Process(job[h].op, data), NoJob}
      /\ \A k \in Hosts : k # h => job'[k] = job[k]
  BY <1>6, SetFacts DEF AgentInv
<1>8. JobOK(job'[h], removed'[h])
  BY <1>5, <1>7 DEF JobOK, Process, NoJob
<1>9. AgentInv'
  BY <1>1, <1>6, <1>7, <1>8, HostStep DEF AgentInv
<1>10. QED BY <1>4, <1>9

(* After _process_routers: a sync is over, the other loop goes on with     *)
(* what was removed meanwhile.                                             *)
LEMMA ContinueFacts ==
  ASSUME AgentInv, NEW h \in Hosts, Continue(h)
  PROVE  /\ fullsync' \in [Hosts -> BOOLEAN]
         /\ job' = [k \in Hosts |-> job'[k]]
         /\ job'[h] \in {NoJob, Delete(removed[h])}
         /\ \A k \in Hosts : k # h => job'[k] = job[k]
<1>0. fullsync \in [Hosts -> BOOLEAN] /\ job = [k \in Hosts |-> job[k]]
  BY DEF AgentInv
<1>1. ASSUME NEW v, Set(job, h, v)
      PROVE  job' = [k \in Hosts |-> job'[k]] /\ job'[h] = v /\ \A k \in Hosts : k # h => job'[k] = job[k]
  BY <1>0, <1>1, SetFacts DEF Set
<1>2. CASE Set(fullsync, h, FALSE) /\ Set(job, h, NoJob)
  BY <1>0, <1>1, <1>2 DEF Set
<1>3. CASE Set(job, h, Delete(removed[h])) /\ UNCHANGED fullsync
  BY <1>0, <1>1, <1>3
<1>4. QED BY <1>2, <1>3 DEF Continue

LEMMA ProcessRoutersStep ==
  ASSUME IInv, NEW h \in Hosts, ProcessRouters(h)
  PROVE  IInv'
<1> USE DEF IInv
<1>1. ServerInv'
  BY NoCastStep, FaultFacts DEF ProcessRouters
<1>2. job[h].step = "process" /\ Continue(h) /\ UNCHANGED <<updated, removed>>
  BY DEF ProcessRouters
<1> DEFINE data == job[h].data
           gone == Gone(h)
           Known(r) == IF r \in DOMAIN info[h] THEN info[h][r] ELSE Fresh
           done == [r \in (DOMAIN info[h] \ gone) \cup DOMAIN data |->
                      IF r \in DOMAIN data THEN Processed(Known(r), data[r]) ELSE info[h][r]]
<1>3. /\ DOMAIN data \subseteq Routers /\ \A r \in DOMAIN data : data[r] \in Content
      /\ InfoOK(info[h]) /\ gone \subseteq DOMAIN info[h]
  BY <1>2 DEF AgentInv, JobOK, Gone
<1>4. Fresh \in RouterInfo /\ Down \in Content
  BY DEF Fresh, Down, RouterInfo, Content
<1>5. \A r \in Routers : Known(r) \in RouterInfo
  BY <1>3, <1>4 DEF InfoOK
<1>6. InfoOK(done)
  <2>1. DOMAIN done \subseteq Routers
    BY <1>3 DEF InfoOK
  <2>2. \A r \in DOMAIN data : Processed(Known(r), data[r]) \in RouterInfo
    BY <1>3, <1>5, ProcessedFacts
  <2>3. \A r \in DOMAIN done : done[r] \in RouterInfo
    BY <1>3, <2>2 DEF InfoOK
  <2>4. QED BY <2>1, <2>3 DEF InfoOK
<1>7. \A r \in Routers, ri \in RouterInfo : InfoOK(Put(done, r, ri))
  BY <1>6 DEF InfoOK, Put
<1>8. /\ \A r \in DOMAIN data : r \in Routers /\ Failed(Known(r), data[r]) \subseteq RouterInfo
      /\ \A r \in gone : r \in Routers /\ Failed(info[h][r], Down) \subseteq RouterInfo
  BY <1>3, <1>4, <1>5, FailedFacts DEF InfoOK
<1>9. \/ Set(info, h, done)
      \/ \E r \in DOMAIN data : \E ri \in Failed(Known(r), data[r]) : Set(info, h, Put(done, r, ri))
      \/ \E r \in gone : \E ri \in Failed(info[h][r], Down) : Set(info, h, Put(done, r, ri))
      \/ UNCHANGED info
  BY DEF ProcessRouters
<1> HIDE DEF data, gone, Known, done
<1>10. \E i : Set(info, h, i) /\ InfoOK(i)
  <2>1. CASE Set(info, h, done)
    BY <1>6, <2>1
  <2>2. ASSUME NEW r \in DOMAIN data, NEW ri \in Failed(Known(r), data[r]), Set(info, h, Put(done, r, ri))
        PROVE  \E i : Set(info, h, i) /\ InfoOK(i)
    BY <1>7, <1>8, <2>2
  <2>3. ASSUME NEW r \in gone, NEW ri \in Failed(info[h][r], Down), Set(info, h, Put(done, r, ri))
        PROVE  \E i : Set(info, h, i) /\ InfoOK(i)
    BY <1>7, <1>8, <2>3
  <2>4. CASE UNCHANGED info
    <3>1. info' = [info EXCEPT ![h] = info[h]]
      BY <2>4 DEF AgentInv
    <3>2. QED BY <1>3, <3>1 DEF Set
  <2>5. QED BY <1>9, <2>1, <2>2, <2>3, <2>4
<1>11. /\ info' = [k \in Hosts |-> info'[k]]
       /\ InfoOK(info'[h])
       /\ \A k \in Hosts : k # h => info'[k] = info[k]
  BY <1>10, SetFacts DEF Set, AgentInv
<1>12. /\ fullsync' \in [Hosts -> BOOLEAN]
       /\ job' = [k \in Hosts |-> job'[k]]
       /\ job'[h] \in {NoJob, Delete(removed[h])}
       /\ \A k \in Hosts : k # h => job'[k] = job[k]
  BY <1>2, ContinueFacts
<1>13. JobOK(job'[h], removed'[h])
  BY <1>2, <1>12 DEF JobOK, Delete, NoJob
<1>14. AgentInv'
  BY <1>2, <1>11, <1>12, <1>13, HostStep DEF AgentInv
<1>15. QED BY <1>1, <1>14

LEMMA ProcessRouterDeleteStep ==
  ASSUME IInv, NEW h \in Hosts, ProcessRouterDelete(h)
  PROVE  IInv'
<1> USE DEF IInv
<1>1. ServerInv'
  BY NoCastStep, FaultFacts DEF ProcessRouterDelete
<1>2. /\ job[h].step = "delete" /\ job[h].ids \subseteq removed[h] /\ removed[h] \subseteq Routers
      /\ InfoOK(info[h])
      /\ UNCHANGED updated
  BY DEF ProcessRouterDelete, AgentInv, JobOK
<1>3. PICK r \in job[h].ids :
        \/ /\ Set(info, h, Drop(info[h], {r}))
           /\ Set(removed, h, removed[h] \ {r})
           /\ Set(job, h, Delete(job[h].ids \ {r}))
           /\ UNCHANGED fullsync
        \/ /\ r \in DOMAIN info[h]
           /\ \E ri \in Failed(info[h][r], Down) : Set(info, h, Put(info[h], r, ri))
           /\ Set(fullsync, h, TRUE) /\ Set(job, h, NoJob)
           /\ UNCHANGED removed
  BY DEF ProcessRouterDelete
<1>4. CASE /\ Set(info, h, Drop(info[h], {r}))
           /\ Set(removed, h, removed[h] \ {r})
           /\ Set(job, h, Delete(job[h].ids \ {r}))
           /\ UNCHANGED fullsync
  <2>1. InfoOK(Drop(info[h], {r}))
    BY <1>2 DEF InfoOK, Drop, Restrict
  <2>2. /\ info' = [k \in Hosts |-> info'[k]] /\ info'[h] = Drop(info[h], {r})
        /\ \A k \in Hosts : k # h => info'[k] = info[k]
    BY <1>4, SetFacts DEF Set, AgentInv
  <2>3. /\ job' = [k \in Hosts |-> job'[k]] /\ job'[h] = Delete(job[h].ids \ {r})
        /\ \A k \in Hosts : k # h => job'[k] = job[k]
    BY <1>4, SetFacts DEF Set, AgentInv
  <2>4. /\ removed' \in [Hosts -> SUBSET Routers] /\ removed'[h] = removed[h] \ {r}
        /\ \A k \in Hosts : k # h => removed'[k] = removed[k]
    BY <1>4 DEF Set, AgentInv
  <2>5. JobOK(job'[h], removed'[h])
    BY <1>2, <2>3, <2>4 DEF JobOK, Delete, NoJob
  <2>6. AgentInv'
    BY <1>2, <1>4, <2>1, <2>2, <2>3, <2>4, <2>5, HostStep DEF AgentInv
  <2>7. QED BY <1>1, <2>6
<1>5. CASE /\ r \in DOMAIN info[h]
           /\ \E ri \in Failed(info[h][r], Down) : Set(info, h, Put(info[h], r, ri))
           /\ Set(fullsync, h, TRUE) /\ Set(job, h, NoJob)
           /\ UNCHANGED removed
  <2>1. PICK ri \in Failed(info[h][r], Down) : Set(info, h, Put(info[h], r, ri))
    BY <1>5
  <2>2. Down \in Content
    BY DEF Down, Content
  <2>3. ri \in RouterInfo
    BY <1>2, <1>5, <2>2, FailedFacts DEF InfoOK
  <2>4. InfoOK(Put(info[h], r, ri))
    BY <1>2, <2>3 DEF InfoOK, Put
  <2>5. /\ info' = [k \in Hosts |-> info'[k]] /\ info'[h] = Put(info[h], r, ri)
        /\ \A k \in Hosts : k # h => info'[k] = info[k]
    BY <2>1, SetFacts DEF Set, AgentInv
  <2>6. /\ job' = [k \in Hosts |-> job'[k]] /\ job'[h] = NoJob
        /\ \A k \in Hosts : k # h => job'[k] = job[k]
    BY <1>5, SetFacts DEF Set, AgentInv
  <2>7. fullsync' \in [Hosts -> BOOLEAN]
    BY <1>5 DEF Set, AgentInv
  <2>8. JobOK(job'[h], removed'[h])
    BY <2>6 DEF JobOK, NoJob
  <2>9. AgentInv'
    BY <1>2, <1>5, <2>4, <2>5, <2>6, <2>7, <2>8, HostStep DEF AgentInv
  <2>10. QED BY <1>1, <2>9
<1>6. QED BY <1>3, <1>4, <1>5

LEMMA CrashStep ==
  ASSUME IInv, NEW h \in Hosts, Crash(h)
  PROVE  IInv'
<1> USE DEF IInv
<1>1. ServerInv'
  BY NoCastStep, FaultFacts DEF Crash
<1>2. /\ info' = [k \in Hosts |-> info'[k]] /\ info'[h] = Empty
      /\ \A k \in Hosts : k # h => info'[k] = info[k]
  BY SetFacts DEF Crash, Set, AgentInv
<1>3. /\ job' = [k \in Hosts |-> job'[k]] /\ job'[h] = NoJob
      /\ \A k \in Hosts : k # h => job'[k] = job[k]
  BY SetFacts DEF Crash, Set, AgentInv
<1>4. /\ fullsync' \in [Hosts -> BOOLEAN]
      /\ updated' \in [Hosts -> SUBSET Routers] /\ removed' \in [Hosts -> SUBSET Routers]
      /\ \A k \in Hosts : k # h => removed'[k] = removed[k]
  BY DEF Crash, Set, AgentInv
<1>5. InfoOK(info'[h]) /\ JobOK(job'[h], removed'[h])
  BY <1>2, <1>3 DEF InfoOK, Empty, JobOK, NoJob
<1>6. AgentInv'
  BY <1>2, <1>3, <1>4, <1>5, HostStep
<1>7. QED BY <1>1, <1>6

----------------------------------------------------------------------------
LEMMA Initially == Init => IInv
<1> SUFFICES ASSUME Init PROVE IInv
  OBVIOUS
<1>1. IsABag(EmptyBag) /\ BagToSet(EmptyBag) = {}
  BY DEF EmptyBag, SetToBag, IsABag, BagToSet
<1>2. ServerInv
  BY <1>1, NamesAssumption DEF Init, ServerInit, ServerInv, ServerTypeOK, BoundOnce, Empty
<1>3. AgentInv
  BY DEF Init, AgentInv, InfoOK, JobOK, Empty, NoJob
<1>4. QED BY <1>2, <1>3 DEF IInv

LEMMA Unchanged == IInv /\ UNCHANGED vars => IInv'
<1> SUFFICES ASSUME IInv, UNCHANGED vars PROVE IInv'
  OBVIOUS
<1>1. ServerInv'
  BY DEF IInv, ServerInv, ServerTypeOK, BoundOnce, vars, server
<1>2. AgentInv'
  BY DEF IInv, AgentInv, InfoOK, JobOK, RouterInfo, Content, vars, agent
<1>3. QED BY <1>1, <1>2 DEF IInv

(* The calls of the API, the agents and what goes wrong keep the invariant. *)
THEOREM Invariance == Spec => []IInv
<1>1. IInv /\ [Next]_vars => IInv'
  <2> SUFFICES ASSUME IInv, [Next]_vars PROVE IInv'
    OBVIOUS
  <2>1. CASE ServerNext /\ UNCHANGED agent
    <3>1. ServerInv'
      BY <2>1, ServerStep DEF IInv
    <3>2. AgentInv'
      BY <2>1 DEF IInv, AgentInv, InfoOK, JobOK, RouterInfo, Content, agent
    <3>3. QED BY <3>1, <3>2 DEF IInv
  <2>2. ASSUME NEW h \in Hosts, AgentNext(h) PROVE IInv'
    BY <2>2, HandleStep, RpcLoopStep, SyncRoutersTaskStep, AnsweredStep, ProcessRoutersStep,
       ProcessRouterDeleteStep DEF AgentNext
  <2>3. ASSUME NEW h \in Hosts, Crash(h) PROVE IInv'
    BY <2>3, CrashStep
  <2>4. QED BY <2>1, <2>2, <2>3, Unchanged DEF Next
<1>2. QED BY Initially, <1>1, PTL DEF Spec

(* Every variable keeps its type; and what an agent is about to delete is  *)
(* still on its list of removed routers: nothing empties that list while   *)
(* _process_router_delete iterates over it, because all who drain it take  *)
(* the 'l3-agent' lock.                                                    *)
THEOREM TypeCorrect == Spec => []TypeOK
<1>1. IInv => TypeOK
  BY DEF IInv, ServerInv, AgentInv, InfoOK, JobOK, TypeOK
<1>2. QED BY Invariance, <1>1, PTL

(* A router has one host at most: schedule_routers, auto_schedule_routers  *)
(* at any sync of any agent, and add_router_to_l3_agent bind only routers  *)
(* without one, though get_l3_agents_hosting_routers answers that nobody   *)
(* hosts a router when every agent is disabled.                            *)
THEOREM ScheduledOnce == Spec => []OneHost
<1>1. IInv => OneHost
  <2> SUFFICES ASSUME IInv, NEW r \in Routers
               PROVE  Cardinality(HostsOf(r, bound)) <= 1
    BY DEF OneHost
  <2>1. \A h1, h2 \in HostsOf(r, bound) : h1 = h2
    BY DEF IInv, ServerInv, BoundOnce, HostsOf
  <2>2. CASE HostsOf(r, bound) = {}
    BY <2>2, FS_EmptySet
  <2>3. ASSUME NEW h \in HostsOf(r, bound) PROVE Cardinality(HostsOf(r, bound)) <= 1
    <3>1. HostsOf(r, bound) = {h}
      BY <2>1, <2>3
    <3>2. QED BY <3>1, FS_Singleton
  <2>4. QED BY <2>2, <2>3
<1>2. QED BY Invariance, <1>1, PTL
=============================================================================
