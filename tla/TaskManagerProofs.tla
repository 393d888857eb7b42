------------------------- MODULE TaskManagerProofs -------------------------
(***************************************************************************)
(* The task manager keeps the tasks of a resource in order and apart,      *)
(* wherever its greenthreads are: for all tasks, resources and stops.      *)
(***************************************************************************)
EXTENDS TaskManager, SequenceTheorems, WellFoundedInduction, TLAPS

InQueue(t) == \E i \in 1 .. Len(queue) : queue[i] = t

(* The table q has task t in the deque of its resource. *)
In(q, t) == /\ Resource[t] \in DOMAIN q
            /\ \E i \in 1 .. Len(q[Resource[t]]) : q[Resource[t]][i] = t

First(q, t) == Head(q[Resource[t]])

(* A table of deques: of tasks of their resource, in the order of add().   *)
DequesOK(q) ==
  \A r \in DOMAIN q :
    /\ r \in Resources /\ q[r] \in Seq(Tasks) /\ q[r] # <<>>
    /\ \A i \in 1 .. Len(q[r]) : Resource[q[r][i]] = r /\ Added(q[r][i])
    /\ \A i, j \in 1 .. Len(q[r]) : i < j => Comes(q[r][i], q[r][j])

(* A task is added once, and the queue is what was added last: the thread  *)
(* takes it from the front.                                                *)
QueueOK ==
  /\ added \in Seq(Tasks) /\ queue \in Seq(Tasks)
  /\ \A i, j \in 1 .. Len(added) : added[i] = added[j] => i = j
  /\ Len(queue) <= Len(added)
  /\ \A i \in 1 .. Len(queue) : queue[i] = added[Len(added) - Len(queue) + i]

(* Tasks in the queue, or not added, have not been started. *)
FreshOK == \A t \in Tasks : InQueue(t) \/ ~Added(t) => state[t] = NONE

(* Only the first task of a deque has been started; unless there is a      *)
(* stop, it is pending or the monitor has it.                              *)
StartedOK ==
  /\ \A t \in Tasks : In(tasks, t) => /\ ~InQueue(t) /\ state[t] # RESULT
                                      /\ t # First(tasks, t) => state[t] = NONE
  /\ \A r \in DOMAIN tasks :
       LET t == Head(tasks[r])
       IN  ~stopped => t = monitor.task \/ (status[t] = "PENDING" /\ state[t] = EXECUTED)

(* The task in the hands of run() has no deque at its resource; that of an *)
(* abort is the first of it, and by then there is no monitor.              *)
MainOK ==
  LET t == main.task
  IN  /\ main.pc \in {"execute", "result"} =>
           /\ t \in Tasks /\ Added(t) /\ ~InQueue(t)
           /\ Resource[t] \notin DOMAIN tasks /\ state[t] # RESULT
      /\ main.pc \in {"result", "abort"} => status[t] \in Final
      /\ main.pc = "abort" => t \in Tasks /\ Resource[t] \in DOMAIN tasks /\ t = First(tasks, t)
      /\ main.pc \in {"off", "get", "join"} => t = NoTask
      /\ main.pc \in {"off", "join", "abort"} => stopped
      /\ main.pc \in {"off", "abort"} => monitor.pc = "off"
      /\ main.pc = "off" => DOMAIN tasks = {}

(* The monitor has the first task of a deque; the deques it found are      *)
(* still there.                                                            *)
MonitorOK ==
  LET t == monitor.task
  IN  /\ monitor.todo \subseteq DOMAIN tasks
      /\ monitor.pc \in {"off", "idle"} => t = NoTask /\ monitor.todo = {}
      /\ monitor.pc \in {"status", "result", "execute"} =>
           /\ t \in Tasks /\ Resource[t] \in DOMAIN tasks /\ t = First(tasks, t)
           /\ Resource[t] \notin monitor.todo
      /\ monitor.pc = "status" => state[t] = EXECUTED
      /\ monitor.pc = "result" => status[t] \in Final
      /\ monitor.pc = "off" => main.pc \in {"join", "abort", "off"}

(* No task is lost. *)
Placed ==
  \A t \in Tasks : Added(t) => \/ InQueue(t) \/ In(tasks, t) \/ status[t] \in Final
                               \/ main.pc = "execute" /\ main.task = t

(* The inductive invariant.  That a resource has one task at a time rests  *)
(* on where each task is; that tasks run in order, on the order of the     *)
(* deques and on the queue being the last of what was added.               *)
IInv == /\ TypeOK /\ WaitersAhead
        /\ QueueOK /\ FreshOK /\ DequesOK(tasks) /\ StartedOK
        /\ MainOK /\ MonitorOK /\ Placed

----------------------------------------------------------------------------
(* Induction over the length of a sequence: a set of numbers has a least.  *)
LEMMA Least ==
  ASSUME NEW S \in SUBSET Nat, S # {}
  PROVE  \E n \in S : \A m \in S : n <= m
<1>1. PICK n \in S : \A m \in S : ~(<<m, n>> \in OpToRel(<, Nat))
  BY NatLessThanWellFounded, WFMin
<1>2. \A m \in S : ~(m < n)
  BY <1>1 DEF OpToRel
<1>3. QED BY <1>2

(* The first of a sequence is the first occurrence of it. *)
LEMMA RemoveHead ==
  ASSUME NEW s \in Seq(Tasks), s # <<>>
  PROVE  RemoveFirst(s, Head(s)) = Tail(s)
<1> DEFINE I == {i \in 1 .. Len(s) : s[i] = Head(s)}
<1>1. Len(s) \in Nat \ {0} /\ s[1] = Head(s)
  BY EmptySeq, LenProperties
<1>2. 1 \in I /\ \A i \in I : 1 <= i
  BY <1>1
<1>3. Min(I) = 1
  BY <1>2 DEF Min
<1>4. RemoveFirst(s, Head(s)) = SubSeq(s, 1, 0) \o SubSeq(s, 2, Len(s))
  <2>1. SelectInSeq(s, LAMBDA v : v = Head(s)) = IF I # {} THEN Min(I) ELSE 0
    BY DEF SelectInSeq
  <2>2. RemoveFirst(s, Head(s)) = RemoveAt(s, IF I # {} THEN Min(I) ELSE 0)
    <3>1. \E i \in 1 .. Len(s) : s[i] = Head(s)
      BY <1>2
    <3>2. QED BY <2>1, <3>1 DEF RemoveFirst
  <2>3. RemoveFirst(s, Head(s)) = RemoveAt(s, 1)
    BY <1>2, <1>3, <2>2
  <2>4. QED BY <2>3 DEF RemoveAt
<1>5. SubSeq(s, 1, 0) = <<>> /\ SubSeq(s, 2, Len(s)) = Tail(s) /\ Tail(s) \in Seq(Tasks)
  BY SubSeqEmpty, TailIsSubSeq, HeadTailProperties
<1>6. QED BY <1>4, <1>5, ConcatEmptySeq

----------------------------------------------------------------------------
(* The order of add(), and the queue. *)

LEMMA OrderFacts ==
  ASSUME QueueOK
  PROVE  /\ \A t, u : Comes(t, u) => t # u /\ ~Comes(u, t) /\ Added(t) /\ Added(u)
         /\ \A t : Added(t) => t \in Tasks
<1>0. added \in Seq(Tasks) /\ \A i, j \in 1 .. Len(added) : added[i] = added[j] => i = j
  BY DEF QueueOK
<1>1. ASSUME NEW t, NEW u, Comes(t, u)
      PROVE  t # u /\ ~Comes(u, t) /\ Added(t) /\ Added(u)
  <2>1. PICK i \in 1 .. Len(added), j \in 1 .. Len(added) : i < j /\ added[i] = t /\ added[j] = u
    BY <1>1 DEF Comes
  <2>2. Added(t) /\ Added(u)
    BY <2>1 DEF Added
  <2>3. t # u
    BY <1>0, <2>1
  <2>4. ASSUME Comes(u, t) PROVE FALSE
    <3>1. PICK k \in 1 .. Len(added), l \in 1 .. Len(added) : k < l /\ added[k] = u /\ added[l] = t
      BY <2>4 DEF Comes
    <3>2. k = j /\ l = i
      BY <1>0, <2>1, <3>1
    <3>3. QED BY <2>1, <3>1, <3>2
  <2>5. QED BY <2>2, <2>3, <2>4
<1>2. \A t : Added(t) => t \in Tasks
  BY <1>0 DEF Added
<1>3. QED BY <1>1, <1>2

LEMMA QueueFacts ==
  ASSUME QueueOK
  PROVE  /\ \A t : InQueue(t) => Added(t) /\ t \in Tasks
         /\ \A t, u : InQueue(t) /\ Comes(t, u) => InQueue(u)
         /\ \A t, u : Added(t) /\ ~InQueue(t) /\ InQueue(u) => Comes(t, u)
         /\ \A i, j \in 1 .. Len(queue) : i < j => Comes(queue[i], queue[j])
<1>0. /\ added \in Seq(Tasks) /\ queue \in Seq(Tasks)
      /\ \A i, j \in 1 .. Len(added) : added[i] = added[j] => i = j
      /\ Len(queue) <= Len(added)
      /\ \A i \in 1 .. Len(queue) : queue[i] = added[Len(added) - Len(queue) + i]
  BY DEF QueueOK
<1> DEFINE k == Len(added) - Len(queue)
<1>1. /\ Len(added) \in Nat /\ Len(queue) \in Nat /\ k \in 0 .. Len(added)
      /\ \A i \in 1 .. Len(queue) : k + i \in 1 .. Len(added) /\ added[k + i] = queue[i]
  BY <1>0, LenProperties
<1>2. \A i \in 1 .. Len(added) : i > k => i - k \in 1 .. Len(queue) /\ queue[i - k] = added[i]
  BY <1>1
<1> HIDE DEF k
<1>3. \A t : InQueue(t) => Added(t) /\ t \in Tasks
  BY <1>0, <1>1 DEF InQueue, Added
<1>4. ASSUME NEW t, NEW u, InQueue(t), Comes(t, u) PROVE InQueue(u)
  <2>1. PICK i \in 1 .. Len(queue) : queue[i] = t
    BY <1>4 DEF InQueue
  <2>2. PICK x \in 1 .. Len(added), y \in 1 .. Len(added) : x < y /\ added[x] = t /\ added[y] = u
    BY <1>4 DEF Comes
  <2>3. x = k + i
    BY <1>0, <1>1, <2>1, <2>2
  <2>4. y > k
    BY <1>1, <2>2, <2>3
  <2>5. QED BY <1>2, <2>2, <2>4 DEF InQueue
<1>5. ASSUME NEW t, NEW u, Added(t), ~InQueue(t), InQueue(u) PROVE Comes(t, u)
  <2>1. PICK x \in 1 .. Len(added) : added[x] = t
    BY <1>5 DEF Added
  <2>2. x <= k
    BY <1>1, <1>2, <1>5, <2>1 DEF InQueue
  <2>3. PICK i \in 1 .. Len(queue) : queue[i] = u
    BY <1>5 DEF InQueue
  <2>4. k + i \in 1 .. Len(added) /\ x < k + i /\ added[k + i] = u
    BY <1>1, <2>2, <2>3
  <2>5. QED BY <2>1, <2>4 DEF Comes
<1>6. ASSUME NEW i \in 1 .. Len(queue), NEW j \in 1 .. Len(queue), i < j
      PROVE  Comes(queue[i], queue[j])
  <2>1. k + i < k + j
    BY <1>1, <1>6
  <2>2. QED BY <1>1, <2>1 DEF Comes
<1>7. QED BY <1>3, <1>4, <1>5, <1>6

(* add() puts the task last. *)
LEMMA AppendFacts ==
  ASSUME QueueOK, NEW x \in Tasks, ~Added(x), added' = Append(added, x), queue' = Append(queue, x)
  PROVE  /\ QueueOK'
         /\ \A t : Added(t)' <=> Added(t) \/ t = x
         /\ \A t : InQueue(t)' <=> InQueue(t) \/ t = x
         /\ \A t, u : Comes(t, u) => Comes(t, u)'
<1>0. /\ added \in Seq(Tasks) /\ queue \in Seq(Tasks)
      /\ \A i, j \in 1 .. Len(added) : added[i] = added[j] => i = j
      /\ Len(queue) <= Len(added)
      /\ \A i \in 1 .. Len(queue) : queue[i] = added[Len(added) - Len(queue) + i]
      /\ \A i \in 1 .. Len(added) : added[i] # x
      /\ Len(added) \in Nat /\ Len(queue) \in Nat
  BY LenProperties DEF QueueOK, Added
<1>1. /\ added' \in Seq(Tasks) /\ Len(added') = Len(added) + 1
      /\ \A i \in 1 .. Len(added) : added'[i] = added[i]
      /\ added'[Len(added) + 1] = x
  BY <1>0
<1>2. /\ queue' \in Seq(Tasks) /\ Len(queue') = Len(queue) + 1
      /\ \A i \in 1 .. Len(queue) : queue'[i] = queue[i]
      /\ queue'[Len(queue) + 1] = x
  BY <1>0
<1>3. \A i, j \in 1 .. Len(added') : added'[i] = added'[j] => i = j
  BY <1>0, <1>1
<1>4. \A i \in 1 .. Len(queue') : queue'[i] = added'[Len(added') - Len(queue') + i]
  <2> SUFFICES ASSUME NEW i \in 1 .. Len(queue')
               PROVE  queue'[i] = added'[Len(added') - Len(queue') + i]
    OBVIOUS
  <2>1. CASE i \in 1 .. Len(queue)
    <3>1. Len(added) - Len(queue) + i \in 1 .. Len(added)
      BY <1>0, <2>1
    <3>2. QED BY <1>0, <1>1, <1>2, <2>1, <3>1
  <2>2. CASE i = Len(queue) + 1
    BY <1>0, <1>1, <1>2, <2>2
  <2>3. i \in 1 .. Len(queue) \/ i = Len(queue) + 1
    BY <1>0, <1>2
  <2>4. QED BY <2>1, <2>2, <2>3
<1>5. QueueOK'
  <2>1. Len(queue') <= Len(added')
    BY <1>0, <1>1, <1>2
  <2>2. added' \in Seq(Tasks) /\ queue' \in Seq(Tasks)
    BY <1>1, <1>2
  <2>3. QED BY <1>3, <1>4, <2>1, <2>2 DEF QueueOK
<1>6. \A t : Added(t)' <=> Added(t) \/ t = x
  <2>1. \A i \in 1 .. Len(added') : i \in 1 .. Len(added) \/ i = Len(added) + 1
    BY <1>0, <1>1
  <2>2. Len(added) + 1 \in 1 .. Len(added') /\ \A i \in 1 .. Len(added) : i \in 1 .. Len(added')
    BY <1>0, <1>1
  <2>3. QED BY <1>1, <2>1, <2>2 DEF Added
<1>7. \A t : InQueue(t)' <=> InQueue(t) \/ t = x
  <2>1. \A i \in 1 .. Len(queue') : i \in 1 .. Len(queue) \/ i = Len(queue) + 1
    BY <1>0, <1>2
  <2>2. Len(queue) + 1 \in 1 .. Len(queue') /\ \A i \in 1 .. Len(queue) : i \in 1 .. Len(queue')
    BY <1>0, <1>2
  <2>3. QED BY <1>2, <2>1, <2>2 DEF InQueue
<1>8. ASSUME NEW t, NEW u, Comes(t, u) PROVE Comes(t, u)'
  <2>1. PICK i, j \in 1 .. Len(added) : i < j /\ added[i] = t /\ added[j] = u
    BY <1>8 DEF Comes
  <2>2. i \in 1 .. Len(added') /\ j \in 1 .. Len(added') /\ added'[i] = t /\ added'[j] = u
    BY <1>0, <1>1, <2>1
  <2>3. QED BY <2>1, <2>2 DEF Comes
<1>9. QED BY <1>5, <1>6, <1>7, <1>8

(* _get_task takes the first. *)
LEMMA PopFacts ==
  ASSUME QueueOK, queue # <<>>, queue' = Tail(queue), UNCHANGED added
  PROVE  /\ QueueOK' /\ InQueue(Head(queue))
         /\ \A t : InQueue(t)' <=> InQueue(t) /\ t # Head(queue)
<1>0. /\ added \in Seq(Tasks) /\ queue \in Seq(Tasks)
      /\ \A i, j \in 1 .. Len(added) : added[i] = added[j] => i = j
      /\ Len(queue) <= Len(added)
      /\ \A i \in 1 .. Len(queue) : queue[i] = added[Len(added) - Len(queue) + i]
      /\ Len(added) \in Nat /\ Len(queue) \in Nat
  BY LenProperties DEF QueueOK
<1>1. /\ Len(queue) > 0 /\ Head(queue) = queue[1]
      /\ queue' \in Seq(Tasks) /\ Len(queue') = Len(queue) - 1
      /\ \A i \in 1 .. Len(queue') : queue'[i] = queue[i + 1]
  BY <1>0, EmptySeq, HeadTailProperties
<1>2. \A i, j \in 1 .. Len(queue) : queue[i] = queue[j] => i = j
  <2> SUFFICES ASSUME NEW i \in 1 .. Len(queue), NEW j \in 1 .. Len(queue), queue[i] = queue[j]
               PROVE  i = j
    OBVIOUS
  <2>1. \A l \in 1 .. Len(queue) : Len(added) - Len(queue) + l \in 1 .. Len(added)
    BY <1>0
  <2>2. Len(added) - Len(queue) + i = Len(added) - Len(queue) + j
    BY <1>0, <2>1
  <2>3. QED BY <1>0, <2>2
<1>3. QueueOK'
  <2>1. \A i \in 1 .. Len(queue') : queue'[i] = added[Len(added) - Len(queue') + i]
    <3> SUFFICES ASSUME NEW i \in 1 .. Len(queue')
                 PROVE  queue'[i] = added[Len(added) - Len(queue') + i]
      OBVIOUS
    <3>1. i + 1 \in 1 .. Len(queue)
      BY <1>0, <1>1
    <3>2. Len(added) - Len(queue) + (i + 1) = Len(added) - Len(queue') + i
      BY <1>0, <1>1
    <3>3. QED BY <1>0, <1>1, <3>1, <3>2
  <2>2. QED BY <1>0, <1>1, <2>1 DEF QueueOK
<1>4. InQueue(Head(queue))
  BY <1>0, <1>1 DEF InQueue
<1>5. ASSUME NEW t PROVE InQueue(t)' <=> InQueue(t) /\ t # Head(queue)
  <2>1. ASSUME InQueue(t)' PROVE InQueue(t) /\ t # Head(queue)
    <3>1. PICK i \in 1 .. Len(queue') : queue'[i] = t
      BY <2>1 DEF InQueue
    <3>2. i + 1 \in 1 .. Len(queue) /\ queue[i + 1] = t /\ i + 1 # 1
      BY <1>0, <1>1, <3>1
    <3>3. QED BY <1>0, <1>1, <1>2, <3>2 DEF InQueue
  <2>2. ASSUME InQueue(t), t # Head(queue) PROVE InQueue(t)'
    <3>1. PICK i \in 1 .. Len(queue) : queue[i] = t
      BY <2>2 DEF InQueue
    <3>2. i - 1 \in 1 .. Len(queue') /\ (i - 1) + 1 = i
      BY <1>0, <1>1, <2>2, <3>1
    <3>3. QED BY <1>1, <3>1, <3>2 DEF InQueue
  <2>3. QED BY <2>1, <2>2
<1>6. QED BY <1>3, <1>4, <1>5

----------------------------------------------------------------------------
(* Tables of deques. *)

LEMMA TableFacts ==
  ASSUME QueueOK, NEW q, DequesOK(q)
  PROVE  /\ \A r \in DOMAIN q : Head(q[r]) \in Tasks /\ Resource[Head(q[r])] = r /\ In(q, Head(q[r]))
         /\ \A t : In(q, t) => t \in Tasks /\ Added(t)
         /\ \A t : In(q, t) /\ t # First(q, t) => Comes(First(q, t), t)
<1>0. \A r \in DOMAIN q :
        /\ r \in Resources /\ q[r] \in Seq(Tasks) /\ Len(q[r]) \in Nat \ {0}
        /\ Head(q[r]) = q[r][1] /\ Head(q[r]) \in Tasks
        /\ \A i \in 1 .. Len(q[r]) : Resource[q[r][i]] = r /\ Added(q[r][i])
        /\ \A i, j \in 1 .. Len(q[r]) : i < j => Comes(q[r][i], q[r][j])
  BY EmptySeq, HeadTailProperties DEF DequesOK
<1>1. ASSUME NEW r \in DOMAIN q
      PROVE  Head(q[r]) \in Tasks /\ Resource[Head(q[r])] = r /\ In(q, Head(q[r]))
  <2>1. 1 \in 1 .. Len(q[r])
    BY <1>0
  <2>2. Resource[Head(q[r])] = r
    BY <1>0, <2>1
  <2>3. QED BY <1>0, <2>1, <2>2 DEF In
<1>2. ASSUME NEW t, In(q, t)
      PROVE  /\ t \in Tasks /\ Added(t)
             /\ t # First(q, t) => Comes(First(q, t), t)
  <2> DEFINE r == Resource[t]
  <2>1. r \in DOMAIN q
    BY <1>2 DEF In
  <2>2. PICK i \in 1 .. Len(q[r]) : q[r][i] = t
    BY <1>2 DEF In
  <2>3. Added(t) /\ t \in Tasks
    BY <1>0, <2>1, <2>2, OrderFacts
  <2>4. First(q, t) = q[r][1]
    BY <1>0, <2>1 DEF First
  <2>5. t # First(q, t) => 1 \in 1 .. Len(q[r]) /\ 1 < i
    BY <1>0, <2>1, <2>2, <2>4
  <2>6. QED BY <1>0, <2>1, <2>2, <2>3, <2>4, <2>5
<1>3. QED BY <1>1, <1>2

(* A task that comes after those of its resource may be put to the table.  *)
LEMMA EnqueueFacts ==
  ASSUME QueueOK, NEW q, DequesOK(q), NEW t \in Tasks, Added(t),
         \A u : In(q, u) /\ Resource[u] = Resource[t] => Comes(u, t)
  PROVE  /\ DequesOK(Enqueue(q, t))
         /\ DOMAIN Enqueue(q, t) = DOMAIN q \cup {Resource[t]}
         /\ \A u : In(Enqueue(q, t), u) <=> In(q, u) \/ u = t
         /\ \A r \in DOMAIN q : /\ Head(Enqueue(q, t)[r]) = Head(q[r])
                                /\ r # Resource[t] => Enqueue(q, t)[r] = q[r]
         /\ Resource[t] \notin DOMAIN q => Head(Enqueue(q, t)[Resource[t]]) = t
<1> DEFINE e == Enqueue(q, t)
           x == Resource[t]
           old == IF x \in DOMAIN q THEN q[x] ELSE <<>>
<1>1. x \in Resources
  BY ResourceAssumption
<1>2. /\ DOMAIN e = DOMAIN q \cup {x}
      /\ e[x] = Append(old, t)
      /\ \A r \in DOMAIN q : r # x => e[r] = q[r]
  BY DEF Enqueue
<1>3. /\ old \in Seq(Tasks) /\ Len(old) \in Nat
      /\ x \in DOMAIN q => old = q[x] /\ old # <<>>
      /\ x \notin DOMAIN q => old = <<>> /\ Len(old) = 0
  BY EmptySeq, LenProperties DEF DequesOK
<1> HIDE DEF e, old
<1>4. /\ e[x] \in Seq(Tasks) /\ Len(e[x]) = Len(old) + 1
      /\ \A i \in 1 .. Len(old) : e[x][i] = old[i]
      /\ e[x][Len(old) + 1] = t
  BY <1>2, <1>3
<1>5. e[x] # <<>>
  BY <1>3, <1>4
<1>6. \A i \in 1 .. Len(old) : Resource[old[i]] = x /\ Added(old[i]) /\ In(q, old[i])
  BY <1>3 DEF DequesOK, In
<1>7. \A i, j \in 1 .. Len(old) : i < j => Comes(old[i], old[j])
  BY <1>3 DEF DequesOK
<1>8. \A i \in 1 .. Len(e[x]) : i \in 1 .. Len(old) \/ i = Len(old) + 1
  BY <1>3, <1>4
<1>9. DequesOK(e)
  <2>1. ASSUME NEW r \in DOMAIN q, r # x
        PROVE  /\ r \in Resources /\ e[r] \in Seq(Tasks) /\ e[r] # <<>>
               /\ \A i \in 1 .. Len(e[r]) : Resource[e[r][i]] = r /\ Added(e[r][i])
               /\ \A i, j \in 1 .. Len(e[r]) : i < j => Comes(e[r][i], e[r][j])
    <3>1. e[r] = q[r]
      BY <1>2, <2>1
    <3>2. QED BY <3>1 DEF DequesOK
  <2>2. \A i \in 1 .. Len(e[x]) : Resource[e[x][i]] = x /\ Added(e[x][i])
    BY <1>4, <1>6, <1>8
  <2>3. \A i, j \in 1 .. Len(e[x]) : i < j => Comes(e[x][i], e[x][j])
    <3> SUFFICES ASSUME NEW i \in 1 .. Len(e[x]), NEW j \in 1 .. Len(e[x]), i < j
                 PROVE  Comes(e[x][i], e[x][j])
      OBVIOUS
    <3>1. i \in 1 .. Len(old)
      BY <1>3, <1>4
    <3>2. CASE j \in 1 .. Len(old)
      BY <1>4, <1>7, <3>1, <3>2
    <3>3. CASE j = Len(old) + 1
      BY <1>4, <1>6, <3>1, <3>3
    <3>4. QED BY <1>8, <3>2, <3>3
  <2>4. QED BY <1>1, <1>2, <1>4, <1>5, <2>1, <2>2, <2>3 DEF DequesOK
<1>10. ASSUME NEW u PROVE In(e, u) <=> In(q, u) \/ u = t
  <2>1. CASE Resource[u] # x
    BY <1>2, <2>1 DEF In
  <2>2. CASE Resource[u] = x
    <3>1. In(e, u) <=> \E i \in 1 .. Len(e[x]) : e[x][i] = u
      BY <1>2, <2>2 DEF In
    <3>2. In(q, u) <=> \E i \in 1 .. Len(old) : old[i] = u
      BY <1>3, <2>2 DEF In
    <3>3. ASSUME In(e, u) PROVE In(q, u) \/ u = t
      BY <1>4, <1>8, <3>1, <3>2, <3>3
    <3>4. Len(old) + 1 \in 1 .. Len(e[x]) /\ \A i \in 1 .. Len(old) : i \in 1 .. Len(e[x])
      BY <1>3, <1>4
    <3>5. ASSUME In(q, u) \/ u = t PROVE In(e, u)
      BY <1>4, <3>1, <3>2, <3>4, <3>5
    <3>6. QED BY <3>3, <3>5
  <2>3. QED BY <2>1, <2>2
<1>11. Head(e[x]) = e[x][1]
  BY <1>4, <1>5
<1>12. \A r \in DOMAIN q : Head(e[r]) = Head(q[r])
  <2>1. x \in DOMAIN q => Head(e[x]) = Head(q[x])
    <3> SUFFICES ASSUME x \in DOMAIN q PROVE Head(e[x]) = Head(q[x])
      OBVIOUS
    <3>1. old = q[x] /\ old # <<>> /\ 1 \in 1 .. Len(old)
      BY <1>3, EmptySeq
    <3>2. Head(old) = old[1]
      BY <1>3, <3>1
    <3>3. QED BY <1>4, <1>11, <3>1, <3>2
  <2>2. QED BY <1>2, <2>1
<1>13. x \notin DOMAIN q => Head(e[x]) = t
  BY <1>3, <1>4, <1>11
<1>14. QED BY <1>2, <1>9, <1>10, <1>12, <1>13 DEF e

(* _dequeue takes the first task of its resource away. *)
LEMMA DequeueFacts ==
  ASSUME QueueOK, DequesOK(tasks), NEW t \in Tasks, Resource[t] \in DOMAIN tasks, t = First(tasks, t)
  PROVE  /\ DequesOK(Dequeue(t))
         /\ DOMAIN Dequeue(t) = IF Remaining(t) = <<>> THEN DOMAIN tasks \ {Resource[t]} ELSE DOMAIN tasks
         /\ \A u : In(Dequeue(t), u) <=> In(tasks, u) /\ u # t
         /\ \A r \in DOMAIN tasks : r # Resource[t] => Dequeue(t)[r] = tasks[r]
         /\ Remaining(t) # <<>> => Dequeue(t)[Resource[t]] = Remaining(t)
<1> DEFINE d == Dequeue(t)
           x == Resource[t]
           rest == Remaining(t)
           s == tasks[x]
<1>0. /\ s \in Seq(Tasks) /\ s # <<>> /\ Len(s) \in Nat \ {0} /\ Head(s) = t /\ s[1] = t
      /\ x \in Resources
      /\ \A i \in 1 .. Len(s) : Resource[s[i]] = x /\ Added(s[i])
      /\ \A i, j \in 1 .. Len(s) : i < j => Comes(s[i], s[j])
  BY EmptySeq, HeadTailProperties DEF DequesOK, First
<1>1. rest = Tail(s)
  BY <1>0, RemoveHead DEF Remaining
<1>2. /\ rest \in Seq(Tasks) /\ Len(rest) = Len(s) - 1
      /\ \A i \in 1 .. Len(rest) : rest[i] = s[i + 1] /\ i + 1 \in 1 .. Len(s)
  BY <1>0, <1>1, HeadTailProperties
<1>3. d = IF rest = <<>> THEN Restrict(tasks, DOMAIN tasks \ {x}) ELSE [tasks EXCEPT ![x] = rest]
  BY DEF Dequeue
<1> HIDE DEF d, rest, s
<1>4. /\ DOMAIN d = IF rest = <<>> THEN DOMAIN tasks \ {x} ELSE DOMAIN tasks
      /\ \A r \in DOMAIN tasks : r # x => d[r] = tasks[r]
      /\ rest # <<>> => d[x] = rest
  BY <1>3 DEF Restrict
<1>5. DequesOK(d)
  <2>1. ASSUME NEW r \in DOMAIN d, r # x
        PROVE  /\ r \in Resources /\ d[r] \in Seq(Tasks) /\ d[r] # <<>>
               /\ \A i \in 1 .. Len(d[r]) : Resource[d[r][i]] = r /\ Added(d[r][i])
               /\ \A i, j \in 1 .. Len(d[r]) : i < j => Comes(d[r][i], d[r][j])
    <3>1. r \in DOMAIN tasks /\ d[r] = tasks[r]
      BY <1>4, <2>1
    <3>2. QED BY <3>1 DEF DequesOK
  <2>2. ASSUME x \in DOMAIN d
        PROVE  /\ d[x] \in Seq(Tasks) /\ d[x] # <<>>
               /\ \A i \in 1 .. Len(d[x]) : Resource[d[x][i]] = x /\ Added(d[x][i])
               /\ \A i, j \in 1 .. Len(d[x]) : i < j => Comes(d[x][i], d[x][j])
    <3>1. rest # <<>> /\ d[x] = rest
      BY <1>4, <2>2
    <3>2. \A i, j \in 1 .. Len(rest) : i < j => i + 1 < j + 1
      BY <1>0, <1>2
    <3>3. \A i \in 1 .. Len(rest) : Resource[rest[i]] = x /\ Added(rest[i])
      BY <1>0, <1>2
    <3>4. \A i, j \in 1 .. Len(rest) : i < j => Comes(rest[i], rest[j])
      BY <1>0, <1>2, <3>2
    <3>5. QED BY <1>2, <3>1, <3>3, <3>4
  <2>3. QED BY <1>0, <2>1, <2>2 DEF DequesOK
<1>6. ASSUME NEW u PROVE In(d, u) <=> In(tasks, u) /\ u # t
  <2>1. CASE Resource[u] # x
    BY <1>4, <2>1 DEF In
  <2>2. CASE Resource[u] = x
    <3>1. In(d, u) <=> \E i \in 1 .. Len(rest) : rest[i] = u
      <4>1. CASE rest = <<>>
        BY <1>4, <2>2, <4>1 DEF In
      <4>2. CASE rest # <<>>
        BY <1>4, <2>2, <4>2 DEF In
      <4>3. QED BY <4>1, <4>2
    <3>2. In(tasks, u) <=> \E i \in 1 .. Len(s) : s[i] = u
      BY <2>2 DEF In, s
    <3>3. ASSUME In(d, u) PROVE In(tasks, u) /\ u # t
      <4>1. PICK i \in 1 .. Len(rest) : rest[i] = u
        BY <3>1, <3>3
      <4>2. i + 1 \in 1 .. Len(s) /\ s[i + 1] = u /\ 1 \in 1 .. Len(s) /\ 1 < i + 1
        BY <1>0, <1>2, <4>1
      <4>3. Comes(t, u)
        BY <1>0, <4>2
      <4>4. QED BY <3>2, <4>2, <4>3, OrderFacts
    <3>4. ASSUME In(tasks, u), u # t PROVE In(d, u)
      <4>1. PICK i \in 1 .. Len(s) : s[i] = u
        BY <3>2, <3>4
      <4>2. i - 1 \in 1 .. Len(rest) /\ (i - 1) + 1 = i
        BY <1>0, <1>2, <3>4, <4>1
      <4>3. QED BY <1>2, <3>1, <4>1, <4>2
    <3>5. QED BY <3>3, <3>4
  <2>3. QED BY <2>1, <2>2
<1>7. QED BY <1>4, <1>5, <1>6 DEF d, rest

----------------------------------------------------------------------------
(* What _abort puts to the table.  after is the table after that many      *)
(* tasks of the queue s.                                                   *)

After(q, s, n, after) ==
  after = [i \in 0 .. n |-> IF i = 0 THEN q ELSE Enqueue(after[i - 1], s[i])]

LEMMA AfterExists ==
  ASSUME NEW q, NEW s, NEW n \in Nat
  PROVE  \E after : After(q, s, n, after)
<1> DEFINE Bad == {i \in Nat : ~\E after : After(q, s, i, after)}
<1> SUFFICES ASSUME Bad # {} PROVE FALSE
  OBVIOUS
<1>1. PICK i \in Bad : \A j \in Bad : i <= j
  BY Least
<1>2. CASE i = 0
  <2> DEFINE f == [j \in 0 .. 0 |-> q]
  <2>1. f = [j \in 0 .. 0 |-> IF j = 0 THEN q ELSE Enqueue(f[j - 1], s[j])]
    OBVIOUS
  <2>2. After(q, s, 0, f)
    BY <2>1 DEF After
  <2>3. QED BY <1>2, <2>2
<1>3. CASE i # 0
  <2>1. i - 1 \in Nat /\ i - 1 \notin Bad
    BY <1>1, <1>3
  <2>2. PICK f : After(q, s, i - 1, f)
    BY <2>1
  <2> DEFINE g == [j \in 0 .. i |-> IF j = i THEN Enqueue(f[i - 1], s[i]) ELSE f[j]]
  <2>3. \A j \in 0 .. i - 1 : f[j] = IF j = 0 THEN q ELSE Enqueue(f[j - 1], s[j])
    BY <2>2 DEF After
  <2>4. \A j \in 0 .. i : g[j] = IF j = 0 THEN q ELSE Enqueue(g[j - 1], s[j])
    <3> SUFFICES ASSUME NEW j \in 0 .. i
                 PROVE  g[j] = IF j = 0 THEN q ELSE Enqueue(g[j - 1], s[j])
      OBVIOUS
    <3>1. CASE j = i
      <4>1. i - 1 \in 0 .. i /\ i - 1 # i
        BY <2>1
      <4>2. g[i - 1] = f[i - 1]
        BY <4>1
      <4>3. QED BY <1>3, <3>1, <4>2
    <3>2. CASE j # i /\ j = 0
      BY <2>1, <2>3, <3>2
    <3>3. CASE j # i /\ j # 0
      <4>1. j - 1 \in 0 .. i /\ j - 1 # i /\ j \in 0 .. i - 1
        BY <3>3
      <4>2. g[j - 1] = f[j - 1] /\ g[j] = f[j]
        BY <3>3, <4>1
      <4>3. QED BY <2>3, <3>3, <4>1, <4>2
    <3>4. QED BY <3>1, <3>2, <3>3
  <2>5. g = [j \in 0 .. i |-> g[j]]
    OBVIOUS
  <2> HIDE DEF g
  <2>6. g = [j \in 0 .. i |-> IF j = 0 THEN q ELSE Enqueue(g[j - 1], s[j])]
    BY <2>4, <2>5
  <2>7. After(q, s, i, g)
    BY <2>6 DEF After
  <2>8. QED BY <1>1, <2>7
<1>4. QED BY <1>2, <1>3

LEMMA EnqueueAllDef ==
  ASSUME NEW q, NEW s, Len(s) \in Nat
  PROVE  \E after : After(q, s, Len(s), after) /\ EnqueueAll(q, s) = after[Len(s)]
<1> DEFINE f == CHOOSE after : After(q, s, Len(s), after)
<1>1. After(q, s, Len(s), f)
  BY AfterExists
<1>2. EnqueueAll(q, s) = f[Len(s)]
  BY DEF EnqueueAll, After
<1>3. QED BY <1>1, <1>2

(* Every task of the queue gets behind those of its resource, in order.    *)
LEMMA EnqueueAllFacts ==
  ASSUME QueueOK, DequesOK(tasks), \A t : In(tasks, t) => ~InQueue(t)
  PROVE  LET q == EnqueueAll(tasks, queue)
         IN  /\ DequesOK(q)
             /\ \A u : In(q, u) <=> In(tasks, u) \/ InQueue(u)
             /\ \A r \in DOMAIN tasks : r \in DOMAIN q /\ Head(q[r]) = Head(tasks[r])
<1>0. Len(queue) \in Nat /\ queue \in Seq(Tasks)
  BY LenProperties DEF QueueOK
<1>1. PICK f : After(tasks, queue, Len(queue), f) /\ EnqueueAll(tasks, queue) = f[Len(queue)]
  BY <1>0, EnqueueAllDef
<1>2. \A i \in 0 .. Len(queue) : f[i] = IF i = 0 THEN tasks ELSE Enqueue(f[i - 1], queue[i])
  BY <1>1 DEF After
<1> DEFINE Good(i) ==
      /\ DequesOK(f[i])
      /\ \A u : In(f[i], u) <=> In(tasks, u) \/ \E j \in 1 .. i : queue[j] = u
      /\ \A r \in DOMAIN tasks : r \in DOMAIN f[i] /\ Head(f[i][r]) = Head(tasks[r])
    Bad == {i \in 0 .. Len(queue) : ~Good(i)}
<1>3. Good(0)
  BY <1>0, <1>2
<1>4. ASSUME NEW i \in 1 .. Len(queue), Good(i - 1) PROVE Good(i)
  <2>1. f[i] = Enqueue(f[i - 1], queue[i])
    BY <1>0, <1>2
  <2> DEFINE q == f[i - 1]
             t == queue[i]
  <2>2. t \in Tasks /\ InQueue(t) /\ Added(t)
    BY <1>0, QueueFacts DEF InQueue
  <2>3. \A u : In(q, u) => Comes(u, t)
    <3> SUFFICES ASSUME NEW u, In(q, u) PROVE Comes(u, t)
      OBVIOUS
    <3>1. CASE In(tasks, u)
      <4>1. Added(u) /\ ~InQueue(u)
        BY <3>1, TableFacts
      <4>2. QED BY <2>2, <4>1, QueueFacts
    <3>2. CASE \E j \in 1 .. i - 1 : queue[j] = u
      <4>1. PICK j \in 1 .. i - 1 : queue[j] = u
        BY <3>2
      <4>2. j \in 1 .. Len(queue) /\ j < i
        BY <1>0, <4>1
      <4>3. QED BY <4>1, <4>2, QueueFacts
    <3>3. QED BY <1>4, <3>1, <3>2
  <2>4. DequesOK(q) /\ \A r \in DOMAIN tasks : r \in DOMAIN q /\ Head(q[r]) = Head(tasks[r])
    BY <1>4
  <2>5. \A u : In(q, u) <=> In(tasks, u) \/ \E j \in 1 .. i - 1 : queue[j] = u
    BY <1>4
  <2> HIDE DEF q, t
  <2>6. /\ DequesOK(Enqueue(q, t))
        /\ DOMAIN Enqueue(q, t) = DOMAIN q \cup {Resource[t]}
        /\ \A u : In(Enqueue(q, t), u) <=> In(q, u) \/ u = t
        /\ \A r \in DOMAIN q : Head(Enqueue(q, t)[r]) = Head(q[r])
    BY <2>2, <2>3, <2>4, EnqueueFacts
  <2>7. f[i] = Enqueue(q, t)
    BY <2>1 DEF q, t
  <2>8. \A u : In(f[i], u) <=> In(tasks, u) \/ \E j \in 1 .. i : queue[j] = u
    <3>1. \A u : (\E j \in 1 .. i : queue[j] = u) <=> (\E j \in 1 .. i - 1 : queue[j] = u) \/ u = t
      <4>1. \A j \in 1 .. i : j \in 1 .. i - 1 \/ j = i
        OBVIOUS
      <4>2. i \in 1 .. i /\ \A j \in 1 .. i - 1 : j \in 1 .. i
        OBVIOUS
      <4>3. QED BY <4>1, <4>2 DEF t
    <3>2. QED BY <2>5, <2>6, <2>7, <3>1
  <2>9. QED BY <2>4, <2>6, <2>7, <2>8
<1> HIDE DEF Good
<1>5. Bad = {}
  <2> SUFFICES ASSUME Bad # {} PROVE FALSE
    OBVIOUS
  <2>0. Bad \subseteq Nat
    BY <1>0
  <2>1. PICK i \in Bad : \A j \in Bad : i <= j
    BY <2>0, Least
  <2>2. i # 0
    BY <1>3, <2>1
  <2>3. i \in 1 .. Len(queue) /\ i - 1 \in 0 .. Len(queue)
    BY <1>0, <2>1, <2>2
  <2>4. Good(i - 1)
    BY <2>1, <2>3
  <2>5. QED BY <1>4, <2>1, <2>3, <2>4
<1>6. Good(Len(queue))
  BY <1>0, <1>5
<1>7. QED BY <1>1, <1>6 DEF Good, InQueue

----------------------------------------------------------------------------
(* What the steps have in common. *)

Typed ==
  /\ state \in [Tasks -> States] /\ status \in [Tasks -> Statuses]
  /\ events \in [Tasks -> SUBSET {EXECUTED, RESULT}]
  /\ main \in [pc : MainPcs, task : Tasks \cup {NoTask}]
  /\ monitor \in [pc : MonitorPcs, task : Tasks \cup {NoTask}, todo : SUBSET Resources]
  /\ stopped \in BOOLEAN /\ stops \in 0 .. MaxStops

LEMMA Parts ==
  /\ IInv <=> /\ Typed /\ WaitersAhead /\ QueueOK /\ FreshOK /\ DequesOK(tasks) /\ StartedOK
              /\ MainOK /\ MonitorOK /\ Placed
  /\ IInv' <=> /\ Typed' /\ WaitersAhead' /\ QueueOK' /\ FreshOK' /\ DequesOK(tasks)' /\ StartedOK'
               /\ MainOK' /\ MonitorOK' /\ Placed'
<1>1. IInv <=> /\ Typed /\ WaitersAhead /\ QueueOK /\ FreshOK /\ DequesOK(tasks) /\ StartedOK
               /\ MainOK /\ MonitorOK /\ Placed
  <2>1. QueueOK /\ DequesOK(tasks) /\ Typed => TypeOK
    BY DEF QueueOK, DequesOK, Typed, TypeOK
  <2>2. TypeOK => Typed
    BY DEF Typed, TypeOK
  <2>3. QED BY <2>1, <2>2 DEF IInv
<1>2. QED BY <1>1, PTL

(* Where a task can be. *)
LEMMA Known ==
  ASSUME IInv
  PROVE  /\ \A t : In(tasks, t) => /\ t \in Tasks /\ Added(t) /\ ~InQueue(t) /\ state[t] # RESULT
                                   /\ Resource[t] \in DOMAIN tasks
                                   /\ t # First(tasks, t) => state[t] = NONE /\ Comes(First(tasks, t), t)
         /\ \A r \in DOMAIN tasks : /\ Head(tasks[r]) \in Tasks /\ Resource[Head(tasks[r])] = r
                                    /\ In(tasks, Head(tasks[r]))
         /\ DOMAIN tasks \subseteq Resources
         /\ \A t : InQueue(t) => t \in Tasks /\ Added(t) /\ state[t] = NONE /\ ~In(tasks, t)
         /\ \A t : Added(t) => t \in Tasks
         /\ monitor.pc \in {"status", "result", "execute"} => In(tasks, monitor.task)
         /\ main.pc \in {"execute", "result"} => ~In(tasks, main.task)
         /\ main.pc = "abort" => In(tasks, main.task)
<1> USE Parts
<1>1. /\ \A r \in DOMAIN tasks : /\ Head(tasks[r]) \in Tasks /\ Resource[Head(tasks[r])] = r
                                 /\ In(tasks, Head(tasks[r]))
      /\ \A t : In(tasks, t) => t \in Tasks /\ Added(t)
      /\ \A t : In(tasks, t) /\ t # First(tasks, t) => Comes(First(tasks, t), t)
  BY TableFacts
<1>2. \A t : In(tasks, t) => /\ t \in Tasks /\ Added(t) /\ ~InQueue(t) /\ state[t] # RESULT
                             /\ Resource[t] \in DOMAIN tasks
                             /\ t # First(tasks, t) => state[t] = NONE /\ Comes(First(tasks, t), t)
  BY <1>1 DEF StartedOK, In
<1>3. DOMAIN tasks \subseteq Resources
  BY DEF DequesOK
<1>4. \A t : InQueue(t) => t \in Tasks /\ Added(t) /\ state[t] = NONE /\ ~In(tasks, t)
  BY <1>2, QueueFacts DEF FreshOK
<1>5. \A t : Added(t) => t \in Tasks
  BY OrderFacts
<1>6. monitor.pc \in {"status", "result", "execute"} => In(tasks, monitor.task)
  BY <1>1 DEF MonitorOK, First
<1>7. main.pc \in {"execute", "result"} => ~In(tasks, main.task)
  BY DEF MainOK, In
<1>8. main.pc = "abort" => In(tasks, main.task)
  BY <1>1 DEF MainOK, First
<1>9. QED BY <1>1, <1>2, <1>3, <1>4, <1>5, <1>6, <1>7, <1>8

LEMMA SameAdded ==
  ASSUME UNCHANGED added
  PROVE  /\ \A t : Added(t)' <=> Added(t)
         /\ \A t, u : Comes(t, u)' <=> Comes(t, u)
         /\ DequesOK(tasks') => DequesOK(tasks)'
<1>1. /\ \A t : Added(t)' <=> Added(t)
      /\ \A t, u : Comes(t, u)' <=> Comes(t, u)
  BY DEF Added, Comes
<1>2. QED BY <1>1 DEF DequesOK

LEMMA SameQueue ==
  ASSUME UNCHANGED <<added, queue>>
  PROVE  /\ QueueOK => QueueOK'
         /\ \A t : InQueue(t)' <=> InQueue(t)
BY DEF QueueOK, InQueue

LEMMA MoveStateFacts ==
  ASSUME Typed, WaitersAhead, NEW t \in Tasks, NEW s \in States, MoveState(t, s)
  PROVE  /\ state' \in [Tasks -> States] /\ events' \in [Tasks -> SUBSET {EXECUTED, RESULT}]
         /\ WaitersAhead' /\ state'[t] = s /\ \A u \in Tasks : u # t => state'[u] = state[u]
<1> USE DEF Typed, MoveState, Woken, States, NONE, START, EXECUTED, RESULT
<1>1. /\ state' \in [Tasks -> States] /\ events' \in [Tasks -> SUBSET {EXECUTED, RESULT}]
      /\ state'[t] = s /\ \A u \in Tasks : u # t => state'[u] = state[u]
  OBVIOUS
<1>2. WaitersAhead'
  <2> SUFFICES ASSUME NEW u \in Tasks, NEW w \in events'[u] PROVE w > state'[u]
    BY DEF WaitersAhead
  <2>1. CASE u = t
    BY <2>1
  <2>2. CASE u # t
    BY <2>2 DEF WaitersAhead
  <2>3. QED BY <2>1, <2>2
<1>3. QED BY <1>1, <1>2

LEMMA InPrime ==
  /\ \A t : In(tasks, t)' <=> In(tasks', t)
  /\ \A t : First(tasks, t)' = First(tasks', t)
BY DEF In, First

(* Where the next round of the loop, or its end, leaves both threads. *)
LEMMA LoopFacts ==
  ASSUME Typed, monitor.pc # "off", Loop \/ Leave
  PROVE  /\ main' \in [pc : MainPcs, task : Tasks \cup {NoTask}]
         /\ main'.task = NoTask /\ main'.pc \in {"get", "join"}
         /\ Loop /\ main'.pc = "join" => stopped
         /\ monitor' \in [pc : MonitorPcs, task : Tasks \cup {NoTask}, todo : SUBSET Resources]
         /\ monitor'.task = monitor.task /\ monitor'.todo = monitor.todo
         /\ \/ monitor'.pc = monitor.pc
            \/ monitor.pc = "idle" /\ monitor'.pc = "off" /\ main'.pc = "join"
<1>1. monitor \in [pc : MonitorPcs, task : Tasks \cup {NoTask}, todo : SUBSET Resources]
  BY DEF Typed
<1>2. CASE Leave
  BY <1>1, <1>2 DEF Leave, At, MainPcs, MonitorPcs, Loop
<1>3. CASE ~stopped /\ main' = At("get", NoTask) /\ UNCHANGED monitor
  BY <1>1, <1>3 DEF At, MainPcs, Loop, Leave
<1>4. QED BY <1>2, <1>3 DEF Loop

(* Where the monitor is after it went on: each head it may find is one     *)
(* that is pending.                                                        *)
LEMMA CheckNextFacts ==
  ASSUME Typed, MainOK, QueueOK, UNCHANGED <<added, main, stopped>>, monitor.pc # "off",
         DequesOK(tasks'), NEW todo \in SUBSET Resources, todo \subseteq DOMAIN tasks',
         ~stopped => \A r \in DOMAIN tasks' : state'[Head(tasks'[r])] = EXECUTED,
         CheckNext(tasks', todo)
  PROVE  /\ monitor' \in [pc : MonitorPcs, task : Tasks \cup {NoTask}, todo : SUBSET Resources]
         /\ MonitorOK'
<1>1. \A r \in DOMAIN tasks' : Head(tasks'[r]) \in Tasks /\ Resource[Head(tasks'[r])] = r
  BY TableFacts
<1>2. CASE \E r \in todo : ~stopped /\ monitor' = MonitorAt("status", Head(tasks'[r]), todo \ {r})
  <2>1. PICK r \in todo : ~stopped /\ monitor' = MonitorAt("status", Head(tasks'[r]), todo \ {r})
    BY <1>2
  <2>2. /\ monitor'.pc = "status" /\ monitor'.task = Head(tasks'[r]) /\ monitor'.todo = todo \ {r}
        /\ Head(tasks'[r]) \in Tasks /\ Resource[Head(tasks'[r])] = r /\ r \in DOMAIN tasks'
    BY <1>1, <2>1 DEF MonitorAt
  <2>3. monitor' \in [pc : MonitorPcs, task : Tasks \cup {NoTask}, todo : SUBSET Resources]
    BY <2>1, <2>2 DEF MonitorAt, MonitorPcs
  <2>4. MonitorOK'
    BY <2>1, <2>2 DEF MonitorOK, First
  <2>5. QED BY <2>3, <2>4
<1>3. CASE monitor' = IF main.pc = "join" THEN [Idle EXCEPT !.pc = "off"] ELSE Idle
  <2>1. /\ monitor'.pc \in {"off", "idle"} /\ monitor'.task = NoTask /\ monitor'.todo = {}
        /\ monitor'.pc = "off" => main.pc = "join"
        /\ monitor' \in [pc : MonitorPcs, task : Tasks \cup {NoTask}, todo : SUBSET Resources]
    BY <1>3 DEF Idle, MonitorAt, MonitorPcs
  <2>2. QED BY <2>1 DEF MonitorOK
<1>4. QED BY <1>2, <1>3 DEF CheckNext

(* What _abort goes on with. *)
LEMMA AbortNextFacts ==
  ASSUME Typed, QueueOK, NEW q, DequesOK(q), NEW R, R \subseteq DOMAIN q, AbortNext(q, R)
  PROVE  /\ status' \in [Tasks -> Statuses]
         /\ \A u \in Tasks : status[u] \in Final => status'[u] \in Final
         /\ \A u \in Tasks : status'[u] # status[u] => In(q, u)
         /\ main' \in [pc : MainPcs, task : Tasks \cup {NoTask}]
         /\ \/ /\ main'.pc = "abort" /\ main'.task \in Tasks /\ Resource[main'.task] \in R
               /\ main'.task = First(q, main'.task) /\ status'[main'.task] \in Final
            \/ main'.pc = "off" /\ main'.task = NoTask /\ R = {}
<1>1. \A r \in R : Head(q[r]) \in Tasks /\ Resource[Head(q[r])] = r /\ In(q, Head(q[r]))
  BY TableFacts
<1>2. CASE AbortHead(q, R)
  <2>1. PICK r \in R : status' = [status EXCEPT ![Head(q[r])] = "ABORT"] /\ main' = At("abort", Head(q[r]))
    BY <1>2 DEF AbortHead
  <2>2. main'.pc = "abort" /\ main'.task = Head(q[r]) /\ main' \in [pc : MainPcs, task : Tasks \cup {NoTask}]
    BY <1>1, <2>1 DEF At, MainPcs
  <2>3. /\ status' \in [Tasks -> Statuses] /\ status'[Head(q[r])] = "ABORT"
        /\ \A u \in Tasks : u # Head(q[r]) => status'[u] = status[u]
    BY <1>1, <2>1 DEF Typed, Statuses, Final
  <2>4. QED BY <1>1, <2>1, <2>2, <2>3 DEF First, Final
<1>3. CASE R = {} /\ main' = At("off", NoTask) /\ UNCHANGED status
  BY <1>3 DEF At, MainPcs, Typed
<1>4. QED BY <1>2, <1>3 DEF AbortNext

(* What a step needs to keep the invariant that leaves the queue alone.    *)
LEMMA SameFresh ==
  ASSUME IInv, UNCHANGED <<added, queue>>,
         \A t \in Tasks : state'[t] # state[t] => Added(t) /\ ~InQueue(t)
  PROVE  /\ QueueOK' /\ FreshOK' /\ (\A t : InQueue(t)' <=> InQueue(t))
         /\ \A t : Added(t)' <=> Added(t)
         /\ DequesOK(tasks') => DequesOK(tasks)'
<1>1. QueueOK /\ FreshOK
  BY Parts
<1>2. /\ QueueOK' /\ \A t : InQueue(t)' <=> InQueue(t)
      /\ \A t : Added(t)' <=> Added(t)
      /\ DequesOK(tasks') => DequesOK(tasks)'
  BY <1>1, SameAdded, SameQueue
<1>3. FreshOK'
  BY <1>1, <1>2 DEF FreshOK
<1>4. QED BY <1>2, <1>3

----------------------------------------------------------------------------
(* The API workers. *)

LEMMA AddStep ==
  ASSUME IInv, NEW x \in Tasks, Add(x)
  PROVE  IInv'
<1> USE Parts
<1>1. /\ ~Added(x) /\ added' = Append(added, x) /\ queue' = Append(queue, x)
      /\ UNCHANGED <<tasks, state, status, events, main, monitor, stopped, stops>>
  BY DEF Add, Added
<1>2. /\ QueueOK' /\ \A t : Added(t)' <=> Added(t) \/ t = x
      /\ \A t : InQueue(t)' <=> InQueue(t) \/ t = x
      /\ \A t, u : Comes(t, u) => Comes(t, u)'
  BY <1>1, AppendFacts
<1>3. Typed' /\ WaitersAhead'
  BY <1>1 DEF Typed, WaitersAhead
<1>4. FreshOK'
  BY <1>1, <1>2 DEF FreshOK
<1>5. DequesOK(tasks)'
  BY <1>1, <1>2 DEF DequesOK
<1>6. \A t : In(tasks, t)' <=> In(tasks, t)
  BY <1>1 DEF In
<1>7. StartedOK'
  BY <1>1, <1>2, <1>6, Known DEF StartedOK, First
<1>8. MainOK'
  BY <1>1, <1>2 DEF MainOK, First
<1>9. MonitorOK'
  BY <1>1 DEF MonitorOK, First
<1>10. Placed'
  BY <1>1, <1>2, <1>6 DEF Placed
<1>11. QED BY <1>2, <1>3, <1>4, <1>5, <1>7, <1>8, <1>9, <1>10

LEMMA WaitStep ==
  ASSUME IInv, NEW x \in Tasks, NEW s \in {EXECUTED, RESULT}, Wait(x, s)
  PROVE  IInv'
<1> USE Parts
<1>1. /\ s > state[x] /\ events' = [events EXCEPT ![x] = @ \cup {s}]
      /\ UNCHANGED <<added, queue, tasks, state, status, main, monitor, stopped, stops>>
  BY DEF Wait
<1>2. Typed'
  BY <1>1 DEF Typed
<1>3. WaitersAhead'
  BY <1>1 DEF WaitersAhead, Typed
<1>4. /\ QueueOK' /\ \A t : InQueue(t)' <=> InQueue(t)
      /\ \A t : Added(t)' <=> Added(t)
      /\ DequesOK(tasks)'
  BY <1>1, SameAdded, SameQueue
<1>5. \A t : In(tasks, t)' <=> In(tasks, t)
  BY <1>1 DEF In
<1>6. FreshOK' /\ StartedOK' /\ MainOK' /\ MonitorOK' /\ Placed'
  BY <1>1, <1>4, <1>5 DEF FreshOK, StartedOK, MainOK, MonitorOK, Placed, First
<1>7. QED BY <1>2, <1>3, <1>4, <1>6

----------------------------------------------------------------------------
(* run(). *)

LEMMA GetTaskStep ==
  ASSUME IInv, GetTask
  PROVE  IInv'
<1> USE Parts
<1> DEFINE t == Head(queue)
<1>1. /\ main.pc = "get" /\ ~stopped /\ queue # <<>> /\ queue' = Tail(queue)
      /\ UNCHANGED <<added, status, monitor, stopped, stops>>
  BY DEF GetTask
<1>2. QueueOK' /\ InQueue(t) /\ \A u : InQueue(u)' <=> InQueue(u) /\ u # t
  BY <1>1, PopFacts
<1>3. t \in Tasks /\ Added(t) /\ state[t] = NONE /\ ~In(tasks, t)
  BY <1>2, Known
<1>4. /\ \A u : Added(u)' <=> Added(u)
      /\ DequesOK(tasks') => DequesOK(tasks)'
  BY <1>1, SameAdded
<1> HIDE DEF t
<1>5. CASE /\ Resource[t] \in DOMAIN tasks /\ tasks' = Enqueue(tasks, t)
           /\ UNCHANGED <<main, state, events>>
  <2>1. \A u : In(tasks, u) => Comes(u, t)
    BY <1>2, Known, QueueFacts
  <2>2. /\ DequesOK(tasks') /\ DOMAIN tasks' = DOMAIN tasks
        /\ \A u : In(tasks', u) <=> In(tasks, u) \/ u = t
        /\ \A r \in DOMAIN tasks : Head(tasks'[r]) = Head(tasks[r])
    BY <1>3, <1>5, <2>1, EnqueueFacts
  <2>3. \A u : In(tasks, u)' <=> In(tasks, u) \/ u = t
    BY <2>2, InPrime
  <2>4. Typed' /\ WaitersAhead' /\ FreshOK' /\ DequesOK(tasks)'
    BY <1>1, <1>2, <1>4, <1>5, <2>2 DEF Typed, WaitersAhead, FreshOK
  <2>5. StartedOK'
    <3>1. \A u : Resource[u] \in DOMAIN tasks => First(tasks, u)' = First(tasks, u)
      BY <2>2, InPrime DEF First
    <3>2. \A u \in Tasks : In(tasks, u)' => /\ ~InQueue(u)' /\ state'[u] # RESULT
                                            /\ u # First(tasks, u)' => state'[u] = NONE
      BY <1>2, <1>3, <1>5, <2>3, <3>1, Known DEF NONE, RESULT
    <3>3. \A r \in DOMAIN tasks' : LET u == Head(tasks'[r])
                                   IN  u = monitor'.task \/ (status'[u] = "PENDING" /\ state'[u] = EXECUTED)
      BY <1>1, <1>5, <2>2 DEF StartedOK
    <3>4. QED BY <3>2, <3>3 DEF StartedOK
  <2>6. MainOK'
    BY <1>1, <1>5 DEF MainOK
  <2>7. MonitorOK'
    BY <1>1, <1>5, <2>2 DEF MonitorOK, First
  <2>8. Placed'
    BY <1>1, <1>2, <1>4, <1>5, <2>3 DEF Placed
  <2>9. QED BY <1>2, <2>4, <2>5, <2>6, <2>7, <2>8
<1>6. CASE /\ Resource[t] \notin DOMAIN tasks /\ main' = At("execute", t)
           /\ MoveState(t, START) /\ UNCHANGED tasks
  <2>1. /\ main'.pc = "execute" /\ main'.task = t
        /\ main' \in [pc : MainPcs, task : Tasks \cup {NoTask}]
    BY <1>3, <1>6 DEF At, MainPcs
  <2>2. /\ state' \in [Tasks -> States] /\ events' \in [Tasks -> SUBSET {EXECUTED, RESULT}]
        /\ WaitersAhead' /\ state'[t] = START /\ \A u \in Tasks : u # t => state'[u] = state[u]
    <3>1. START \in States
      BY DEF States
    <3>2. QED BY <1>3, <1>6, <3>1, MoveStateFacts
  <2>3. Typed'
    BY <1>1, <2>1, <2>2 DEF Typed
  <2>4. FreshOK'
    BY <1>2, <1>3, <1>4, <2>2 DEF FreshOK
  <2>5. DequesOK(tasks)' /\ \A u : In(tasks, u)' <=> In(tasks, u)
    BY <1>4, <1>6, InPrime
  <2>6. \A u : In(tasks, u) => u # t /\ u \in Tasks /\ state'[u] = state[u]
    BY <1>3, <2>2, Known
  <2>7. StartedOK'
    <3>1. \A u \in Tasks : In(tasks, u)' => /\ ~InQueue(u)' /\ state'[u] # RESULT
                                            /\ u # First(tasks, u)' => state'[u] = NONE
      BY <1>2, <1>6, <2>5, <2>6, Known DEF First
    <3>2. \A r \in DOMAIN tasks' : LET u == Head(tasks'[r])
                                   IN  u = monitor'.task \/ (status'[u] = "PENDING" /\ state'[u] = EXECUTED)
      BY <1>1, <1>6, <2>6, Known DEF StartedOK
    <3>3. QED BY <3>1, <3>2 DEF StartedOK
  <2>8. MainOK'
    BY <1>2, <1>3, <1>4, <1>6, <2>1, <2>2 DEF MainOK, START, RESULT
  <2>9. MonitorOK'
    <3>1. monitor.pc = "status" => state'[monitor.task] = EXECUTED
      BY <2>6, Known DEF MonitorOK
    <3>2. monitor.pc # "off"
      BY <1>1 DEF MonitorOK
    <3>3. QED BY <1>1, <1>6, <3>1, <3>2 DEF MonitorOK, First
  <2>10. Placed'
    BY <1>1, <1>2, <1>4, <2>1, <2>5 DEF Placed
  <2>11. QED BY <1>2, <2>2, <2>3, <2>4, <2>5, <2>7, <2>8, <2>9, <2>10
<1>7. QED BY <1>5, <1>6 DEF GetTask, t

(* The thread has a task of its own: the monitor has it not.               *)
LEMMA MainTask ==
  ASSUME IInv, main.pc \in {"execute", "result"}
  PROVE  /\ main.task \in Tasks /\ Added(main.task) /\ ~InQueue(main.task)
         /\ Resource[main.task] \notin DOMAIN tasks /\ ~In(tasks, main.task)
         /\ monitor.pc # "off" /\ main.task # monitor.task
         /\ \A r \in DOMAIN tasks : Head(tasks[r]) # main.task
<1> USE Parts
<1>1. /\ main.task \in Tasks /\ Added(main.task) /\ ~InQueue(main.task)
      /\ Resource[main.task] \notin DOMAIN tasks
  BY DEF MainOK
<1>2. monitor.pc # "off"
  BY DEF MonitorOK
<1>3. monitor.task # NoTask => Resource[monitor.task] \in DOMAIN tasks
  BY DEF MonitorOK, Typed, MonitorPcs
<1>4. QED BY <1>1, <1>2, <1>3, Known, NoTaskAssumption

LEMMA ExecutedFacts ==
  ASSUME Typed, WaitersAhead, NEW t \in Tasks, NEW s \in Returned, Executed(t, s)
  PROVE  /\ state' \in [Tasks -> States] /\ events' \in [Tasks -> SUBSET {EXECUTED, RESULT}]
         /\ status' \in [Tasks -> Statuses] /\ WaitersAhead'
         /\ state'[t] = EXECUTED /\ status'[t] = s
         /\ \A u \in Tasks : u # t => state'[u] = state[u] /\ status'[u] = status[u]
         /\ s # "PENDING" => s \in Final
<1>1. EXECUTED \in States
  BY DEF States
<1>2. MoveState(t, EXECUTED) /\ status' = [status EXCEPT ![t] = s]
  BY DEF Executed
<1>3. /\ status' \in [Tasks -> Statuses] /\ status'[t] = s
      /\ \A u \in Tasks : u # t => status'[u] = status[u]
      /\ s # "PENDING" => s \in Final
  BY <1>2 DEF Typed, Statuses, Final, Returned
<1>4. QED BY <1>1, <1>2, <1>3, MoveStateFacts

LEMMA MainExecutedStep ==
  ASSUME IInv, NEW s \in Returned, MainExecuted(s)
  PROVE  IInv'
<1> USE Parts
<1> DEFINE t == main.task
<1>1. main.pc = "execute" /\ Executed(t, s) /\ UNCHANGED <<added, queue, stopped, stops>>
  BY DEF MainExecuted
<1>2. /\ t \in Tasks /\ Added(t) /\ ~InQueue(t) /\ Resource[t] \notin DOMAIN tasks
      /\ ~In(tasks, t) /\ monitor.pc # "off" /\ t # monitor.task
      /\ \A r \in DOMAIN tasks : Head(tasks[r]) # t
  BY <1>1, MainTask
<1>3. /\ state' \in [Tasks -> States] /\ events' \in [Tasks -> SUBSET {EXECUTED, RESULT}]
      /\ status' \in [Tasks -> Statuses] /\ WaitersAhead'
      /\ state'[t] = EXECUTED /\ status'[t] = s
      /\ \A u \in Tasks : u # t => state'[u] = state[u] /\ status'[u] = status[u]
      /\ s # "PENDING" => s \in Final
  BY <1>1, <1>2, ExecutedFacts
<1>4. /\ QueueOK' /\ FreshOK' /\ (\A u : InQueue(u)' <=> InQueue(u))
      /\ \A u : Added(u)' <=> Added(u)
      /\ DequesOK(tasks') => DequesOK(tasks)'
  BY <1>1, <1>2, <1>3, SameFresh
<1>5. \A u : In(tasks, u) => u # t /\ state'[u] = state[u] /\ status'[u] = status[u]
  BY <1>2, <1>3, Known
<1>6. \A r \in DOMAIN tasks : /\ state'[Head(tasks[r])] = state[Head(tasks[r])]
                               /\ status'[Head(tasks[r])] = status[Head(tasks[r])]
  BY <1>5, Known
<1>7. monitor.pc = "status" => state'[monitor.task] = EXECUTED
  BY <1>5, Known DEF MonitorOK
<1>8. monitor.pc = "result" => status'[monitor.task] \in Final
  BY <1>5, Known DEF MonitorOK
<1> HIDE DEF t
<1>9. CASE s = "PENDING" /\ tasks' = Enqueue(tasks, t) /\ Loop
  <2>1. /\ main' \in [pc : MainPcs, task : Tasks \cup {NoTask}]
        /\ main'.task = NoTask /\ main'.pc \in {"get", "join"} /\ (main'.pc = "join" => stopped)
        /\ monitor' \in [pc : MonitorPcs, task : Tasks \cup {NoTask}, todo : SUBSET Resources]
        /\ monitor'.task = monitor.task /\ monitor'.todo = monitor.todo
        /\ \/ monitor'.pc = monitor.pc
           \/ monitor.pc = "idle" /\ monitor'.pc = "off" /\ main'.pc = "join"
    BY <1>2, <1>9, LoopFacts
  <2>2. \A u : ~(In(tasks, u) /\ Resource[u] = Resource[t])
    BY <1>2, Known
  <2>3. /\ DequesOK(tasks') /\ DOMAIN tasks' = DOMAIN tasks \cup {Resource[t]}
        /\ \A u : In(tasks', u) <=> In(tasks, u) \/ u = t
        /\ \A r \in DOMAIN tasks : Head(tasks'[r]) = Head(tasks[r])
        /\ Head(tasks'[Resource[t]]) = t
    BY <1>2, <1>9, <2>2, EnqueueFacts
  <2>4. \A u : In(tasks, u)' <=> In(tasks, u) \/ u = t
    BY <2>3, InPrime
  <2>5. Typed' /\ DequesOK(tasks)'
    BY <1>1, <1>3, <1>4, <2>1, <2>3 DEF Typed
  <2>6. StartedOK'
    <3>1. \A u : Resource[u] \in DOMAIN tasks => First(tasks, u)' = First(tasks, u)
      BY <2>3, InPrime DEF First
    <3>2. First(tasks', t) = t
      BY <2>3 DEF First
    <3>3. \A u \in Tasks : In(tasks, u)' => /\ ~InQueue(u)' /\ state'[u] # RESULT
                                            /\ u # First(tasks, u)' => state'[u] = NONE
      <4> SUFFICES ASSUME NEW u \in Tasks, In(tasks, u)'
                   PROVE  /\ ~InQueue(u)' /\ state'[u] # RESULT
                          /\ u # First(tasks, u)' => state'[u] = NONE
        OBVIOUS
      <4>1. CASE u = t
        BY <1>2, <1>3, <1>4, <3>2, <4>1, InPrime DEF EXECUTED, RESULT
      <4>2. CASE In(tasks, u)
        BY <1>4, <1>5, <3>1, <4>2, Known
      <4>3. QED BY <2>4, <4>1, <4>2
    <3>4. \A r \in DOMAIN tasks' :
            LET u == Head(tasks'[r])
            IN  ~stopped' => u = monitor'.task \/ (status'[u] = "PENDING" /\ state'[u] = EXECUTED)
      BY <1>1, <1>3, <1>6, <1>9, <2>1, <2>3 DEF StartedOK
    <3>5. QED BY <3>3, <3>4 DEF StartedOK
  <2>7. MainOK'
    BY <1>1, <2>1 DEF MainOK
  <2>8. MonitorOK'
    <3>1. DOMAIN tasks \subseteq DOMAIN tasks'
      BY <2>3
    <3>2. monitor'.task \in Tasks /\ Resource[monitor'.task] \in DOMAIN tasks
            => First(tasks, monitor.task)' = First(tasks, monitor.task)
      BY <2>1, <2>3 DEF First
    <3>3. monitor.pc # "off"
      BY <1>2
    <3>4. QED BY <1>7, <1>8, <2>1, <3>1, <3>2, <3>3 DEF MonitorOK
  <2>9. Placed'
    BY <1>1, <1>3, <1>4, <2>4 DEF Placed, t
  <2>10. QED BY <1>3, <1>4, <2>5, <2>6, <2>7, <2>8, <2>9
<1>10. CASE s # "PENDING" /\ main' = At("result", t) /\ UNCHANGED <<tasks, monitor>>
  <2>1. /\ main'.pc = "result" /\ main'.task = t
        /\ main' \in [pc : MainPcs, task : Tasks \cup {NoTask}]
    BY <1>2, <1>10 DEF At, MainPcs
  <2>2. Typed' /\ DequesOK(tasks)' /\ \A u : In(tasks, u)' <=> In(tasks, u)
    BY <1>1, <1>3, <1>4, <1>10, <2>1, InPrime DEF Typed
  <2>3. StartedOK'
    <3>1. \A u \in Tasks : In(tasks, u)' => /\ ~InQueue(u)' /\ state'[u] # RESULT
                                            /\ u # First(tasks, u)' => state'[u] = NONE
      BY <1>4, <1>5, <1>10, <2>2, Known DEF First
    <3>2. \A r \in DOMAIN tasks' :
            LET u == Head(tasks'[r])
            IN  ~stopped' => u = monitor'.task \/ (status'[u] = "PENDING" /\ state'[u] = EXECUTED)
      BY <1>1, <1>6, <1>10 DEF StartedOK
    <3>3. QED BY <3>1, <3>2 DEF StartedOK
  <2>4. MainOK'
    BY <1>2, <1>3, <1>4, <1>10, <2>1 DEF MainOK, EXECUTED, RESULT
  <2>5. MonitorOK'
    BY <1>2, <1>7, <1>8, <1>10 DEF MonitorOK, First
  <2>6. Placed'
    BY <1>1, <1>3, <1>4, <1>10, <2>2 DEF Placed, t
  <2>7. QED BY <1>3, <1>4, <2>2, <2>3, <2>4, <2>5, <2>6
<1>11. QED BY <1>9, <1>10 DEF MainExecuted, t

LEMMA MainResultStep ==
  ASSUME IInv, MainResult
  PROVE  IInv'
<1> USE Parts
<1> DEFINE t == main.task
<1>1. /\ main.pc = "result" /\ MoveState(t, RESULT) /\ Loop
      /\ UNCHANGED <<added, queue, tasks, status, stopped, stops>>
  BY DEF MainResult
<1>2. /\ t \in Tasks /\ Added(t) /\ ~InQueue(t) /\ Resource[t] \notin DOMAIN tasks
      /\ ~In(tasks, t) /\ monitor.pc # "off" /\ t # monitor.task
  BY <1>1, MainTask
<1>3. /\ state' \in [Tasks -> States] /\ events' \in [Tasks -> SUBSET {EXECUTED, RESULT}]
      /\ WaitersAhead' /\ \A u \in Tasks : u # t => state'[u] = state[u]
  <2>1. RESULT \in States
    BY DEF States
  <2>2. QED BY <1>1, <1>2, <2>1, MoveStateFacts
<1>4. /\ QueueOK' /\ FreshOK' /\ (\A u : InQueue(u)' <=> InQueue(u))
      /\ \A u : Added(u)' <=> Added(u)
      /\ DequesOK(tasks') => DequesOK(tasks)'
  BY <1>1, <1>2, <1>3, SameFresh
<1>5. \A u : In(tasks, u) => u # t /\ state'[u] = state[u]
  BY <1>2, <1>3, Known
<1>6. /\ main' \in [pc : MainPcs, task : Tasks \cup {NoTask}]
      /\ main'.task = NoTask /\ main'.pc \in {"get", "join"} /\ (main'.pc = "join" => stopped)
      /\ monitor' \in [pc : MonitorPcs, task : Tasks \cup {NoTask}, todo : SUBSET Resources]
      /\ monitor'.task = monitor.task /\ monitor'.todo = monitor.todo
      /\ \/ monitor'.pc = monitor.pc
         \/ monitor.pc = "idle" /\ monitor'.pc = "off" /\ main'.pc = "join"
  BY <1>1, <1>2, LoopFacts
<1>7. Typed' /\ DequesOK(tasks)' /\ \A u : In(tasks, u)' <=> In(tasks, u)
  BY <1>1, <1>3, <1>4, <1>6, InPrime DEF Typed
<1>8. StartedOK'
  <2>1. \A u \in Tasks : In(tasks, u)' => /\ ~InQueue(u)' /\ state'[u] # RESULT
                                          /\ u # First(tasks, u)' => state'[u] = NONE
    BY <1>1, <1>4, <1>5, <1>7, Known DEF First
  <2>2. \A r \in DOMAIN tasks' :
          LET u == Head(tasks'[r])
          IN  ~stopped' => u = monitor'.task \/ (status'[u] = "PENDING" /\ state'[u] = EXECUTED)
    BY <1>1, <1>5, <1>6, Known DEF StartedOK
  <2>3. QED BY <2>1, <2>2 DEF StartedOK
<1>9. MainOK'
  BY <1>1, <1>6 DEF MainOK
<1>10. MonitorOK'
  <2>1. monitor.pc = "status" => state'[monitor.task] = EXECUTED
    BY <1>5, Known DEF MonitorOK
  <2>2. QED BY <1>1, <1>6, <2>1 DEF MonitorOK, First
<1>11. Placed'
  <2>1. status[t] \in Final
    BY <1>1 DEF MainOK
  <2>2. QED BY <1>1, <1>4, <1>7, <2>1 DEF Placed
<1>12. QED BY <1>3, <1>4, <1>7, <1>8, <1>9, <1>10, <1>11

LEMMA AbortStep ==
  ASSUME IInv, Abort
  PROVE  IInv'
<1> USE Parts
<1>1. /\ main.pc = "join" /\ monitor.pc = "off" /\ queue' = <<>>
      /\ tasks' = EnqueueAll(tasks, queue) /\ AbortNext(tasks', DOMAIN tasks')
      /\ UNCHANGED <<added, state, events, monitor, stopped, stops>>
  BY DEF Abort
<1>2. /\ DequesOK(tasks')
      /\ \A u : In(tasks', u) <=> In(tasks, u) \/ InQueue(u)
      /\ \A r \in DOMAIN tasks : r \in DOMAIN tasks' /\ Head(tasks'[r]) = Head(tasks[r])
  BY <1>1, Known, EnqueueAllFacts
<1>3. /\ \A u : Added(u)' <=> Added(u)
      /\ DequesOK(tasks') => DequesOK(tasks)'
      /\ \A u : In(tasks, u)' <=> In(tasks, u) \/ InQueue(u)
  BY <1>1, <1>2, InPrime, SameAdded
<1>4. \A u : ~InQueue(u)'
  BY <1>1 DEF InQueue
<1>5. QueueOK'
  BY <1>1 DEF QueueOK
<1>6. /\ status' \in [Tasks -> Statuses]
      /\ \A u \in Tasks : status[u] \in Final => status'[u] \in Final
      /\ main' \in [pc : MainPcs, task : Tasks \cup {NoTask}]
      /\ \/ /\ main'.pc = "abort" /\ main'.task \in Tasks /\ Resource[main'.task] \in DOMAIN tasks'
            /\ main'.task = First(tasks', main'.task) /\ status'[main'.task] \in Final
         \/ main'.pc = "off" /\ main'.task = NoTask /\ DOMAIN tasks' = {}
  BY <1>1, <1>2, AbortNextFacts
<1>7. stopped
  BY <1>1 DEF MainOK
<1>8. Typed' /\ WaitersAhead' /\ FreshOK' /\ DequesOK(tasks)'
  BY <1>1, <1>2, <1>3, <1>4, <1>6 DEF Typed, WaitersAhead, FreshOK
<1>9. StartedOK'
  <2>1. \A u : Resource[u] \in DOMAIN tasks => First(tasks, u)' = First(tasks, u)
    BY <1>2, InPrime DEF First
  <2>2. \A u \in Tasks : In(tasks, u)' => /\ ~InQueue(u)' /\ state'[u] # RESULT
                                          /\ u # First(tasks, u)' => state'[u] = NONE
    BY <1>1, <1>3, <1>4, <2>1, Known DEF NONE, RESULT
  <2>3. QED BY <1>1, <1>7, <2>2 DEF StartedOK
<1>10. MainOK'
  BY <1>1, <1>6, <1>7 DEF MainOK, First
<1>11. MonitorOK'
  BY <1>1, <1>6 DEF MonitorOK
<1>12. Placed'
  <2>1. \A u : Added(u) => u \in Tasks
    BY Known
  <2>2. QED BY <1>1, <1>3, <1>6, <2>1 DEF Placed
<1>13. QED BY <1>5, <1>8, <1>9, <1>10, <1>11, <1>12

LEMMA AbortResultStep ==
  ASSUME IInv, AbortResult
  PROVE  IInv'
<1> USE Parts
<1> DEFINE t == main.task
           R == IF Remaining(t) # <<>> THEN {Resource[t]} ELSE DOMAIN tasks'
<1>1. /\ main.pc = "abort" /\ MoveState(t, RESULT) /\ tasks' = Dequeue(t) /\ AbortNext(tasks', R)
      /\ UNCHANGED <<added, queue, monitor, stopped, stops>>
  BY DEF AbortResult
<1>2. /\ t \in Tasks /\ Resource[t] \in DOMAIN tasks /\ t = First(tasks, t) /\ In(tasks, t)
      /\ status[t] \in Final /\ stopped /\ monitor.pc = "off" /\ Added(t) /\ ~InQueue(t)
  BY <1>1, Known DEF MainOK
<1>3. /\ state' \in [Tasks -> States] /\ events' \in [Tasks -> SUBSET {EXECUTED, RESULT}]
      /\ WaitersAhead' /\ \A u \in Tasks : u # t => state'[u] = state[u]
  <2>1. RESULT \in States
    BY DEF States
  <2>2. QED BY <1>1, <1>2, <2>1, MoveStateFacts
<1>4. /\ DequesOK(tasks')
      /\ DOMAIN tasks' = IF Remaining(t) = <<>> THEN DOMAIN tasks \ {Resource[t]} ELSE DOMAIN tasks
      /\ \A u : In(tasks', u) <=> In(tasks, u) /\ u # t
      /\ \A r \in DOMAIN tasks : r # Resource[t] => tasks'[r] = tasks[r]
  BY <1>1, <1>2, DequeueFacts
<1>5. R \subseteq DOMAIN tasks' /\ (R = {} => DOMAIN tasks' = {})
  BY <1>2, <1>4
<1> HIDE DEF R
<1>6. /\ status' \in [Tasks -> Statuses]
      /\ \A u \in Tasks : status[u] \in Final => status'[u] \in Final
      /\ main' \in [pc : MainPcs, task : Tasks \cup {NoTask}]
      /\ \/ /\ main'.pc = "abort" /\ main'.task \in Tasks /\ Resource[main'.task] \in R
            /\ main'.task = First(tasks', main'.task) /\ status'[main'.task] \in Final
         \/ main'.pc = "off" /\ main'.task = NoTask /\ R = {}
  BY <1>1, <1>4, <1>5, AbortNextFacts
<1>7. /\ QueueOK' /\ FreshOK' /\ (\A u : InQueue(u)' <=> InQueue(u))
      /\ \A u : Added(u)' <=> Added(u)
      /\ DequesOK(tasks') => DequesOK(tasks)'
  BY <1>1, <1>2, <1>3, SameFresh
<1> HIDE DEF t
<1>8. \A u : In(tasks, u)' <=> In(tasks, u) /\ u # t
  BY <1>4, InPrime
<1>9. Typed' /\ DequesOK(tasks)'
  BY <1>1, <1>3, <1>4, <1>6, <1>7 DEF Typed
<1>10. StartedOK'
  <2> SUFFICES ASSUME NEW u \in Tasks, In(tasks, u)'
               PROVE  /\ ~InQueue(u)' /\ state'[u] # RESULT
                      /\ u # First(tasks, u)' => state'[u] = NONE
    BY <1>1, <1>2 DEF StartedOK
  <2>1. In(tasks, u) /\ u # t /\ state'[u] = state[u] /\ ~InQueue(u)'
    BY <1>3, <1>7, <1>8, Known
  <2>2. CASE Resource[u] = Resource[t]
    <3>1. First(tasks, u) = t
      BY <1>2, <2>2 DEF First
    <3>2. QED BY <2>1, <3>1, Known
  <2>3. CASE Resource[u] # Resource[t]
    <3>1. Resource[u] \in DOMAIN tasks
      BY <2>1, Known
    <3>2. First(tasks, u)' = First(tasks, u)
      BY <1>4, <2>3, <3>1, InPrime DEF First
    <3>3. QED BY <2>1, <3>2, Known
  <2>4. QED BY <2>2, <2>3
<1>11. MainOK'
  BY <1>1, <1>2, <1>5, <1>6 DEF MainOK, First
<1>12. MonitorOK'
  BY <1>1, <1>2, <1>6 DEF MonitorOK
<1>13. Placed'
  <2>1. \A u : Added(u) => u \in Tasks
    BY Known
  <2>2. status'[t] \in Final
    BY <1>2, <1>6
  <2>3. QED BY <1>1, <1>6, <1>7, <1>8, <2>1, <2>2 DEF Placed
<1>14. QED BY <1>3, <1>7, <1>9, <1>10, <1>11, <1>12, <1>13

----------------------------------------------------------------------------
(* stop() and start(). *)

LEMMA StopStep ==
  ASSUME IInv, Stop
  PROVE  IInv'
<1> USE Parts
<1> DEFINE t == main.task
<1>1. /\ main.pc \in {"get", "execute", "result"} /\ stops < MaxStops /\ stops' = stops + 1 /\ stopped'
      /\ UNCHANGED <<added, queue, state, status, events>>
  BY DEF Stop
<1>2. /\ QueueOK' /\ FreshOK' /\ (\A u : InQueue(u)' <=> InQueue(u))
      /\ \A u : Added(u)' <=> Added(u)
      /\ DequesOK(tasks') => DequesOK(tasks)'
  BY <1>1, SameFresh
<1>3. stops' \in 0 .. MaxStops /\ stopped' \in BOOLEAN
  BY <1>1, MaxStopsAssumption DEF Typed
<1>4. monitor.pc # "off"
  BY <1>1 DEF MonitorOK
<1>5. CASE Killed
  <2>1. /\ main' \in [pc : MainPcs, task : Tasks \cup {NoTask}]
        /\ main'.task = NoTask /\ main'.pc = "join"
        /\ monitor' \in [pc : MonitorPcs, task : Tasks \cup {NoTask}, todo : SUBSET Resources]
        /\ monitor'.task = monitor.task /\ monitor'.todo = monitor.todo
        /\ \/ monitor'.pc = monitor.pc
           \/ monitor.pc = "idle" /\ monitor'.pc = "off"
    BY <1>4, <1>5, LoopFacts DEF Killed, Leave, At
  <2>2. /\ DequesOK(tasks') /\ DOMAIN tasks \subseteq DOMAIN tasks'
        /\ \A u : In(tasks', u) <=> In(tasks, u) \/ (main.pc = "execute" /\ u = t)
        /\ \A r \in DOMAIN tasks : Head(tasks'[r]) = Head(tasks[r])
        /\ main.pc = "execute" => First(tasks', t) = t /\ ~InQueue(t) /\ state[t] # RESULT
    <3>1. CASE main.pc = "execute"
      <4>1. /\ t \in Tasks /\ Added(t) /\ ~InQueue(t) /\ Resource[t] \notin DOMAIN tasks
            /\ state[t] # RESULT
        BY <3>1 DEF MainOK
      <4>2. \A u : ~(In(tasks, u) /\ Resource[u] = Resource[t])
        BY <4>1, Known
      <4>3. tasks' = Enqueue(tasks, t)
        BY <1>5, <3>1 DEF Killed
      <4>4. /\ DequesOK(tasks') /\ DOMAIN tasks' = DOMAIN tasks \cup {Resource[t]}
            /\ \A u : In(tasks', u) <=> In(tasks, u) \/ u = t
            /\ \A r \in DOMAIN tasks : Head(tasks'[r]) = Head(tasks[r])
            /\ Head(tasks'[Resource[t]]) = t
        BY <4>1, <4>2, <4>3, EnqueueFacts
      <4>5. First(tasks', t) = t
        BY <4>4 DEF First
      <4>6. QED BY <3>1, <4>1, <4>4, <4>5
    <3>2. CASE main.pc # "execute"
      BY <1>5, <3>2 DEF Killed
    <3>3. QED BY <3>1, <3>2
  <2> HIDE DEF t
  <2>3. \A u : In(tasks, u)' <=> In(tasks, u) \/ (main.pc = "execute" /\ u = t)
    BY <2>2, InPrime
  <2>4. Typed' /\ WaitersAhead' /\ DequesOK(tasks)'
    BY <1>1, <1>2, <1>3, <2>1, <2>2 DEF Typed, WaitersAhead
  <2>5. StartedOK'
    <3> SUFFICES ASSUME NEW u \in Tasks, In(tasks, u)'
                 PROVE  /\ ~InQueue(u)' /\ state'[u] # RESULT
                        /\ u # First(tasks, u)' => state'[u] = NONE
      BY <1>1 DEF StartedOK
    <3>1. CASE main.pc = "execute" /\ u = t
      BY <1>1, <1>2, <2>2, <3>1, InPrime
    <3>2. CASE In(tasks, u)
      <4>1. First(tasks, u)' = First(tasks, u)
        BY <2>2, <3>2, Known, InPrime DEF First
      <4>2. QED BY <1>1, <1>2, <3>2, <4>1, Known
    <3>3. QED BY <2>3, <3>1, <3>2
  <2>6. MainOK'
    BY <1>1, <2>1 DEF MainOK
  <2>7. MonitorOK'
    <3>1. monitor'.task \in Tasks /\ Resource[monitor'.task] \in DOMAIN tasks
            => First(tasks, monitor.task)' = First(tasks, monitor.task)
      BY <2>1, <2>2 DEF First
    <3>2. QED BY <1>1, <1>4, <2>1, <2>2, <3>1 DEF MonitorOK
  <2>8. Placed'
    BY <1>1, <1>2, <2>3 DEF Placed, t
  <2>9. QED BY <1>2, <2>4, <2>5, <2>6, <2>7, <2>8
<1>6. CASE UNCHANGED <<tasks, main, monitor>>
  <2>1. DequesOK(tasks)' /\ \A u : In(tasks, u)' <=> In(tasks, u)
    BY <1>2, <1>6, InPrime
  <2>2. Typed' /\ WaitersAhead'
    BY <1>1, <1>3, <1>6 DEF Typed, WaitersAhead
  <2>3. StartedOK'
    BY <1>1, <1>2, <1>6, <2>1 DEF StartedOK, First
  <2>4. MainOK' /\ MonitorOK' /\ Placed'
    BY <1>1, <1>2, <1>6, <2>1 DEF MainOK, MonitorOK, Placed, First
  <2>5. QED BY <1>2, <2>1, <2>2, <2>3, <2>4
<1>7. QED BY <1>5, <1>6 DEF Stop

LEMMA StartStep ==
  ASSUME IInv, Start
  PROVE  IInv'
<1> USE Parts
<1>1. /\ main.pc = "off" /\ stopped' = FALSE
      /\ main'.pc = "get" /\ main'.task = NoTask /\ main' \in [pc : MainPcs, task : Tasks \cup {NoTask}]
      /\ monitor'.pc = "idle" /\ monitor'.task = NoTask /\ monitor'.todo = {}
      /\ monitor' \in [pc : MonitorPcs, task : Tasks \cup {NoTask}, todo : SUBSET Resources]
      /\ UNCHANGED <<added, queue, tasks, state, status, events, stops>>
  BY DEF Start, At, Idle, MonitorAt, MainPcs, MonitorPcs
<1>2. DOMAIN tasks = {}
  BY <1>1 DEF MainOK
<1>3. /\ QueueOK' /\ FreshOK' /\ (\A u : InQueue(u)' <=> InQueue(u))
      /\ \A u : Added(u)' <=> Added(u)
      /\ DequesOK(tasks') => DequesOK(tasks)'
  BY <1>1, SameFresh
<1>4. DequesOK(tasks)' /\ \A u : In(tasks, u)' <=> In(tasks, u)
  BY <1>1, <1>3, InPrime
<1>5. Typed' /\ WaitersAhead'
  BY <1>1 DEF Typed, WaitersAhead
<1>6. StartedOK'
  BY <1>1, <1>2, <1>4, Known DEF StartedOK
<1>7. MainOK' /\ MonitorOK'
  BY <1>1 DEF MainOK, MonitorOK
<1>8. Placed'
  BY <1>1, <1>3, <1>4 DEF Placed
<1>9. QED BY <1>3, <1>4, <1>5, <1>6, <1>7, <1>8

----------------------------------------------------------------------------
(* The looping call. *)

(* The monitor has the first task of a deque, and runs for it alone.       *)
LEMMA MonitorTask ==
  ASSUME IInv, monitor.pc \in {"status", "result", "execute"}
  PROVE  LET t == monitor.task
         IN  /\ t \in Tasks /\ Added(t) /\ ~InQueue(t) /\ In(tasks, t)
             /\ Resource[t] \in DOMAIN tasks /\ t = First(tasks, t)
             /\ Resource[t] \notin monitor.todo /\ t # main.task
             /\ main.pc # "abort" /\ main.pc # "off"
             /\ main.pc \in {"execute", "result"} => Resource[main.task] # Resource[t]
<1> USE Parts
<1>1. /\ monitor.task \in Tasks /\ Resource[monitor.task] \in DOMAIN tasks
      /\ monitor.task = First(tasks, monitor.task) /\ Resource[monitor.task] \notin monitor.todo
  BY DEF MonitorOK
<1>2. main.pc # "abort" /\ main.pc # "off"
  BY DEF MainOK
<1>3. main.pc \in {"execute", "result"} => Resource[main.task] # Resource[monitor.task]
  BY <1>1 DEF MainOK
<1>4. main.pc \in {"get", "join"} => main.task = NoTask
  BY DEF MainOK
<1>5. monitor.task # main.task
  BY <1>1, <1>2, <1>3, <1>4, NoTaskAssumption DEF Typed, MainPcs
<1>6. In(tasks, monitor.task) /\ Added(monitor.task) /\ ~InQueue(monitor.task)
  BY Known
<1>7. QED BY <1>1, <1>2, <1>3, <1>5, <1>6

LEMMA CheckStep ==
  ASSUME IInv, Check
  PROVE  IInv'
<1> USE Parts
<1>1. /\ monitor.pc = "idle" /\ ~stopped /\ CheckNext(tasks', DOMAIN tasks')
      /\ UNCHANGED <<added, queue, tasks, state, status, events, main, stopped, stops>>
  BY DEF Check
<1>2. /\ QueueOK' /\ FreshOK' /\ (\A u : InQueue(u)' <=> InQueue(u))
      /\ \A u : Added(u)' <=> Added(u)
      /\ DequesOK(tasks') => DequesOK(tasks)'
  BY <1>1, SameFresh
<1>3. \A r \in DOMAIN tasks' : status'[Head(tasks'[r])] = "PENDING" /\ state'[Head(tasks'[r])] = EXECUTED
  BY <1>1, Known, NoTaskAssumption DEF StartedOK, MonitorOK
<1>4. DequesOK(tasks') /\ DequesOK(tasks)' /\ DOMAIN tasks' \in SUBSET Resources
  BY <1>1, <1>2, Known
<1>5. /\ monitor' \in [pc : MonitorPcs, task : Tasks \cup {NoTask}, todo : SUBSET Resources]
      /\ MonitorOK'
  BY <1>1, <1>3, <1>4, CheckNextFacts
<1>6. Typed' /\ WaitersAhead'
  BY <1>1, <1>5 DEF Typed, WaitersAhead
<1>7. \A u : In(tasks, u)' <=> In(tasks, u)
  BY <1>1, InPrime
<1>8. StartedOK'
  BY <1>1, <1>2, <1>3, <1>7 DEF StartedOK, First
<1>9. MainOK' /\ Placed'
  BY <1>1, <1>2, <1>7 DEF MainOK, Placed, First
<1>10. QED BY <1>2, <1>4, <1>5, <1>6, <1>8, <1>9

LEMMA CheckedStep ==
  ASSUME IInv, NEW s \in Returned, Checked(s)
  PROVE  IInv'
<1> USE Parts
<1> DEFINE t == monitor.task
<1>1. /\ monitor.pc = "status" /\ status' = [status EXCEPT ![t] = s]
      /\ UNCHANGED <<added, queue, tasks, state, events, main, stopped, stops>>
  BY DEF Checked
<1>2. /\ t \in Tasks /\ In(tasks, t) /\ Resource[t] \in DOMAIN tasks /\ t = First(tasks, t)
      /\ Resource[t] \notin monitor.todo /\ t # main.task /\ main.pc # "abort" /\ state[t] = EXECUTED
  BY <1>1, MonitorTask DEF MonitorOK
<1>3. /\ status' \in [Tasks -> Statuses] /\ status'[t] = s
      /\ \A u \in Tasks : u # t => status'[u] = status[u]
      /\ s # "PENDING" => s \in Final
  BY <1>1, <1>2 DEF Typed, Statuses, Final, Returned
<1>4. /\ QueueOK' /\ FreshOK' /\ (\A u : InQueue(u)' <=> InQueue(u))
      /\ \A u : Added(u)' <=> Added(u)
      /\ DequesOK(tasks') => DequesOK(tasks)'
  BY <1>1, SameFresh
<1>5. DequesOK(tasks') /\ DequesOK(tasks)' /\ \A u : In(tasks, u)' <=> In(tasks, u)
  BY <1>1, <1>4, InPrime
<1>6. /\ monitor' \in [pc : MonitorPcs, task : Tasks \cup {NoTask}, todo : SUBSET Resources]
      /\ MonitorOK'
      /\ \A r \in DOMAIN tasks :
           LET u == Head(tasks[r])
           IN  ~stopped => u = monitor'.task \/ (status'[u] = "PENDING" /\ state'[u] = EXECUTED)
  <2>1. CASE s = "PENDING" /\ CheckNext(tasks', monitor.todo)
    <3>1. ~stopped => \A r \in DOMAIN tasks : /\ status'[Head(tasks[r])] = "PENDING"
                                               /\ state'[Head(tasks[r])] = EXECUTED
      BY <1>1, <1>2, <1>3, <2>1, Known DEF StartedOK
    <3>2. monitor.todo \in SUBSET Resources /\ monitor.todo \subseteq DOMAIN tasks'
      BY <1>1 DEF MonitorOK, Typed
    <3>3. QED BY <1>1, <1>5, <2>1, <3>1, <3>2, CheckNextFacts
  <2>2. CASE s # "PENDING" /\ monitor' = [monitor EXCEPT !.pc = "result"]
    <3>1. /\ monitor' \in [pc : MonitorPcs, task : Tasks \cup {NoTask}, todo : SUBSET Resources]
          /\ monitor'.pc = "result" /\ monitor'.task = t /\ monitor'.todo = monitor.todo
      BY <2>2 DEF Typed, MonitorPcs
    <3>2. MonitorOK'
      BY <1>1, <1>2, <1>3, <2>2, <3>1 DEF MonitorOK, First
    <3>3. \A r \in DOMAIN tasks :
            LET u == Head(tasks[r])
            IN  ~stopped => u = monitor'.task \/ (status'[u] = "PENDING" /\ state'[u] = EXECUTED)
      BY <1>1, <1>3, <3>1, Known DEF StartedOK
    <3>4. QED BY <3>1, <3>2, <3>3
  <2>3. QED BY <1>1, <2>1, <2>2 DEF Checked
<1>7. Typed' /\ WaitersAhead'
  BY <1>1, <1>3, <1>6 DEF Typed, WaitersAhead
<1>8. StartedOK'
  <2>1. \A u \in Tasks : In(tasks, u)' => /\ ~InQueue(u)' /\ state'[u] # RESULT
                                          /\ u # First(tasks, u)' => state'[u] = NONE
    BY <1>1, <1>4, <1>5, Known DEF First
  <2>2. QED BY <1>1, <1>6, <2>1 DEF StartedOK
<1>9. MainOK'
  BY <1>1, <1>2, <1>3, <1>4 DEF MainOK
<1>10. Placed'
  BY <1>1, <1>2, <1>3, <1>4, <1>5 DEF Placed
<1>11. QED BY <1>4, <1>5, <1>6, <1>7, <1>8, <1>9, <1>10

LEMMA MonitorExecutedStep ==
  ASSUME IInv, NEW s \in Returned, MonitorExecuted(s)
  PROVE  IInv'
<1> USE Parts
<1> DEFINE t == monitor.task
<1>1. /\ monitor.pc = "execute" /\ Executed(t, s)
      /\ UNCHANGED <<added, queue, tasks, main, stopped, stops>>
  BY DEF MonitorExecuted
<1>2. /\ t \in Tasks /\ In(tasks, t) /\ Resource[t] \in DOMAIN tasks /\ t = First(tasks, t)
      /\ Resource[t] \notin monitor.todo /\ t # main.task /\ main.pc # "abort"
      /\ Added(t) /\ ~InQueue(t)
  BY <1>1, MonitorTask
<1>3. /\ state' \in [Tasks -> States] /\ events' \in [Tasks -> SUBSET {EXECUTED, RESULT}]
      /\ status' \in [Tasks -> Statuses] /\ WaitersAhead'
      /\ state'[t] = EXECUTED /\ status'[t] = s
      /\ \A u \in Tasks : u # t => state'[u] = state[u] /\ status'[u] = status[u]
      /\ s # "PENDING" => s \in Final
  BY <1>1, <1>2, ExecutedFacts
<1>4. /\ QueueOK' /\ FreshOK' /\ (\A u : InQueue(u)' <=> InQueue(u))
      /\ \A u : Added(u)' <=> Added(u)
      /\ DequesOK(tasks') => DequesOK(tasks)'
  BY <1>1, <1>2, <1>3, SameFresh
<1>5. DequesOK(tasks') /\ DequesOK(tasks)' /\ \A u : In(tasks, u)' <=> In(tasks, u)
  BY <1>1, <1>4, InPrime
<1>6. /\ monitor' \in [pc : MonitorPcs, task : Tasks \cup {NoTask}, todo : SUBSET Resources]
      /\ MonitorOK'
      /\ \A r \in DOMAIN tasks :
           LET u == Head(tasks[r])
           IN  ~stopped => u = monitor'.task \/ (status'[u] = "PENDING" /\ state'[u] = EXECUTED)
  <2>1. CASE s = "PENDING" /\ CheckNext(tasks', monitor.todo)
    <3>1. ~stopped => \A r \in DOMAIN tasks : /\ status'[Head(tasks[r])] = "PENDING"
                                               /\ state'[Head(tasks[r])] = EXECUTED
      BY <1>1, <1>2, <1>3, <2>1, Known DEF StartedOK
    <3>2. monitor.todo \in SUBSET Resources /\ monitor.todo \subseteq DOMAIN tasks'
      BY <1>1 DEF MonitorOK, Typed
    <3>3. QED BY <1>1, <1>5, <2>1, <3>1, <3>2, CheckNextFacts
  <2>2. CASE s # "PENDING" /\ monitor' = [monitor EXCEPT !.pc = "result"]
    <3>1. /\ monitor' \in [pc : MonitorPcs, task : Tasks \cup {NoTask}, todo : SUBSET Resources]
          /\ monitor'.pc = "result" /\ monitor'.task = t /\ monitor'.todo = monitor.todo
      BY <2>2 DEF Typed, MonitorPcs
    <3>2. MonitorOK'
      BY <1>1, <1>2, <1>3, <2>2, <3>1 DEF MonitorOK, First
    <3>3. \A r \in DOMAIN tasks :
            LET u == Head(tasks[r])
            IN  ~stopped => u = monitor'.task \/ (status'[u] = "PENDING" /\ state'[u] = EXECUTED)
      BY <1>1, <1>3, <3>1, Known DEF StartedOK
    <3>4. QED BY <3>1, <3>2, <3>3
  <2>3. QED BY <1>1, <2>1, <2>2 DEF MonitorExecuted
<1>7. Typed'
  BY <1>1, <1>3, <1>6 DEF Typed
<1>8. StartedOK'
  <2> SUFFICES ASSUME NEW u \in Tasks, In(tasks, u)'
               PROVE  /\ ~InQueue(u)' /\ state'[u] # RESULT
                      /\ u # First(tasks, u)' => state'[u] = NONE
    BY <1>1, <1>6 DEF StartedOK
  <2>1. In(tasks, u) /\ ~InQueue(u)' /\ First(tasks, u)' = First(tasks, u)
    BY <1>1, <1>4, <1>5, Known DEF First
  <2>2. CASE u = t
    BY <1>2, <1>3, <2>1, <2>2 DEF EXECUTED, RESULT
  <2>3. CASE u # t
    BY <1>3, <2>1, <2>3, Known
  <2>4. QED BY <2>2, <2>3
<1>9. MainOK'
  BY <1>1, <1>2, <1>3, <1>4 DEF MainOK
<1>10. Placed'
  BY <1>1, <1>2, <1>3, <1>4, <1>5 DEF Placed
<1>11. QED BY <1>3, <1>4, <1>5, <1>6, <1>7, <1>8, <1>9, <1>10

(* What the end of a task does to the table and to the state of each task. *)
LEMMA MonitorResultFacts ==
  ASSUME IInv, MonitorResult
  PROVE  LET t == monitor.task
             rest == Remaining(t)
         IN  /\ DequesOK(tasks')
             /\ DOMAIN tasks' = IF rest = <<>> THEN DOMAIN tasks \ {Resource[t]} ELSE DOMAIN tasks
             /\ \A u : In(tasks', u) <=> In(tasks, u) /\ u # t
             /\ \A r \in DOMAIN tasks : r # Resource[t] => tasks'[r] = tasks[r]
             /\ state' \in [Tasks -> States] /\ state'[t] = RESULT
             /\ \/ /\ rest = <<>> /\ CheckNext(tasks', monitor.todo)
                   /\ \A u \in Tasks : u # t => state'[u] = state[u]
                \/ /\ rest # <<>> /\ Head(rest) = First(tasks', t) /\ Head(rest) \in Tasks /\ Head(rest) # t
                   /\ Resource[Head(rest)] = Resource[t] /\ In(tasks', Head(rest))
                   /\ state'[Head(rest)] = START
                   /\ monitor' = [monitor EXCEPT !.pc = "execute", !.task = Head(rest)]
                   /\ \A u \in Tasks : u # t /\ u # Head(rest) => state'[u] = state[u]
<1> USE Parts
<1> DEFINE t == monitor.task
           rest == Remaining(t)
<1>1. monitor.pc = "result" /\ tasks' = Dequeue(t) /\ UNCHANGED added
  BY DEF MonitorResult
<1>2. t \in Tasks /\ Resource[t] \in DOMAIN tasks /\ t = First(tasks, t)
  BY <1>1, MonitorTask
<1>3. /\ DequesOK(tasks')
      /\ DOMAIN tasks' = IF rest = <<>> THEN DOMAIN tasks \ {Resource[t]} ELSE DOMAIN tasks
      /\ \A u : In(tasks', u) <=> In(tasks, u) /\ u # t
      /\ \A r \in DOMAIN tasks : r # Resource[t] => tasks'[r] = tasks[r]
      /\ rest # <<>> => tasks'[Resource[t]] = rest
  BY <1>1, <1>2, DequeueFacts
<1>4. state \in [Tasks -> States] /\ START \in States /\ RESULT \in States
  BY DEF Typed, States
<1>5. CASE rest = <<>> /\ state' = [state EXCEPT ![t] = RESULT] /\ CheckNext(tasks', monitor.todo)
  BY <1>2, <1>3, <1>4, <1>5
<1>6. CASE /\ rest # <<>> /\ state' = [state EXCEPT ![t] = RESULT, ![Head(rest)] = START]
           /\ monitor' = [monitor EXCEPT !.pc = "execute", !.task = Head(rest)]
  <2>1. Resource[t] \in DOMAIN tasks' /\ Head(rest) = Head(tasks'[Resource[t]])
    BY <1>2, <1>3, <1>6
  <2>2. /\ Head(rest) \in Tasks /\ Resource[Head(rest)] = Resource[t] /\ In(tasks', Head(rest))
        /\ Head(rest) = First(tasks', t)
    BY <1>3, <2>1, TableFacts DEF First
  <2>3. Head(rest) # t
    BY <1>3, <2>2
  <2>4. /\ state' \in [Tasks -> States] /\ state'[t] = RESULT /\ state'[Head(rest)] = START
        /\ \A u \in Tasks : u # t /\ u # Head(rest) => state'[u] = state[u]
    BY <1>2, <1>4, <1>6, <2>2, <2>3
  <2>5. QED BY <1>3, <1>6, <2>2, <2>3, <2>4
<1>7. QED BY <1>5, <1>6 DEF MonitorResult

LEMMA MonitorResultStep ==
  ASSUME IInv, MonitorResult
  PROVE  IInv'
<1> USE Parts
<1> DEFINE t == monitor.task
           rest == Remaining(t)
           h == Head(rest)
<1>1. /\ monitor.pc = "result" /\ events' = [events EXCEPT ![t] = @ \ Woken(t, RESULT)]
      /\ UNCHANGED <<added, queue, status, main, stopped, stops>>
  BY DEF MonitorResult
<1>2. /\ t \in Tasks /\ In(tasks, t) /\ Resource[t] \in DOMAIN tasks /\ t = First(tasks, t)
      /\ Resource[t] \notin monitor.todo /\ t # main.task /\ main.pc # "abort" /\ main.pc # "off"
      /\ Added(t) /\ ~InQueue(t) /\ (main.pc \in {"execute", "result"} => Resource[main.task] # Resource[t])
  BY <1>1, MonitorTask
<1>3. /\ DequesOK(tasks')
      /\ DOMAIN tasks' = IF rest = <<>> THEN DOMAIN tasks \ {Resource[t]} ELSE DOMAIN tasks
      /\ \A u : In(tasks', u) <=> In(tasks, u) /\ u # t
      /\ \A r \in DOMAIN tasks : r # Resource[t] => tasks'[r] = tasks[r]
      /\ state' \in [Tasks -> States] /\ state'[t] = RESULT
  BY MonitorResultFacts
<1>4. \/ /\ rest = <<>> /\ CheckNext(tasks', monitor.todo)
         /\ \A u \in Tasks : u # t => state'[u] = state[u]
      \/ /\ rest # <<>> /\ h = First(tasks', t) /\ h \in Tasks /\ h # t
         /\ Resource[h] = Resource[t] /\ In(tasks', h)
         /\ state'[h] = START
         /\ monitor' = [monitor EXCEPT !.pc = "execute", !.task = h]
         /\ \A u \in Tasks : u # t /\ u # h => state'[u] = state[u]
  BY MonitorResultFacts
<1> HIDE DEF t, rest, h
<1>5. rest # <<>> => /\ In(tasks, h) /\ Added(h) /\ ~InQueue(h)
                     /\ (main.pc \in {"execute", "result"} => h # main.task)
  BY <1>2, <1>3, <1>4, Known
<1>6. /\ QueueOK' /\ FreshOK' /\ (\A u : InQueue(u)' <=> InQueue(u))
      /\ \A u : Added(u)' <=> Added(u)
      /\ DequesOK(tasks') => DequesOK(tasks)'
  <2>1. \A u \in Tasks : state'[u] # state[u] => Added(u) /\ ~InQueue(u)
    BY <1>2, <1>4, <1>5
  <2>2. UNCHANGED <<added, queue>>
    BY <1>1
  <2>3. QED BY <2>1, <2>2, SameFresh
<1>7. DequesOK(tasks)' /\ \A u : In(tasks, u)' <=> In(tasks, u) /\ u # t
  BY <1>3, <1>6, InPrime
<1>8. events' \in [Tasks -> SUBSET {EXECUTED, RESULT}] /\ WaitersAhead'
  <2>1. /\ events' \in [Tasks -> SUBSET {EXECUTED, RESULT}]
        /\ events'[t] = events[t] \ Woken(t, RESULT)
        /\ \A u \in Tasks : u # t => events'[u] = events[u]
    BY <1>1, <1>2 DEF Typed
  <2>2. events'[t] = {}
    BY <1>2, <2>1 DEF Typed, Woken, EXECUTED, RESULT
  <2>3. \A u \in Tasks : u # t => state'[u] = state[u] \/ state'[u] = START
    BY <1>4
  <2>4. ASSUME NEW u \in Tasks, NEW w \in events'[u] PROVE w > state'[u]
    <3>1. u # t /\ w \in events[u]
      BY <2>1, <2>2, <2>4
    <3>2. w \in {EXECUTED, RESULT}
      BY <2>1
    <3>3. w > state[u]
      BY <3>1 DEF WaitersAhead
    <3>4. QED BY <2>3, <3>1, <3>2, <3>3 DEF EXECUTED, RESULT, START
  <2>5. QED BY <2>1, <2>4 DEF WaitersAhead
<1>9. \A r \in DOMAIN tasks' : r # Resource[t] => /\ r \in DOMAIN tasks /\ tasks'[r] = tasks[r]
                                                 /\ Head(tasks[r]) # t /\ Resource[Head(tasks[r])] = r
                                                 /\ Head(tasks[r]) \in Tasks
  BY <1>3, Known
<1>10. /\ monitor' \in [pc : MonitorPcs, task : Tasks \cup {NoTask}, todo : SUBSET Resources]
       /\ MonitorOK'
       /\ \A r \in DOMAIN tasks' :
            LET u == Head(tasks'[r])
            IN  ~stopped => u = monitor'.task \/ (status'[u] = "PENDING" /\ state'[u] = EXECUTED)
  <2>1. CASE rest = <<>>
    <3>1. DOMAIN tasks' = DOMAIN tasks \ {Resource[t]}
      BY <1>3, <2>1
    <3>2. ~stopped => \A r \in DOMAIN tasks' : /\ status'[Head(tasks'[r])] = "PENDING"
                                                /\ state'[Head(tasks'[r])] = EXECUTED
      BY <1>1, <1>4, <1>9, <2>1, <3>1 DEF StartedOK, t
    <3>3. monitor.todo \in SUBSET Resources /\ monitor.todo \subseteq DOMAIN tasks'
      BY <1>2, <3>1 DEF MonitorOK, Typed
    <3>4. QED BY <1>1, <1>3, <1>4, <2>1, <3>2, <3>3, CheckNextFacts
  <2>2. CASE rest # <<>>
    <3>1. /\ monitor' \in [pc : MonitorPcs, task : Tasks \cup {NoTask}, todo : SUBSET Resources]
          /\ monitor'.pc = "execute" /\ monitor'.task = h /\ monitor'.todo = monitor.todo
      BY <1>4, <2>2 DEF Typed, MonitorPcs
    <3>2. h = First(tasks', h) /\ Resource[h] \in DOMAIN tasks'
      BY <1>2, <1>3, <1>4, <2>2 DEF First
    <3>3. MonitorOK'
      BY <1>1, <1>2, <1>3, <1>4, <2>2, <3>1, <3>2 DEF MonitorOK, First
    <3>4. \A r \in DOMAIN tasks' : r # Resource[t] =>
            LET u == Head(tasks'[r])
            IN  ~stopped => status'[u] = "PENDING" /\ state'[u] = EXECUTED
      BY <1>1, <1>4, <1>9, <2>2 DEF StartedOK, t
    <3>5. Head(tasks'[Resource[t]]) = monitor'.task
      BY <1>4, <2>2, <3>1 DEF First
    <3>6. QED BY <3>1, <3>3, <3>4, <3>5
  <2>3. QED BY <2>1, <2>2
<1>11. Typed'
  BY <1>1, <1>3, <1>8, <1>10 DEF Typed
<1>12. StartedOK'
  <2> SUFFICES ASSUME NEW u \in Tasks, In(tasks, u)'
               PROVE  /\ ~InQueue(u)' /\ state'[u] # RESULT
                      /\ u # First(tasks, u)' => state'[u] = NONE
    BY <1>1, <1>10 DEF StartedOK
  <2>1. In(tasks, u) /\ u # t /\ ~InQueue(u)' /\ In(tasks', u)
    BY <1>6, <1>7, InPrime, Known
  <2>2. CASE Resource[u] # Resource[t]
    <3>1. First(tasks, u)' = First(tasks, u)
      BY <1>3, <2>1, <2>2, Known, InPrime DEF First
    <3>2. state'[u] = state[u]
      BY <1>4, <2>1, <2>2
    <3>3. QED BY <2>1, <3>1, <3>2, Known
  <2>3. CASE Resource[u] = Resource[t]
    <3>1. Resource[t] \in DOMAIN tasks' /\ rest # <<>>
      BY <1>3, <2>1, <2>3 DEF In
    <3>2. First(tasks, u)' = h
      BY <1>4, <2>3, <3>1, InPrime DEF First
    <3>3. state[u] = NONE
      BY <1>2, <2>1, <2>3, Known DEF First
    <3>4. QED BY <1>4, <2>1, <3>1, <3>2, <3>3 DEF NONE, START, RESULT
  <2>4. QED BY <2>2, <2>3
<1>13. MainOK'
  <2>1. main.pc \in {"execute", "result"} => state'[main.task] = state[main.task]
    BY <1>2, <1>4, <1>5 DEF MainOK
  <2>2. QED BY <1>1, <1>2, <1>3, <1>6, <2>1 DEF MainOK
<1>14. Placed'
  <2>1. status[t] \in Final
    BY <1>1 DEF MonitorOK, t
  <2>2. QED BY <1>1, <1>6, <1>7, <2>1 DEF Placed
<1>15. QED BY <1>6, <1>7, <1>8, <1>10, <1>11, <1>12, <1>13, <1>14

----------------------------------------------------------------------------
LEMMA Initially == Init => IInv
<1> SUFFICES ASSUME Init PROVE IInv
  OBVIOUS
<1> USE DEF Init
<1>1. Typed
  <2>1. state \in [Tasks -> States] /\ status \in [Tasks -> Statuses]
    BY DEF States, Statuses
  <2>2. main \in [pc : MainPcs, task : Tasks \cup {NoTask}]
    BY DEF At, MainPcs
  <2>3. monitor \in [pc : MonitorPcs, task : Tasks \cup {NoTask}, todo : SUBSET Resources]
    BY DEF Idle, MonitorAt, MonitorPcs
  <2>4. events \in [Tasks -> SUBSET {EXECUTED, RESULT}]
    <3>1. {} \in SUBSET {EXECUTED, RESULT}
      OBVIOUS
    <3>2. QED BY <3>1
  <2>5. stopped \in BOOLEAN
    OBVIOUS
  <2>6. stops \in 0 .. MaxStops
    BY MaxStopsAssumption
  <2>7. QED BY <2>1, <2>2, <2>3, <2>4, <2>5, <2>6 DEF Typed
<1>2. QueueOK /\ DequesOK(tasks) /\ WaitersAhead /\ FreshOK /\ Placed
  BY DEF QueueOK, DequesOK, WaitersAhead, FreshOK, Placed, Added
<1>3. StartedOK /\ MainOK /\ MonitorOK
  BY DEF StartedOK, MainOK, MonitorOK, In, At, Idle, MonitorAt
<1>4. QED BY <1>1, <1>2, <1>3, Parts

LEMMA Unchanged == IInv /\ UNCHANGED vars => IInv'
<1> SUFFICES ASSUME IInv, UNCHANGED vars PROVE IInv'
  OBVIOUS
<1> USE Parts DEF vars
<1>1. /\ QueueOK' /\ FreshOK' /\ (\A u : InQueue(u)' <=> InQueue(u))
      /\ \A u : Added(u)' <=> Added(u)
      /\ DequesOK(tasks') => DequesOK(tasks)'
  BY SameFresh
<1>2. DequesOK(tasks)' /\ \A u : In(tasks, u)' <=> In(tasks, u)
  BY <1>1, InPrime
<1>3. Typed' /\ WaitersAhead' /\ MainOK' /\ MonitorOK' /\ Placed'
  BY <1>1, <1>2 DEF Typed, WaitersAhead, MainOK, MonitorOK, Placed, First
<1>4. StartedOK'
  BY <1>1, <1>2 DEF StartedOK, First
<1>5. QED BY <1>1, <1>2, <1>3, <1>4

LEMMA NextStep == IInv /\ Next => IInv'
<1> SUFFICES ASSUME IInv, Next PROVE IInv'
  OBVIOUS
<1>1. CASE \E t \in Tasks : Add(t) \/ \E s \in {EXECUTED, RESULT} : Wait(t, s)
  BY <1>1, AddStep, WaitStep
<1>2. CASE MainStep
  BY <1>2, GetTaskStep, MainResultStep, AbortStep, AbortResultStep, MainExecutedStep DEF MainStep
<1>3. CASE MonitorStep
  BY <1>3, CheckStep, MonitorResultStep, CheckedStep, MonitorExecutedStep DEF MonitorStep
<1>4. CASE Stop \/ Start
  BY <1>4, StopStep, StartStep
<1>5. QED BY <1>1, <1>2, <1>3, <1>4 DEF Next

(* Wherever the greenthreads block, each task is in one place: not added,  *)
(* in the queue, in the deque of its resource, in the hands of run(), or   *)
(* done with.                                                              *)
THEOREM Invariance == Spec => []IInv
<1>1. IInv /\ [Next]_vars => IInv'
  BY NextStep, Unchanged
<1>2. QED BY <1>1, Initially, PTL DEF Spec

(* The variables of the manager have the types of the code.                *)
THEOREM TypeCorrect == Spec => []TypeOK
<1>1. IInv => TypeOK
  BY DEF IInv
<1>2. QED BY Invariance, <1>1, PTL

(* "Only the first task is executed and pending", as _check_pending_tasks  *)
(* relies on: the others of a deque come after it in the order of add(),   *)
(* so they are other tasks, and none was started.                          *)
THEOREM FirstPending == Spec => []OnlyFirstPending
<1>1. IInv => OnlyFirstPending
  <2> SUFFICES ASSUME IInv PROVE OnlyFirstPending
    OBVIOUS
  <2> USE Parts
  <2>1. monitor.todo \subseteq DOMAIN tasks
    BY DEF MonitorOK
  <2>2. ASSUME NEW r \in DOMAIN tasks
        PROVE  /\ tasks[r] # <<>>
               /\ ~stopped => \/ Head(tasks[r]) = monitor.task
                              \/ status[Head(tasks[r])] = "PENDING" /\ state[Head(tasks[r])] = EXECUTED
               /\ \A i \in 2 .. Len(tasks[r]) : state[tasks[r][i]] = NONE
    <3>1. /\ tasks[r] \in Seq(Tasks) /\ tasks[r] # <<>>
          /\ \A i \in 1 .. Len(tasks[r]) : Resource[tasks[r][i]] = r
          /\ \A i, j \in 1 .. Len(tasks[r]) : i < j => Comes(tasks[r][i], tasks[r][j])
      BY DEF DequesOK
    <3>2. ASSUME NEW i \in 2 .. Len(tasks[r]) PROVE state[tasks[r][i]] = NONE
      <4>1. i \in 1 .. Len(tasks[r]) /\ 1 \in 1 .. Len(tasks[r]) /\ 1 < i
        BY <3>1, LenProperties
      <4>2. Comes(tasks[r][1], tasks[r][i]) /\ Resource[tasks[r][i]] = r
        BY <3>1, <4>1
      <4>3. tasks[r][1] = First(tasks, tasks[r][i])
        BY <3>1, <4>2, HeadTailProperties DEF First
      <4>4. In(tasks, tasks[r][i])
        BY <4>1, <4>2 DEF In
      <4>5. QED BY <4>2, <4>3, <4>4, Known, OrderFacts
    <3>3. QED BY <3>1, <3>2 DEF StartedOK
  <2>3. QED BY <2>1, <2>2 DEF OnlyFirstPending
<1>2. QED BY Invariance, <1>1, PTL

(* run() executes a task only when nothing is under way for its resource,  *)
(* and then no deque is there for the monitor to find: two requests never  *)
(* meet on one edge, stop() and abort included.                            *)
THEOREM NeverTwo == Spec => []OneAtATime
<1>1. IInv => OneAtATime
  <2> SUFFICES ASSUME IInv, main.task # NoTask, monitor.task # NoTask
               PROVE  Resource[main.task] # Resource[monitor.task]
    BY DEF OneAtATime
  <2> USE Parts
  <2>1. monitor.pc \in {"status", "result", "execute"}
    BY DEF MonitorOK, Typed, MonitorPcs
  <2>2. main.pc \in {"execute", "result", "abort"}
    BY DEF MainOK, Typed, MainPcs
  <2>3. QED BY <2>1, <2>2, MonitorTask
<1>2. QED BY Invariance, <1>1, PTL

(* Who waits for a state of a task that is passed or skipped was woken.    *)
THEOREM WaitersWoken == Spec => []WaitersAhead
<1>1. IInv => WaitersAhead
  BY DEF IInv
<1>2. QED BY Invariance, <1>1, PTL

(* When stop() returns, every task that was added has a final status, or   *)
(* came while the others were aborted and is in the queue.                 *)
THEOREM StopAbortsAll == Spec => []StopAborts
<1>1. IInv => StopAborts
  <2> SUFFICES ASSUME IInv, main.pc = "off"
               PROVE  /\ DOMAIN tasks = {}
                      /\ \A t \in Tasks : Added(t) => status[t] \in Final \/ Contains(queue, t)
    BY DEF StopAborts
  <2> USE Parts
  <2>1. DOMAIN tasks = {}
    BY DEF MainOK
  <2>2. \A t : ~In(tasks, t)
    BY <2>1 DEF In
  <2>3. \A t : InQueue(t) => Contains(queue, t)
    BY DEF InQueue, Contains
  <2>4. QED BY <2>1, <2>2, <2>3 DEF Placed
<1>2. QED BY Invariance, <1>1, PTL

----------------------------------------------------------------------------
(* What a step may never do. *)

(* Only _get_task and the monitor that has finished a task start one: the  *)
(* first of the queue, and the next of the deque.                          *)
LEMMA Starters ==
  ASSUME IInv, Next, NEW u \in Tasks, state[u] = NONE, state'[u] = START
  PROVE  \/ /\ main.pc = "get" /\ queue # <<>> /\ u = Head(queue) /\ Resource[u] \notin DOMAIN tasks
            /\ main'.task = u /\ monitor' = monitor
         \/ /\ MonitorResult /\ monitor.pc = "result" /\ u # monitor.task /\ main' = main
            /\ u = First(tasks', monitor.task) /\ Resource[u] = Resource[monitor.task]
            /\ monitor'.task = u /\ In(tasks', u)
<1> USE Parts
<1>0. NONE # START /\ EXECUTED # START /\ RESULT # START /\ {START, EXECUTED, RESULT} \subseteq States
  BY DEF NONE, START, EXECUTED, RESULT, States
<1>1. state' # state
  BY <1>0
<1>2. CASE GetTask
  <2> DEFINE t == Head(queue)
  <2>1. /\ main.pc = "get" /\ queue # <<>> /\ Resource[t] \notin DOMAIN tasks
        /\ main' = At("execute", t) /\ MoveState(t, START) /\ UNCHANGED monitor
    BY <1>1, <1>2 DEF GetTask
  <2>2. t \in Tasks
    BY <2>1, HeadTailProperties DEF QueueOK
  <2>3. \A v \in Tasks : v # t => state'[v] = state[v]
    BY <1>0, <2>1, <2>2, MoveStateFacts
  <2>4. QED BY <1>0, <2>1, <2>3 DEF At
<1>3. CASE MonitorResult
  <2>1. monitor.pc = "result" /\ UNCHANGED main /\ monitor.task \in Tasks
    BY <1>3, MonitorTask DEF MonitorResult
  <2>2. monitor \in [pc : MonitorPcs, task : Tasks \cup {NoTask}, todo : SUBSET Resources]
    BY DEF Typed
  <2>3. QED BY <1>0, <1>3, <2>1, <2>2, MonitorResultFacts
<1>4. CASE MainResult \/ AbortResult
  <2>1. main.task \in Tasks /\ MoveState(main.task, RESULT)
    BY <1>4 DEF MainResult, AbortResult, MainOK
  <2>2. state'[u] = RESULT \/ state'[u] = state[u]
    BY <1>0, <2>1, MoveStateFacts
  <2>3. QED BY <1>0, <2>2
<1>5. CASE \E s \in Returned : MainExecuted(s) \/ MonitorExecuted(s)
  <2>1. PICK t \in Tasks, s \in Returned : Executed(t, s)
    BY <1>5, MonitorTask DEF MainExecuted, MonitorExecuted, MainOK
  <2>2. state'[u] = EXECUTED \/ state'[u] = state[u]
    BY <2>1, ExecutedFacts
  <2>3. QED BY <1>0, <2>2
<1>6. ~(\E t \in Tasks : Add(t) \/ \E s \in {EXECUTED, RESULT} : Wait(t, s))
  BY <1>1 DEF Add, Wait
<1>7. ~(Abort \/ Check \/ Stop \/ Start \/ \E s \in Returned : Checked(s))
  BY <1>1 DEF Abort, Check, Stop, Start, Checked
<1>8. QED BY <1>2, <1>3, <1>4, <1>5, <1>6, <1>7 DEF Next, MainStep, MonitorStep

(* A task starts after all that were added before it for its resource have *)
(* a final status and no callback of theirs runs: by run(), when they are  *)
(* in neither queue; by the monitor, when the one before it is done.       *)
THEOREM StartInOrder == Spec => InOrder
<1> DEFINE Ordered == \A t, u \in Tasks :
             /\ Comes(t, u) /\ Resource[t] = Resource[u]
             /\ state[u] = NONE /\ state'[u] = START
             => status[t] \in Final /\ t \notin {main'.task, monitor'.task}
<1>1. IInv /\ Next => Ordered
  <2> SUFFICES ASSUME IInv, Next, NEW t \in Tasks, NEW u \in Tasks,
                      Comes(t, u), Resource[t] = Resource[u], state[u] = NONE, state'[u] = START
               PROVE  status[t] \in Final /\ t \notin {main'.task, monitor'.task}
    OBVIOUS
  <2> USE Parts
  <2>1. t # u /\ ~Comes(u, t) /\ Added(t)
    BY OrderFacts
  <2>2. monitor.pc \notin {"status", "result", "execute"} => monitor.task = NoTask
    BY DEF MonitorOK, Typed, MonitorPcs
  <2>3. CASE /\ main.pc = "get" /\ queue # <<>> /\ u = Head(queue) /\ Resource[u] \notin DOMAIN tasks
             /\ main'.task = u /\ monitor' = monitor
    <3>1. ~In(tasks, t)
      BY <2>3 DEF In
    <3>2. ~InQueue(t)
      <4> SUFFICES ASSUME InQueue(t) PROVE FALSE
        OBVIOUS
      <4>1. PICK i \in 1 .. Len(queue) : queue[i] = t
        BY DEF InQueue
      <4>2. queue \in Seq(Tasks) /\ u = queue[1] /\ Len(queue) \in Nat
        BY <2>3, HeadTailProperties, LenProperties DEF QueueOK
      <4>3. 1 \in 1 .. Len(queue) /\ 1 < i
        BY <2>1, <4>1, <4>2
      <4>4. Comes(u, t)
        BY <4>1, <4>2, <4>3, QueueFacts
      <4>5. QED BY <2>1, <4>4
    <3>3. status[t] \in Final
      BY <2>1, <2>3, <3>1, <3>2 DEF Placed
    <3>4. t # monitor.task
      BY <2>2, <3>1, Known, NoTaskAssumption
    <3>5. QED BY <2>1, <2>3, <3>3, <3>4
  <2>4. CASE /\ MonitorResult /\ monitor.pc = "result" /\ u # monitor.task /\ main' = main
             /\ u = First(tasks', monitor.task) /\ Resource[u] = Resource[monitor.task]
             /\ monitor'.task = u /\ In(tasks', u)
    <3> DEFINE m == monitor.task
    <3>1. /\ DequesOK(tasks') /\ \A v : In(tasks', v) <=> In(tasks, v) /\ v # m
      BY <2>4, MonitorResultFacts
    <3>2. /\ main.pc # "abort" /\ main.pc # "off"
          /\ (main.pc \in {"execute", "result"} => Resource[main.task] # Resource[m])
      BY <2>4, MonitorTask
    <3>3. t # main.task
      BY <2>4, <3>2, NoTaskAssumption DEF MainOK, Typed, MainPcs
    <3>4. ~InQueue(t)
      BY <2>4, <3>1, Known, QueueFacts
    <3>5. In(tasks, t) => t = m
      <4> SUFFICES ASSUME In(tasks, t), t # m PROVE FALSE
        OBVIOUS
      <4>1. In(tasks', t) /\ u = First(tasks', t)
        BY <2>4, <3>1 DEF First
      <4>2. Comes(u, t)
        BY <2>1, <3>1, <4>1, TableFacts
      <4>3. QED BY <2>1, <4>2
    <3>6. status[m] \in Final
      BY <2>4 DEF MonitorOK
    <3>7. status[t] \in Final
      BY <2>1, <3>3, <3>4, <3>5, <3>6 DEF Placed
    <3>8. QED BY <2>1, <2>4, <3>3, <3>7
  <2>5. QED BY <2>3, <2>4, Starters
<1>2. IInv /\ [Next]_vars => [Ordered]_vars
  BY <1>1
<1>3. QED BY Invariance, <1>2, PTL DEF Spec, InOrder

(* After its result a task is in no queue and with no thread: no callback  *)
(* changes what its worker was told, and nobody starts it again.           *)
THEOREM ResultStays == Spec => ResultIsLast
<1> DEFINE Stays == \A t \in Tasks : state[t] = RESULT => state'[t] = RESULT /\ status'[t] = status[t]
<1>1. IInv /\ Next => Stays
  <2> SUFFICES ASSUME IInv, Next, NEW t \in Tasks, state[t] = RESULT
               PROVE  state'[t] = state[t] /\ status'[t] = status[t]
    OBVIOUS
  <2> USE Parts
  <2>1. ~In(tasks, t) /\ ~InQueue(t) /\ {START, EXECUTED, RESULT} \subseteq States
    BY Known DEF NONE, RESULT, States
  <2>2. main.pc \in {"execute", "result", "abort"} => main.task \in Tasks /\ t # main.task
    BY <2>1, Known DEF MainOK
  <2>3. monitor.pc \in {"status", "result", "execute"} => monitor.task \in Tasks /\ t # monitor.task
    BY <2>1, MonitorTask
  <2>4. CASE GetTask
    <3>1. UNCHANGED status /\ (UNCHANGED state \/ MoveState(Head(queue), START)) /\ queue # <<>>
      BY <2>4 DEF GetTask
    <3>2. Head(queue) \in Tasks /\ InQueue(Head(queue))
      <4>1. queue \in Seq(Tasks) /\ Head(queue) = queue[1] /\ 1 \in 1 .. Len(queue)
        BY <3>1, EmptySeq, LenProperties, HeadTailProperties DEF QueueOK
      <4>2. QED BY <4>1 DEF InQueue
    <3>3. QED BY <2>1, <3>1, <3>2, MoveStateFacts
  <2>5. CASE MonitorResult
    <3>1. monitor.pc = "result" /\ UNCHANGED status
      BY <2>5 DEF MonitorResult
    <3>2. \A v : In(tasks', v) => In(tasks, v)
      BY <2>5, MonitorResultFacts
    <3>3. \/ state'[t] = state[t]
          \/ t = Head(Remaining(monitor.task)) /\ In(tasks', Head(Remaining(monitor.task)))
      BY <2>3, <2>5, <3>1, MonitorResultFacts
    <3>4. QED BY <2>1, <3>1, <3>2, <3>3
  <2>6. CASE MainResult
    BY <2>1, <2>2, <2>6, MoveStateFacts DEF MainResult
  <2>7. CASE AbortResult
    <3>1. /\ main.pc = "abort" /\ MoveState(main.task, RESULT) /\ tasks' = Dequeue(main.task)
          /\ AbortNext(tasks', IF Remaining(main.task) # <<>> THEN {Resource[main.task]} ELSE DOMAIN tasks')
      BY <2>7 DEF AbortResult
    <3>2. main.task \in Tasks /\ Resource[main.task] \in DOMAIN tasks /\ main.task = First(tasks, main.task)
      BY <3>1 DEF MainOK
    <3>3. /\ DequesOK(tasks') /\ \A v : In(tasks', v) => In(tasks, v)
          /\ DOMAIN tasks' = IF Remaining(main.task) = <<>> THEN DOMAIN tasks \ {Resource[main.task]}
                                                            ELSE DOMAIN tasks
      BY <3>1, <3>2, DequeueFacts
    <3>4. status'[t] = status[t]
      BY <2>1, <3>1, <3>2, <3>3, AbortNextFacts
    <3>5. state'[t] = state[t]
      BY <2>1, <2>2, <3>1, MoveStateFacts
    <3>6. QED BY <3>4, <3>5
  <2>8. CASE Abort
    <3>1. UNCHANGED state /\ tasks' = EnqueueAll(tasks, queue) /\ AbortNext(tasks', DOMAIN tasks')
      BY <2>8 DEF Abort
    <3>2. DequesOK(tasks') /\ ~In(tasks', t)
      BY <2>1, <3>1, Known, EnqueueAllFacts
    <3>3. status'[t] = status[t]
      BY <3>1, <3>2, AbortNextFacts
    <3>4. QED BY <3>1, <3>3
  <2>9. CASE \E s \in Returned : MainExecuted(s) \/ MonitorExecuted(s)
    <3>1. PICK v \in Tasks, s \in Returned : v # t /\ Executed(v, s)
      BY <2>2, <2>3, <2>9 DEF MainExecuted, MonitorExecuted
    <3>2. QED BY <3>1, ExecutedFacts
  <2>10. CASE \E s \in Returned : Checked(s)
    <3>1. PICK s \in Returned : /\ monitor.pc = "status" /\ UNCHANGED state
                                /\ status' = [status EXCEPT ![monitor.task] = s]
      BY <2>10 DEF Checked
    <3>2. QED BY <2>3, <3>1 DEF Typed
  <2>11. CASE \E x \in Tasks : Add(x) \/ \E s \in {EXECUTED, RESULT} : Wait(x, s)
    BY <2>11 DEF Add, Wait
  <2>12. CASE Check \/ Stop \/ Start
    BY <2>12 DEF Check, Stop, Start
  <2>13. QED BY <2>4, <2>5, <2>6, <2>7, <2>8, <2>9, <2>10, <2>11, <2>12 DEF Next, MainStep, MonitorStep
<1>2. IInv /\ [Next]_vars => [Stays]_vars
  BY <1>1
<1>3. QED BY Invariance, <1>2, PTL DEF Spec, ResultIsLast
=============================================================================
