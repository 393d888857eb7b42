---------------------------- MODULE TaskManager ----------------------------
(***************************************************************************)
(* TaskManager and Task (neutron/plugins/nicira/vshield/tasks/tasks.py):   *)
(* the tasks the vShield driver runs on edges, in order for one resource   *)
(* (a router) and in parallel for different ones.                          *)
(*                                                                         *)
(* Three kinds of greenthread share the manager's queues: the one of run(),*)
(* the looping call that checks pending tasks, and the API workers that    *)
(* add tasks, wait for them and stop the manager.  A greenthread gives way *)
(* only where it blocks: in an execute, status or result callback (a       *)
(* request to the vShield Manager, or the database) and on an event.  A    *)
(* step is what a greenthread does from one such place to the next.        *)
(***************************************************************************)
EXTENDS Integers, Sequences, SequencesExt, FiniteSets, Functions

CONSTANTS Tasks, Resources, Resource,
          NoTask,
          MaxStops       \* bound: how often stop() is called

ASSUME ResourceAssumption == Resource \in [Tasks -> Resources]
ASSUME NoTaskAssumption == NoTask \notin Tasks
ASSUME MaxStopsAssumption == MaxStops \in Nat

(* TaskState and TaskStatus; a new task has the status "None". *)
NONE == -1
START == 0
EXECUTED == 1
RESULT == 3
States == {NONE, START, EXECUTED, RESULT}
Final == {"COMPLETED", "ERROR", "ABORT"}
Statuses == {"None", "PENDING"} \cup Final

(* What a callback returns; raising is "ERROR". *)
Returned == {"PENDING", "COMPLETED", "ERROR"}

VARIABLES added,    \* the tasks given to add(), in the order of their ids
          queue,    \* _tasks_queue
          tasks,    \* _tasks: resource -> the deque of its tasks
          state, status,  \* of each task
          events,   \* each task's _states: what some caller waits for
          main,     \* the greenthread of run(): [pc, task]
          monitor,  \* the looping call: [pc, task, todo]
          stopped, stops

vars == <<added, queue, tasks, state, status, events, main, monitor, stopped, stops>>

(* Where the greenthreads block.  Of run(): waiting for a request, in an   *)
(* execute or result callback, waiting for the monitor, in a result        *)
(* callback of _abort; or there is no thread.  Of the monitor: between two *)
(* checks, in a status, result or execute callback.                        *)
MainPcs == {"off", "get", "execute", "result", "join", "abort"}
MonitorPcs == {"off", "idle", "status", "result", "execute"}

At(pc, t) == [pc |-> pc, task |-> t]
MonitorAt(pc, t, todo) == [pc |-> pc, task |-> t, todo |-> todo]
Idle == MonitorAt("idle", NoTask, {})

TypeOK ==
  /\ added \in Seq(Tasks)
  /\ queue \in Seq(Tasks)
  /\ DOMAIN tasks \subseteq Resources
  /\ \A r \in DOMAIN tasks : tasks[r] \in Seq(Tasks)
  /\ state \in [Tasks -> States]
  /\ status \in [Tasks -> Statuses]
  /\ events \in [Tasks -> SUBSET {EXECUTED, RESULT}]
  /\ main \in [pc : MainPcs, task : Tasks \cup {NoTask}]
  /\ monitor \in [pc : MonitorPcs, task : Tasks \cup {NoTask}, todo : SUBSET Resources]
  /\ stopped \in BOOLEAN
  /\ stops \in 0 .. MaxStops

(* The driver's constructor makes the manager and starts it. *)
Init ==
  /\ added = <<>>
  /\ queue = <<>>
  /\ tasks = [r \in {} |-> <<>>]
  /\ state = [t \in Tasks |-> NONE]
  /\ status = [t \in Tasks |-> "None"]
  /\ events = [t \in Tasks |-> {}]
  /\ main = At("get", NoTask)
  /\ monitor = Idle
  /\ stopped = FALSE
  /\ stops = 0

----------------------------------------------------------------------------
(* Tasks. *)

(* Mutant: the callers that wait for a skipped state are not told.         *)
WokenExact(t, s) == {s}

(* _move_state wakes who waits for the state, and tells who waits for an   *)
(* earlier one that it was skipped.                                        *)
Woken(t, s) == {w \in events[t] : w <= s}

MoveState(t, s) ==
  /\ state' = [state EXCEPT ![t] = s]
  /\ events' = [events EXCEPT ![t] = @ \ Woken(t, s)]

(* Mutant: the task is put first. *)
EnqueueFirst(q, t) ==
  [r \in DOMAIN q \cup {Resource[t]} |->
     IF r = Resource[t] THEN <<t>> \o (IF r \in DOMAIN q THEN q[r] ELSE <<>>) ELSE q[r]]

(* The queues of _tasks. *)
Enqueue(q, t) ==
  [r \in DOMAIN q \cup {Resource[t]} |->
     IF r = Resource[t] THEN Append(IF r \in DOMAIN q THEN q[r] ELSE <<>>, t) ELSE q[r]]

(* _abort puts what was not received yet to the queues of the resources.   *)
EnqueueAll(q, s) ==
  LET after[i \in 0 .. Len(s)] == IF i = 0 THEN q ELSE Enqueue(after[i - 1], s[i])
  IN  after[Len(s)]

Remaining(t) == RemoveFirst(tasks[Resource[t]], t)

(* _dequeue takes the task off its deque, and the deque away with the last *)
(* task.                                                                   *)
Dequeue(t) ==
  IF Remaining(t) = <<>> THEN Restrict(tasks, DOMAIN tasks \ {Resource[t]})
                         ELSE [tasks EXCEPT ![Resource[t]] = Remaining(t)]

(* Mutant: the task moves to the state of the periodic checks, STATUS.     *)
ExecutedAsStatus(t, s) ==
  /\ status' = [status EXCEPT ![t] = s]
  /\ MoveState(t, 2)

(* _executed and what _execute returns; the callback's own state is in     *)
(* the task's userdata.                                                    *)
Executed(t, s) ==
  /\ status' = [status EXCEPT ![t] = s]
  /\ MoveState(t, EXECUTED)

----------------------------------------------------------------------------
(* The API workers. *)

Add(t) ==
  /\ \A i \in 1 .. Len(added) : added[i] # t
  /\ added' = Append(added, t)
  /\ queue' = Append(queue, t)
  /\ UNCHANGED <<tasks, state, status, events, main, monitor, stopped, stops>>

(* Mutant: a state that has passed is waited for.                          *)
WaitPassed(t, s) ==
  /\ \E i \in 1 .. Len(added) : added[i] = t
  /\ events' = [events EXCEPT ![t] = @ \cup {s}]
  /\ UNCHANGED <<added, queue, tasks, state, status, main, monitor, stopped, stops>>

(* wait(): the worker that added the task blocks, unless the state has     *)
(* been reached.  No two workers wait for one task.                        *)
Wait(t, s) ==
  /\ \E i \in 1 .. Len(added) : added[i] = t
  /\ s > state[t]
  /\ events' = [events EXCEPT ![t] = @ \cup {s}]
  /\ UNCHANGED <<added, queue, tasks, state, status, main, monitor, stopped, stops>>

----------------------------------------------------------------------------
(* run(). *)

(* Mutant: what runs for the resource is looked for in the queue only.     *)
GetTaskOvertaking ==
  /\ main.pc = "get" /\ ~stopped /\ queue # <<>>
  /\ LET t == Head(queue)
     IN  /\ queue' = Tail(queue)
         /\ main' = At("execute", t)
         /\ MoveState(t, START)
         /\ UNCHANGED tasks
  /\ UNCHANGED <<added, status, monitor, stopped, stops>>

(* _get_task and, when nothing is under way for the resource, the start of *)
(* _execute.                                                               *)
GetTask ==
  /\ main.pc = "get" /\ ~stopped /\ queue # <<>>
  /\ queue' = Tail(queue)
  /\ LET t == Head(queue)
     IN  \/ /\ Resource[t] \in DOMAIN tasks
            /\ tasks' = Enqueue(tasks, t)
            /\ UNCHANGED <<main, state, events>>
         \/ /\ Resource[t] \notin DOMAIN tasks
            /\ main' = At("execute", t)
            /\ MoveState(t, START)
            /\ UNCHANGED tasks
  /\ UNCHANGED <<added, status, monitor, stopped, stops>>

(* The loop ends: the monitor is stopped, and waited for when it is busy.  *)
(* A monitor between two checks makes no other.                            *)
Leave ==
  /\ main' = At("join", NoTask)
  /\ monitor' = IF monitor.pc = "idle" THEN [monitor EXCEPT !.pc = "off"] ELSE monitor

(* The next round of the loop. *)
Loop == \/ stopped /\ Leave
        \/ ~stopped /\ main' = At("get", NoTask) /\ UNCHANGED monitor

(* Mutant: a task that is done with is queued like a pending one.          *)
MainExecutedQueued(s) ==
  /\ main.pc = "execute"
  /\ Executed(main.task, s)
  /\ tasks' = Enqueue(tasks, main.task)
  /\ \/ /\ s = "PENDING"
        /\ Loop
     \/ /\ s # "PENDING"
        /\ main' = At("result", main.task)
        /\ UNCHANGED monitor
  /\ UNCHANGED <<added, queue, stopped, stops>>

(* Mutant: a pending task is not put where the monitor looks.              *)
MainExecutedLost(s) ==
  /\ main.pc = "execute"
  /\ Executed(main.task, s)
  /\ \/ s = "PENDING" /\ Loop
     \/ s # "PENDING" /\ main' = At("result", main.task) /\ UNCHANGED monitor
  /\ UNCHANGED <<added, queue, tasks, stopped, stops>>

(* The execute callback of the thread returns. *)
MainExecuted(s) ==
  /\ main.pc = "execute"
  /\ Executed(main.task, s)
  /\ \/ /\ s = "PENDING"
        /\ tasks' = Enqueue(tasks, main.task)
        /\ Loop
     \/ /\ s # "PENDING"
        /\ main' = At("result", main.task)
        /\ UNCHANGED <<tasks, monitor>>
  /\ UNCHANGED <<added, queue, stopped, stops>>

(* Its result callback returns. *)
MainResult ==
  /\ main.pc = "result"
  /\ MoveState(main.task, RESULT)
  /\ Loop
  /\ UNCHANGED <<added, queue, tasks, status, stopped, stops>>

(* _abort takes every task there is, and goes through them resource by     *)
(* resource.                                                               *)
AbortHead(q, R) ==
  \E r \in R : /\ status' = [status EXCEPT ![Head(q[r])] = "ABORT"]
              /\ main' = At("abort", Head(q[r]))

AbortNext(q, R) == \/ R # {} /\ AbortHead(q, R)
                   \/ R = {} /\ main' = At("off", NoTask) /\ UNCHANGED status

Abort ==
  /\ main.pc = "join" /\ monitor.pc = "off"
  /\ queue' = <<>>
  /\ tasks' = EnqueueAll(tasks, queue)
  /\ AbortNext(tasks', DOMAIN tasks')
  /\ UNCHANGED <<added, state, events, monitor, stopped, stops>>

(* The result callback of an aborted task returns. *)
AbortResult ==
  /\ main.pc = "abort"
  /\ MoveState(main.task, RESULT)
  /\ tasks' = Dequeue(main.task)
  /\ AbortNext(tasks', IF Remaining(main.task) # <<>> THEN {Resource[main.task]} ELSE DOMAIN tasks')
  /\ UNCHANGED <<added, queue, monitor, stopped, stops>>

----------------------------------------------------------------------------
(* The looping call. *)

(* Mutant: the looping call goes on after it was stopped.                  *)
CheckNextAgain(q, todo) ==
  \/ /\ ~stopped
     /\ \E r \in todo : monitor' = MonitorAt("status", Head(q[r]), todo \ {r})
  \/ /\ stopped \/ todo = {}
     /\ monitor' = Idle

(* _check_pending_tasks goes on with another resource it found at its      *)
(* start, or ends.                                                         *)
CheckNext(q, todo) ==
  \/ /\ ~stopped
     /\ \E r \in todo : monitor' = MonitorAt("status", Head(q[r]), todo \ {r})
  \/ /\ stopped \/ todo = {}
     /\ monitor' = IF main.pc = "join" THEN [Idle EXCEPT !.pc = "off"] ELSE Idle

Check ==
  /\ monitor.pc = "idle" /\ ~stopped /\ DOMAIN tasks # {}
  /\ CheckNext(tasks, DOMAIN tasks)
  /\ UNCHANGED <<added, queue, tasks, state, status, events, main, stopped, stops>>

(* The status callback returns. *)
Checked(s) ==
  /\ monitor.pc = "status"
  /\ status' = [status EXCEPT ![monitor.task] = s]
  /\ \/ s = "PENDING" /\ CheckNext(tasks, monitor.todo)
     \/ s # "PENDING" /\ monitor' = [monitor EXCEPT !.pc = "result"]
  /\ UNCHANGED <<added, queue, tasks, state, events, main, stopped, stops>>

(* Mutant: the next task of the resource is not executed.                  *)
MonitorResultStays ==
  /\ monitor.pc = "result"
  /\ tasks' = Dequeue(monitor.task)
  /\ MoveState(monitor.task, RESULT)
  /\ CheckNext(tasks', monitor.todo)
  /\ UNCHANGED <<added, queue, status, main, stopped, stops>>

(* The result callback returns; the next task of the resource is executed. *)
MonitorResult ==
  /\ monitor.pc = "result"
  /\ tasks' = Dequeue(monitor.task)
  /\ LET t == monitor.task
         rest == Remaining(t)
     IN  /\ events' = [events EXCEPT ![t] = @ \ Woken(t, RESULT)]
         /\ \/ /\ rest # <<>>
               /\ state' = [state EXCEPT ![t] = RESULT, ![Head(rest)] = START]
               /\ monitor' = [monitor EXCEPT !.pc = "execute", !.task = Head(rest)]
            \/ /\ rest = <<>>
               /\ state' = [state EXCEPT ![t] = RESULT]
               /\ CheckNext(tasks', monitor.todo)
  /\ UNCHANGED <<added, queue, status, main, stopped, stops>>

(* The execute callback returns. *)
MonitorExecuted(s) ==
  /\ monitor.pc = "execute"
  /\ Executed(monitor.task, s)
  /\ \/ s = "PENDING" /\ CheckNext(tasks, monitor.todo)
     \/ s # "PENDING" /\ monitor' = [monitor EXCEPT !.pc = "result"]
  /\ UNCHANGED <<added, queue, tasks, main, stopped, stops>>

----------------------------------------------------------------------------
(* stop() kills the thread where it blocks.  An execute or result callback *)
(* may also ignore that it is killed, as the comment in run() says.        *)

(* Mutant: the task of a killed _execute is forgotten.                     *)
KilledForgotten == /\ Leave /\ UNCHANGED tasks

Killed ==
  /\ Leave
  /\ tasks' = IF main.pc = "execute" THEN Enqueue(tasks, main.task) ELSE tasks

Stop ==
  /\ main.pc \in {"get", "execute", "result"} /\ ~stopped
  /\ stops < MaxStops
  /\ stops' = stops + 1
  /\ stopped' = TRUE
  /\ \/ Killed
     \/ main.pc # "get" /\ UNCHANGED <<tasks, main, monitor>>
  /\ UNCHANGED <<added, queue, state, status, events>>

(* start() after a stop() has returned. *)
Start ==
  /\ main.pc = "off"
  /\ stopped' = FALSE
  /\ main' = At("get", NoTask)
  /\ monitor' = Idle
  /\ UNCHANGED <<added, queue, tasks, state, status, events, stops>>

----------------------------------------------------------------------------
MainStep == \/ GetTask \/ MainResult \/ Abort \/ AbortResult
            \/ \E s \in Returned : MainExecuted(s)

MonitorStep == \/ Check \/ MonitorResult
               \/ \E s \in Returned : Checked(s) \/ MonitorExecuted(s)

Next == \/ \E t \in Tasks : Add(t) \/ \E s \in {EXECUTED, RESULT} : Wait(t, s)
        \/ MainStep \/ MonitorStep
        \/ Stop \/ Start

Spec == Init /\ [][Next]_vars

(* The hub runs every greenthread that can go on, and the callbacks        *)
(* return: their requests have timeouts.  Of the vShield Manager it is     *)
(* assumed that what it is asked about again and again it finishes.        *)
Done(t) == monitor.task = t /\ \E s \in Returned \ {"PENDING"} : Checked(s)

Fairness == /\ WF_vars(MainStep)
            /\ WF_vars(MonitorStep)
            /\ \A t \in Tasks : SF_vars(Done(t))

FairSpec == Spec /\ Fairness

----------------------------------------------------------------------------
Comes(t, u) == \E i, j \in 1 .. Len(added) : i < j /\ added[i] = t /\ added[j] = u
Added(t) == \E i \in 1 .. Len(added) : added[i] = t

(* While the manager is not being stopped, "only the first task is         *)
(* executed and pending", as _check_pending_tasks relies on: a deque has a *)
(* first task, which is pending or in the hands of the monitor, and all    *)
(* others have not been started.  What the monitor found at the start of   *)
(* its check is still there when it comes to it.                           *)
OnlyFirstPending ==
  /\ monitor.todo \subseteq DOMAIN tasks
  /\ \A r \in DOMAIN tasks :
       /\ tasks[r] # <<>>
       /\ ~stopped => /\ \/ Head(tasks[r]) = monitor.task
                         \/ status[Head(tasks[r])] = "PENDING" /\ state[Head(tasks[r])] = EXECUTED
                      /\ \A i \in 2 .. Len(tasks[r]) : state[tasks[r][i]] = NONE

(* The thread and the monitor never run callbacks for the same resource at *)
(* the same time: two requests never meet on one edge.                     *)
OneAtATime ==
  main.task # NoTask /\ monitor.task # NoTask => Resource[main.task] # Resource[monitor.task]

(* A worker only waits for a state its task has not reached: who waits for *)
(* a state that is passed or skipped, by an abort for one, has been woken. *)
WaitersAhead == \A t \in Tasks : \A s \in events[t] : s > state[t]

(* When stop() returns, what was given to add() before it has a final      *)
(* status, whatever the threads were at; only tasks that came during the   *)
(* abort are left, in the queue.                                           *)
StopAborts ==
  main.pc = "off" =>
    /\ DOMAIN tasks = {}
    /\ \A t \in Tasks : Added(t) => status[t] \in Final \/ Contains(queue, t)

(* A task starts after all tasks added before it for its resource have a   *)
(* final status and no callback of theirs runs.                            *)
InOrder ==
  [][\A t, u \in Tasks :
       /\ Comes(t, u) /\ Resource[t] = Resource[u]
       /\ state[u] = NONE /\ state'[u] = START
       => status[t] \in Final /\ t \notin {main'.task, monitor'.task}]_vars

(* What a task's worker and its result monitors were told stays: after the *)
(* result its status is not changed, and it is never started again.        *)
ResultIsLast ==
  [][\A t \in Tasks : state[t] = RESULT => state'[t] = RESULT /\ status'[t] = status[t]]_vars

(* Every task comes to its result, unless the manager is stopped. *)
EveryTaskFinishes == \A t \in Tasks : Added(t) ~> state[t] = RESULT \/ stops > 0

(* stop() returns, though the monitor may be in the middle of a check and  *)
(* goes on to execute the next tasks of a resource.                        *)
StopReturns == stopped ~> main.pc = "off"
=============================================================================
