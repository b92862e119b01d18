------------------------------ MODULE TaskGrid ------------------------------
(***************************************************************************)
(* The task life cycle of TaskGrid: the web process that creates, cancels, *)
(* edits and deletes rows of the task table (apps/tasks/views.py), the     *)
(* broker between it and the workers, the execute_task body that every     *)
(* worker process runs (apps/tasks/tasks.py), the node table               *)
(* (apps/nodes/services.py, views.py) and the failover command             *)
(* (apps/nodes/management/commands/reschedule_tasks.py).                   *)
(*                                                                         *)
(* One action is one database statement, one broker operation or one wait  *)
(* for the sandbox: every other actor may run between two of them.         *)
(* Dispatch alone joins three statements, and says there why it may.  What *)
(* the environment may do besides creating tasks is listed in Env, so that *)
(* an instance, or a theorem, says which requests and faults it allows.    *)
(* A definition that no action uses and that stands right before another   *)
(* of the same shape is a plausible mistake in the code of the latter; the *)
(* properties are tried against it (README, "Mutants").                    *)
(***************************************************************************)
EXTENDS TaskStatus, Naturals, FiniteSets

CONSTANTS
    Tasks,        \* ids a create request may draw (uuid4: never drawn twice)
    Nodes,        \* worker machines, by the name they register
    Workers,      \* Celery pool processes
    NodeOf,       \* the machine each process runs on
    NoNode,       \* the empty worker_id
    NoTask,       \* no task: a process without a message
    MaxRetries,   \* max_retries of execute_task
    Commands,     \* invocations of reschedule_tasks that may overlap
    MaxInFlight,  \* bound: messages of one task, queued or in hand
    Env           \* the requests and the faults that may happen

(* Requests of users and operators, then faults.                           *)
EnvRequests == {"cancel", "status", "patch", "destroy", "retry",
                "reschedule", "admin_offline"}
EnvFaults == {"infra", "soft_limit", "soft_limit_outside", "hard_limit", "db",
              "broker", "duplicate", "node_crash", "node_restart",
              "late_heartbeat"}

ASSUME GridAssumption ==
    /\ NodeOf \in [Workers -> Nodes]
    /\ NoNode \notin Nodes
    /\ NoTask \notin Tasks
    /\ IsFiniteSet(Workers)
    /\ IsFiniteSet(Commands)
    /\ MaxRetries \in Nat
    /\ MaxInFlight \in Nat \ {0}
    /\ Env \subseteq EnvRequests \cup EnvFaults

VARIABLES
    db,          \* the task table
    snap,        \* the row a PUT or PATCH request has read and not yet saved
    dispatching, \* rows committed by _dispatch_task, message not yet sent
    queue,       \* how many copies of each <<task, retries>> message wait
    worker,      \* the processes of the pools
    alive,       \* machines that are up
    node,        \* the status column of the node table
    resched      \* the invocations of the reschedule_tasks command

taskVars == <<db, snap>>
brokerVars == <<dispatching, queue>>
nodeVars == <<alive, node>>
vars == <<taskVars, brokerVars, worker, nodeVars, resched>>

-----------------------------------------------------------------------------
(* Rows, messages and processes.                                           *)

(* A row: its status, worker_id, and whether cancel_requested_at,          *)
(* started_at and finished_at are set.                                     *)
Row == [status : Status \cup Absent, worker : Nodes \cup {NoNode},
        cancel : BOOLEAN, started : BOOLEAN, finished : BOOLEAN]

NoRow == [status |-> "none", worker |-> NoNode,
          cancel |-> FALSE, started |-> FALSE, finished |-> FALSE]

Exists(t) == db[t].status \notin Absent

Messages == Tasks \X (0 .. MaxRetries)

(* Where a process is in execute_task.  got: message acknowledged, row not *)
(* yet claimed; claimed: its UPDATE took the row; running: in the sandbox; *)
(* returned: the sandbox answered; indexing: outcome saved; soft, exc: in  *)
(* the handler of SoftTimeLimitExceeded or of any other exception;         *)
(* softsave, excsave: the handler has read the row and not yet saved it;   *)
(* retry: about to call self.retry.                                        *)
PastClaim == {"claimed", "running", "returned", "indexing",
              "soft", "softsave", "exc", "excsave", "retry"}
Pc == {"idle", "got"} \cup PastClaim

(* mem is the status of the task object in memory, out the status the      *)
(* sandbox result will be saved as.                                        *)
Worker == [pc : Pc, task : Tasks \cup {NoTask}, retries : 0 .. MaxRetries,
           mem : Status \cup {"none"}, out : Terminal \cup {"none"}]

Idle == [pc |-> "idle", task |-> NoTask, retries |-> 0,
         mem |-> "none", out |-> "none"]

Resched == [pc : {"idle", "query", "loop", "send"}, offline : SUBSET Nodes,
            todo : SUBSET Tasks, cur : Tasks \cup {NoTask}]

NoResched == [pc |-> "idle", offline |-> {}, todo |-> {}, cur |-> NoTask]

Executes(p, t) == worker[p].task = t /\ worker[p].pc \in PastClaim
Executors(t) == {p \in Workers : Executes(p, t)}

(* A message of t waits in a queue.                                        *)
Queued(t) == \E r \in 0 .. MaxRetries : queue[<<t, r>>] > 0

(* Fewer than MaxInFlight messages of t wait or are in a worker's hand.    *)
RoomFor(t) ==
    Cardinality({m \in (0 .. MaxRetries) \X (1 .. MaxInFlight) :
                    m[2] <= queue[<<t, m[1]>>]})
        + Cardinality({p \in Workers : worker[p].task = t}) < MaxInFlight

(* Process p moves on in execute_task and drops what it held in memory.    *)
Goto(p, l) == worker' = [worker EXCEPT ![p] = [@ EXCEPT !.pc = l, !.mem = "none",
                                                        !.out = "none"]]
Release(p) == worker' = [worker EXCEPT ![p] = Idle]

Publish(t, r) == queue' = [queue EXCEPT ![<<t, r>>] = @ + 1]

(* Would transit() let the row of t move to s?  The second form assigns    *)
(* the status without asking.                                              *)
AcceptsAny(t, s) == Exists(t)
Accepts(t, s) == s \in Transit(db[t].status)

(* A row with an outcome.  The second form sends a failed task back to the *)
(* queue, for a retry to find it.                                          *)
FinishedOrQueued(row, s) == IF s = "failed" THEN [row EXCEPT !.status = "pending"]
                            ELSE [row EXCEPT !.status = s, !.finished = TRUE]
Finished(row, s) == [row EXCEPT !.status = s, !.finished = TRUE]

(* The types, and that whoever is busy is busy with a task.                *)
TypeOK ==
    /\ db \in [Tasks -> Row]
    /\ snap \in [Tasks -> Row]
    /\ dispatching \in SUBSET Tasks
    /\ queue \in [Messages -> Nat]
    /\ worker \in [Workers -> Worker]
    /\ alive \in [Nodes -> BOOLEAN]
    /\ node \in [Nodes -> {"online", "offline"}]
    /\ resched \in [Commands -> Resched]
    /\ \A p \in Workers : worker[p].pc # "idle" => worker[p].task \in Tasks
    /\ \A k \in Commands : resched[k].pc = "send" => resched[k].cur \in Tasks

(* Workers have just registered: register_node creates them offline.       *)
Init ==
    /\ db = [t \in Tasks |-> NoRow]
    /\ snap = [t \in Tasks |-> NoRow]
    /\ dispatching = {}
    /\ queue = [m \in Messages |-> 0]
    /\ worker = [p \in Workers |-> Idle]
    /\ alive = [n \in Nodes |-> TRUE]
    /\ node = [n \in Nodes |-> "offline"]
    /\ resched = [k \in Commands |-> NoResched]

-----------------------------------------------------------------------------
(* The node table.  Time is abstracted: a machine that is down may be      *)
(* found stale at any moment, one that is up reports again at any moment.  *)

Heartbeat(n) ==
    /\ alive[n]
    /\ node[n] = "offline"
    /\ node' = [node EXCEPT ![n] = "online"]
    /\ UNCHANGED <<taskVars, brokerVars, worker, alive, resched>>

(* The nodes mark_offline_if_stale may find stale now: machines that are   *)
(* down, and ones whose heartbeat thread logged an error twice in a row.   *)
StaleSets ==
    SUBSET {n \in Nodes : /\ node[n] = "online"
                          /\ ~alive[n] \/ "late_heartbeat" \in Env}

MarkStale(S) == node' = [n \in Nodes |-> IF n \in S THEN "offline" ELSE node[n]]

(* The nodes_check command.                                                *)
NodesCheck ==
    /\ \E S \in StaleSets \ {{}} : MarkStale(S)
    /\ UNCHANGED <<taskVars, brokerVars, worker, alive, resched>>

(* An administrator takes a node offline, whether or not it still works:   *)
(* its pool keeps consuming, and its next heartbeat brings it back.        *)
AdminOffline(n) ==
    /\ "admin_offline" \in Env
    /\ node[n] = "online"
    /\ node' = [node EXCEPT ![n] = "offline"]
    /\ UNCHANGED <<taskVars, brokerVars, worker, alive, resched>>

-----------------------------------------------------------------------------
(* Requests to the task API.                                               *)

(* The worker_id select_node may lead to: an online node (which one is a   *)
(* matter of load), or none when there is none.                            *)
SelectNode(state) ==
    LET online == {n \in Nodes : state[n] = "online"} IN
    IF online = {} THEN {NoNode} ELSE online

(* _dispatch_task up to the commit of the row: failure detection, choice   *)
(* of an online node if there is one, INSERT.  The three are one action:   *)
(* nobody knows the id before the INSERT, so a step of another actor       *)
(* between them might as well come before the first or after the last; if  *)
(* it takes the chosen node offline, after.                                *)
Dispatch(t) ==
    /\ db[t].status = "none"
    /\ \E S \in StaleSets :
          /\ MarkStale(S)
          /\ \E n \in SelectNode(node') :
                db' = [db EXCEPT ![t] = [NoRow EXCEPT !.status = "pending",
                                                      !.worker = n]]
    /\ dispatching' = dispatching \cup {t}
    /\ UNCHANGED <<snap, queue, worker, alive, resched>>

Create(t) == Dispatch(t)

(* Retrying a terminal task dispatches a copy under a new id.              *)
RetryTask(o, t) ==
    /\ "retry" \in Env
    /\ db[o].status \in Terminal
    /\ Dispatch(t)

(* apply_async, after the commit.                                          *)
Enqueue(t) ==
    /\ t \in dispatching
    /\ dispatching' = dispatching \ {t}
    /\ Publish(t, 0)
    /\ UNCHANGED <<taskVars, worker, nodeVars, resched>>

(* The broker refuses the message, or the web process dies first.          *)
EnqueueFails(t) ==
    /\ "broker" \in Env
    /\ t \in dispatching
    /\ dispatching' = dispatching \ {t}
    /\ UNCHANGED <<taskVars, queue, worker, nodeVars, resched>>

(* POST status: transit under the row lock, then the two time stamps.      *)
UpdateStatus(t, s) ==
    /\ "status" \in Env
    /\ Accepts(t, s)
    /\ db' = [db EXCEPT ![t].status = s,
                        ![t].started = @ \/ s = "running",
                        ![t].finished = @ \/ s \in {"success", "failed", "timeout"}]
    /\ UNCHANGED <<snap, brokerVars, worker, nodeVars, resched>>

(* POST cancel: a running task is only marked, once.                       *)
CancelRunning(t) ==
    /\ "cancel" \in Env
    /\ db[t].status = "running"
    /\ ~db[t].cancel
    /\ db' = [db EXCEPT ![t].cancel = TRUE]
    /\ UNCHANGED <<snap, brokerVars, worker, nodeVars, resched>>

(* POST cancel on any other status goes through transit().                 *)
CancelQueued(t) ==
    /\ "cancel" \in Env
    /\ db[t].status # "running"
    /\ Accepts(t, "cancelled")
    /\ db' = [db EXCEPT ![t] = Finished(@, "cancelled")]
    /\ UNCHANGED <<snap, brokerVars, worker, nodeVars, resched>>

Destroy(t) ==
    /\ "destroy" \in Env
    /\ Exists(t)
    /\ db' = [db EXCEPT ![t] = [NoRow EXCEPT !.status = "deleted"]]
    /\ UNCHANGED <<snap, brokerVars, worker, nodeVars, resched>>

(* PUT and PATCH read the object without a lock ...                        *)
PatchRead(t) ==
    /\ "patch" \in Env
    /\ Exists(t)
    /\ snap[t] = NoRow
    /\ snap' = [snap EXCEPT ![t] = db[t]]
    /\ UNCHANGED <<db, brokerVars, worker, nodeVars, resched>>

(* ... and save every column of it, inserting the row if it is gone.       *)
PatchSave(t) ==
    /\ snap[t] # NoRow
    /\ db' = [db EXCEPT ![t] = snap[t]]
    /\ snap' = [snap EXCEPT ![t] = NoRow]
    /\ UNCHANGED <<brokerVars, worker, nodeVars, resched>>

-----------------------------------------------------------------------------
(* The broker.                                                             *)

DuplicateMessage(m) ==
    /\ "duplicate" \in Env
    /\ queue[m] > 0
    /\ RoomFor(m[1])
    /\ Publish(m[1], m[2])
    /\ UNCHANGED <<taskVars, dispatching, worker, nodeVars, resched>>

LoseMessage(m) ==
    /\ "broker" \in Env
    /\ queue[m] > 0
    /\ queue' = [queue EXCEPT ![m] = @ - 1]
    /\ UNCHANGED <<taskVars, dispatching, worker, nodeVars, resched>>

-----------------------------------------------------------------------------
(* execute_task, on process p.                                             *)

(* The message is acknowledged before the body runs (no acks_late).        *)
Receive(p, m) ==
    /\ alive[NodeOf[p]]
    /\ worker[p].pc = "idle"
    /\ queue[m] > 0
    /\ queue' = [queue EXCEPT ![m] = @ - 1]
    /\ worker' = [worker EXCEPT ![p] = [Idle EXCEPT !.pc = "got",
                                          !.task = m[1], !.retries = m[2]]]
    /\ UNCHANGED <<taskVars, dispatching, nodeVars, resched>>

(* The rows the conditional UPDATE takes, and what it makes of them.  The  *)
(* second forms take any row there is, and forget started_at.              *)
ClaimableIfThere(t) == Exists(t)
Claimable(t) == db[t].status = "pending"
ClaimedUnstamped(row) == [row EXCEPT !.status = "running"]
Claimed(row) == [row EXCEPT !.status = "running", !.started = TRUE]

Claim(p) ==
    LET t == worker[p].task IN
    /\ worker[p].pc = "got"
    /\ Claimable(t)
    /\ db' = [db EXCEPT ![t] = Claimed(@)]
    /\ Goto(p, "claimed")
    /\ UNCHANGED <<snap, brokerVars, nodeVars, resched>>

(* No row, or not pending any more: the message is dropped.                *)
Skip(p) ==
    /\ worker[p].pc = "got"
    /\ ~Claimable(worker[p].task)
    /\ Release(p)
    /\ UNCHANGED <<taskVars, brokerVars, nodeVars, resched>>

(* refresh_from_db reads whatever the row says by now.  It runs before the *)
(* try block: with the row gone, the exception ends the Celery task.       *)
Refresh(p) ==
    LET t == worker[p].task IN
    /\ worker[p].pc = "claimed"
    /\ IF Exists(t)
         THEN worker' = [worker EXCEPT ![p].pc = "running",
                                       ![p].mem = db[t].status]
         ELSE Release(p)
    /\ UNCHANGED <<taskVars, brokerVars, nodeVars, resched>>

(* What a result of the sandbox is saved as.  The second form saves the    *)
(* word of the executor.                                                   *)
ResultStatusRaw(result) == result
ResultStatus(result) ==
    CASE result = "cancelled" -> "cancelled"
      [] result = "timed_out" -> "timeout"
      [] result = "success" -> "success"
      [] OTHER -> "failed"

SandboxAnswers(p, result) ==
    worker' = [worker EXCEPT ![p].pc = "returned", ![p].out = ResultStatus(result)]

(* The container ends by itself or is killed at its deadline.              *)
SandboxReturns(p) ==
    /\ worker[p].pc = "running"
    /\ \E result \in {"timed_out", "oom", "success", "error"} :
          SandboxAnswers(p, result)
    /\ UNCHANGED <<taskVars, brokerVars, nodeVars, resched>>

(* _cancel_requested; a query that fails counts as no.  In the second form *)
(* it counts as yes.                                                       *)
CancelMarkedOrUnknown(t) == "db" \in Env \/ (Exists(t) /\ db[t].cancel)
CancelMarked(t) == Exists(t) /\ db[t].cancel

(* The poll finds the cancel marker on the row: the container is killed.   *)
CancelPoll(p) ==
    /\ worker[p].pc = "running"
    /\ CancelMarked(worker[p].task)
    /\ SandboxAnswers(p, "cancelled")
    /\ UNCHANGED <<taskVars, brokerVars, nodeVars, resched>>

(* transit() on the object in memory, then a save that looks at nothing    *)
(* but the primary key.                                                    *)
SaveResult(p) ==
    LET t == worker[p].task IN
    /\ worker[p].pc = "returned"
    /\ IF worker[p].out \in Transit(worker[p].mem) /\ Exists(t)
         THEN /\ db' = [db EXCEPT ![t] = Finished(@, worker[p].out)]
              /\ Goto(p, "indexing")
         ELSE /\ Goto(p, "exc")
              /\ UNCHANGED db
    /\ UNCHANGED <<snap, brokerVars, nodeVars, resched>>

(* index_task_log swallows its errors; the task is done.                   *)
IndexLog(p) ==
    /\ worker[p].pc = "indexing"
    /\ Release(p)
    /\ UNCHANGED <<taskVars, brokerVars, nodeVars, resched>>

(* Anything but a Docker API error propagates out of the executor.         *)
SandboxRaises(p) ==
    /\ "infra" \in Env
    /\ worker[p].pc = "running"
    /\ Goto(p, "exc")
    /\ UNCHANGED <<taskVars, brokerVars, nodeVars, resched>>

(* What the handler of SoftTimeLimitExceeded, and the one of any other     *)
(* exception, make of the task, and where they end.                        *)
Verdict(p) == IF worker[p].pc \in {"soft", "softsave"} THEN "timeout" ELSE "failed"
LeaveHandler(p) ==
    IF worker[p].pc \in {"soft", "softsave"} THEN Release(p) ELSE Goto(p, "retry")

(* A handler reads the row again and moves on to its save only if          *)
(* transit() agrees; every error in it is logged and swallowed.            *)
HandlerRead(p) ==
    /\ worker[p].pc \in {"soft", "exc"}
    /\ IF Accepts(worker[p].task, Verdict(p))
         THEN Goto(p, IF worker[p].pc = "soft" THEN "softsave" ELSE "excsave")
         ELSE LeaveHandler(p)
    /\ UNCHANGED <<taskVars, brokerVars, nodeVars, resched>>

HandlerSave(p) ==
    LET t == worker[p].task IN
    /\ worker[p].pc \in {"softsave", "excsave"}
    /\ db' = IF Exists(t) THEN [db EXCEPT ![t] = Finished(@, Verdict(p))] ELSE db
    /\ LeaveHandler(p)
    /\ UNCHANGED <<snap, brokerVars, nodeVars, resched>>

(* SoftTimeLimitExceeded is raised once, wherever the process is.  In the  *)
(* try block its handler takes over.  Before it (tasks.py:43-64), or in    *)
(* the other handler but outside its inner try, it ends the Celery task;   *)
(* inside the inner try (tasks.py:136-144) it is logged and swallowed.     *)
SoftLimit(p) ==
    /\ \/ "soft_limit" \in Env
          /\ worker[p].pc \in {"running", "returned", "indexing"}
          /\ Goto(p, "soft")
       \/ "soft_limit_outside" \in Env
          /\ \/ worker[p].pc \in {"got", "claimed", "exc", "retry"} /\ Release(p)
             \/ worker[p].pc \in {"exc", "excsave"} /\ LeaveHandler(p)
    /\ UNCHANGED <<taskVars, brokerVars, nodeVars, resched>>

(* self.retry sends the same task again until max_retries.                 *)
Retry(p) ==
    LET w == worker[p] IN
    /\ w.pc = "retry"
    /\ IF w.retries < MaxRetries THEN Publish(w.task, w.retries + 1)
                                 ELSE UNCHANGED queue
    /\ Release(p)
    /\ UNCHANGED <<taskVars, dispatching, nodeVars, resched>>

RetryFails(p) ==
    /\ "broker" \in Env
    /\ worker[p].pc = "retry"
    /\ Release(p)
    /\ UNCHANGED <<taskVars, brokerVars, nodeVars, resched>>

(* The database refuses the next statement of p.  Before the try block the *)
(* exception ends the Celery task; inside it the handler takes over; the   *)
(* handlers swallow it.                                                    *)
DbFault(p) ==
    /\ "db" \in Env
    /\ \/ worker[p].pc \in {"got", "claimed"} /\ Release(p)
       \/ worker[p].pc = "returned" /\ Goto(p, "exc")
       \/ worker[p].pc \in {"soft", "softsave", "exc", "excsave"} /\ LeaveHandler(p)
    /\ UNCHANGED <<taskVars, brokerVars, nodeVars, resched>>

(* time_limit: the pool kills the process and starts another.              *)
HardLimit(p) ==
    /\ "hard_limit" \in Env
    /\ worker[p].pc # "idle"
    /\ Release(p)
    /\ UNCHANGED <<taskVars, brokerVars, nodeVars, resched>>

(* A machine stops with everything its processes hold, and comes back.     *)
NodeCrash(n) ==
    /\ "node_crash" \in Env
    /\ alive[n]
    /\ alive' = [alive EXCEPT ![n] = FALSE]
    /\ worker' = [p \in Workers |-> IF NodeOf[p] = n THEN Idle ELSE worker[p]]
    /\ UNCHANGED <<taskVars, brokerVars, node, resched>>

NodeRestart(n) ==
    /\ "node_restart" \in Env
    /\ ~alive[n]
    /\ alive' = [alive EXCEPT ![n] = TRUE]
    /\ UNCHANGED <<taskVars, brokerVars, worker, node, resched>>

-----------------------------------------------------------------------------
(* The reschedule_tasks command.                                           *)

(* Failure detection, then the names of the offline nodes.  The command    *)
(* takes no lock: its invocations overlap.                                 *)
ReschedDetect(k) ==
    /\ "reschedule" \in Env
    /\ resched[k].pc = "idle"
    /\ \E S \in StaleSets :
          /\ MarkStale(S)
          /\ resched' = [resched EXCEPT ![k] = [NoResched EXCEPT !.pc = "query",
                            !.offline = {n \in Nodes : node'[n] = "offline"}]]
    /\ UNCHANGED <<taskVars, brokerVars, worker, alive>>

(* The stuck tasks, read once, before the loop.                            *)
ReschedQuery(k) ==
    LET stuck == {t \in Tasks : /\ db[t].status = "running"
                                /\ db[t].worker \in resched[k].offline} IN
    /\ resched[k].pc = "query"
    /\ resched' = [resched EXCEPT ![k] =
                      IF stuck = {} THEN NoResched
                      ELSE [NoResched EXCEPT !.pc = "loop", !.todo = stuck]]
    /\ UNCHANGED <<taskVars, brokerVars, worker, nodeVars>>

(* The row as the loop saves it, and the command once it has.  The second  *)
(* forms keep worker_id, and forget the message.                           *)
ResetRowInPlace(row) == [row EXCEPT !.status = "pending"]
ResetRow(row) == [row EXCEPT !.status = "pending", !.worker = NoNode]
AfterResetUnsent(c, t) == NoResched
AfterReset(c, t) == [c EXCEPT !.pc = "send", !.cur = t, !.todo = @ \ {t}]

(* One turn of the loop saves the row of t, by its primary key and         *)
(* whatever it has become; a row that is gone ends the command with        *)
(* DatabaseError.                                                          *)
Reset(k, t) ==
    /\ resched[k].pc = "loop"
    /\ t \in resched[k].todo
    /\ RoomFor(t)
    /\ IF Exists(t)
         THEN /\ db' = [db EXCEPT ![t] = ResetRow(@)]
              /\ resched' = [resched EXCEPT ![k] = AfterReset(@, t)]
         ELSE /\ resched' = [resched EXCEPT ![k] = NoResched]
              /\ UNCHANGED db
    /\ UNCHANGED <<snap, brokerVars, worker, nodeVars>>

(* execute_task.delay, and the next turn.                                  *)
ReschedSend(k) ==
    /\ resched[k].pc = "send"
    /\ Publish(resched[k].cur, 0)
    /\ resched' = [resched EXCEPT ![k] =
                      IF @.todo = {} THEN NoResched
                      ELSE [@ EXCEPT !.pc = "loop", !.cur = NoTask]]
    /\ UNCHANGED <<taskVars, dispatching, worker, nodeVars>>

(* The command ends in the middle: its broker or its database fails.       *)
ReschedAbort(k) ==
    /\ \/ "broker" \in Env /\ resched[k].pc = "send"
       \/ "db" \in Env /\ resched[k].pc \in {"query", "loop"}
    /\ resched' = [resched EXCEPT ![k] = NoResched]
    /\ UNCHANGED <<taskVars, brokerVars, worker, nodeVars>>

-----------------------------------------------------------------------------
Web(t) ==
    \/ Create(t) \/ Enqueue(t) \/ EnqueueFails(t)
    \/ CancelRunning(t) \/ CancelQueued(t) \/ Destroy(t)
    \/ PatchRead(t) \/ PatchSave(t)
    \/ \E o \in Tasks : RetryTask(o, t)
    \/ \E s \in Status : UpdateStatus(t, s)

Broker == \E m \in Messages : DuplicateMessage(m) \/ LoseMessage(m)

(* What p does by itself, with a message in hand.                          *)
Execute(p) ==
    \/ Claim(p) \/ Skip(p) \/ Refresh(p)
    \/ SandboxReturns(p) \/ CancelPoll(p) \/ SandboxRaises(p)
    \/ SaveResult(p) \/ IndexLog(p)
    \/ HandlerRead(p) \/ HandlerSave(p) \/ Retry(p)

Interrupt(p) == SoftLimit(p) \/ RetryFails(p) \/ DbFault(p) \/ HardLimit(p)

Node(n) == Heartbeat(n) \/ AdminOffline(n) \/ NodeCrash(n) \/ NodeRestart(n)

(* What an invocation of the command does once it has started.             *)
Proceed(k) == ReschedQuery(k) \/ ReschedSend(k) \/ \E t \in Tasks : Reset(k, t)

Reschedule == \E k \in Commands : ReschedDetect(k) \/ Proceed(k) \/ ReschedAbort(k)

Next ==
    \/ \E t \in Tasks : Web(t)
    \/ Broker
    \/ \E p \in Workers : Execute(p) \/ Interrupt(p) \/ \E m \in Messages : Receive(p, m)
    \/ NodesCheck
    \/ \E n \in Nodes : Node(n)
    \/ Reschedule

Spec == Init /\ [][Next]_vars

(* An idle process takes messages, and a request, a command or an          *)
(* execute_task that has started takes its next step.  Whether a sandbox   *)
(* call returns is not promised here: the properties that need it say so.  *)
Fairness ==
    /\ \A t \in Tasks : WF_vars(Enqueue(t)) /\ WF_vars(PatchSave(t))
    /\ \A p \in Workers : /\ WF_vars(Execute(p) /\ worker[p].pc # "running")
                          /\ WF_vars(\E m \in Messages : Receive(p, m))
    /\ \A k \in Commands : WF_vars(Proceed(k))

LiveSpec == Spec /\ Fairness

(* In addition, machines that are up report, the ones that are down are    *)
(* found out, and the failover command is run again and again.             *)
FailoverSpec ==
    /\ LiveSpec
    /\ \A n \in Nodes : WF_vars(Heartbeat(n))
    /\ WF_vars(NodesCheck /\ \A n \in Nodes : ~alive[n] => node'[n] = "offline")
    /\ \A k \in Commands : WF_vars(ReschedDetect(k))

-----------------------------------------------------------------------------
(* Safety.                                                                 *)

(* At no time do two processes work on the same task (tasks.py:49-51):     *)
(* duplicated messages, retries, crashes and faults notwithstanding.       *)
SingleExecution ==
    \A t \in Tasks : \A p, q \in Executors(t) : p = q

(* A task whose execution has started is never claimed again: user code    *)
(* runs at most once, also after a failed save, a crash or a retry.        *)
ExecutedAtMostOnce ==
    [][\A p \in Workers :
          worker[p].pc = "got" /\ worker'[p].pc = "claimed"
              => ~db[worker[p].task].started]_vars

(* Somebody will bring t to a worker: a message, a worker about to claim   *)
(* it, or a sender about to send one.                                      *)
Carried(t) ==
    \/ t \in dispatching
    \/ Queued(t)
    \/ \E p \in Workers : worker[p].pc = "got" /\ worker[p].task = t
    \/ \E k \in Commands : resched[k].pc = "send" /\ resched[k].cur = t

(* A pending row is never forgotten (views.py:49, reschedule_tasks.py:41): *)
(* create, claim, skip, retry and failover between them always leave it a  *)
(* message, or somebody who holds or will send one.                        *)
PendingHasMessage == \A t \in Tasks : db[t].status = "pending" => Carried(t)

(* A pending row that nobody will bring to a worker, and the steps that    *)
(* may drop what t waits for: the request between its commit and its       *)
(* message, the failover command between its save and its message, a       *)
(* broker that forgets, a worker that a fault, a limit or a crash stops    *)
(* with an acknowledged message in hand, and a PATCH that puts an old row  *)
(* back.                                                                   *)
Orphan(t) == db[t].status = "pending" /\ ~Carried(t)

Drops(t) ==
    \/ EnqueueFails(t) \/ PatchSave(t)
    \/ \E k \in Commands : resched[k].cur = t /\ ReschedAbort(k)
    \/ \E r \in 0 .. MaxRetries : LoseMessage(<<t, r>>)
    \/ \E p \in Workers : /\ worker[p].pc = "got" /\ worker[p].task = t
                          /\ \/ DbFault(p) \/ SoftLimit(p) \/ HardLimit(p)
                             \/ NodeCrash(NodeOf[p])

(* Whatever requests and faults there are, only these steps orphan a task  *)
(* (views.py:49, reschedule_tasks.py:41): every other step of every actor  *)
(* passes on what it takes, and the steps of execute_task always do.       *)
OrphanedByFault ==
    [][\A t \in Tasks : ~Orphan(t) /\ Orphan(t)'
          => Drops(t) /\ \A p \in Workers : ~Execute(p)]_vars

(* A running row always has a process that will still write its outcome,   *)
(* as long as nothing cuts execute_task short outside its try block: no    *)
(* path from there through the handlers forgets one.                       *)
RunningHasExecutor ==
    \A t \in Tasks : db[t].status = "running" =>
        \E p \in Executors(t) : worker[p].pc \notin {"indexing", "retry"}

(* A running row whose outcome nobody will write, and the steps that may   *)
(* leave t so: the two requests that make a row running without a worker,  *)
(* and what stops a worker before its save.  A database that fails after   *)
(* the sandbox has answered, and a soft limit in the try block, are not    *)
(* among them: a handler takes over.  A soft limit before the try block,   *)
(* or in a handler, which swallows it, is.                                 *)
Abandoned(t) ==
    /\ db[t].status = "running"
    /\ ~\E p \in Executors(t) : worker[p].pc \notin {"indexing", "retry"}

Abandons(t) ==
    \/ UpdateStatus(t, "running") \/ PatchSave(t)
    \/ \E p \in Executors(t) : \/ HardLimit(p) \/ NodeCrash(NodeOf[p])
                               \/ worker[p].pc # "returned" /\ DbFault(p)
                               \/ /\ worker[p].pc \in {"claimed", "exc", "excsave"}
                                  /\ SoftLimit(p)

(* Whatever requests and faults there are, only these steps leave a        *)
(* running row without a writer (tasks.py:33, 119-144): no cancel, sandbox *)
(* error, soft limit in the try block, failover or second worker does, nor *)
(* any step of execute_task itself.                                        *)
AbandonedByFault ==
    [][\A t \in Tasks : ~Abandoned(t) /\ Abandoned(t)'
          => Abandons(t) /\ \A p \in Workers : ~Execute(p)]_vars

(* The time stamps say what the status says: a queued row has none, a      *)
(* finished run has both, so that Task.duration is defined.                *)
TimestampsAgree ==
    \A t \in Tasks :
        /\ db[t].status = "pending" => ~db[t].started /\ ~db[t].finished
        /\ db[t].status = "running" => db[t].started /\ ~db[t].finished
        /\ db[t].status \in {"success", "failed", "timeout"}
              => db[t].started /\ db[t].finished

(* A task that has started ends up cancelled only if its user asked.       *)
CancelledOnRequest ==
    \A t \in Tasks :
        db[t].status = "cancelled" /\ db[t].started => db[t].cancel

(* Reset clears worker_id, so that no later invocation of the command      *)
(* finds the task again; only the ones that have already listed it reset   *)
(* it, each once (reschedule_tasks.py:28-37).  Nothing else tells them     *)
(* apart: the processes at work on a task, the invocations that will still *)
(* reset it and its pending row count together at most one more than the   *)
(* invocations that overlap.  Two overlapping ones do bring three          *)
(* processes to work on one task.                                          *)
Resetters(t) == {k \in Commands : t \in resched[k].todo}

ExecutorsBounded ==
    \A t \in Tasks :
        Cardinality(Executors(t)) + Cardinality(Resetters(t))
            + (IF db[t].status = "pending" THEN 1 ELSE 0) <= Cardinality(Commands) + 1

(* Only a save of columns read earlier can leave a terminal status: that   *)
(* of a PATCH, of the failover command or of a worker.  The row locks of   *)
(* update_status and cancel (views.py:126-127, 160-161) and the            *)
(* conditional UPDATE of the workers never do, whatever else happens.      *)
OnlyStaleSavesLeaveTerminal ==
    [][\A t \in Tasks :
          db[t].status \in Terminal /\ db'[t].status \notin {db[t].status, "deleted"} =>
             \/ snap[t] # NoRow /\ db'[t] = snap[t] /\ snap'[t] = NoRow
             \/ \E k \in Commands : t \in resched[k].todo /\ resched'[k].cur = t
             \/ \E p \in Executors(t) :
                    /\ worker[p].pc \in {"returned", "softsave", "excsave"}
                    /\ worker'[p].pc # worker[p].pc]_vars

(* A terminal status is never left (models.py:105-108), except by deleting *)
(* the row.                                                                *)
TerminalIsFinal ==
    [][\A t \in Tasks : db[t].status \in Terminal
          => db'[t].status \in {db[t].status, "deleted"}]_vars

(* The table of tasks, with the processes at work on each, implements the  *)
(* abstract life cycle.                                                    *)
Life == INSTANCE TaskLifecycle
            WITH status <- [t \in Tasks |-> db[t].status],
                 executors <- [t \in Tasks |-> Executors(t)]

ImplementsLifecycle == Life!LifeSpec

-----------------------------------------------------------------------------
(* Liveness.                                                               *)

(* Every task that is queued gets an outcome, or is deleted, unless some   *)
(* sandbox call never returns (Sandbox!HangsOnlyInWait says when).         *)
EveryTaskSettles ==
    (\A p \in Workers : []<>(worker[p].pc # "running")) =>
        \A t \in Tasks : db[t].status = "pending"
            ~> db[t].status \in Terminal \cup {"deleted"}

(* A running task whose process died with its machine is picked up by the  *)
(* failover command, or otherwise settled.                                 *)
FailoverRecovers ==
    \A t \in Tasks : db[t].status = "running" /\ Executors(t) = {}
        ~> db[t].status # "running"

(* An infrastructure error that leaves retries makes the task run again.   *)
RetryRunsAgain ==
    \A t \in Tasks :
        (\E p \in Workers : /\ worker[p].pc = "retry" /\ worker[p].task = t
                            /\ worker[p].retries < MaxRetries)
            ~> \E p \in Workers : worker[p].pc = "running" /\ worker[p].task = t
=============================================================================
