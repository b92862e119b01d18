# TaskGrid in TLA+

TaskGrid lets users submit Python code, runs it in one-shot Docker containers on a cluster of Celery workers, and keeps
the outcome in a PostgreSQL table and an Elasticsearch index. This directory is its verification project: TLA+ modules
translated from the source, TLC configurations that check them on small instances, and theorems about them that TLAPS
checks for every value of the constants. Paths and line numbers refer to the repository's `src/`.

## 1. Inventory

| Component | Source | State | Operations |
|---|---|---|---|
| Task status machine | `apps/tasks/models.py` | the status column | `transit()` and its table |
| Task API | `apps/tasks/views.py`, `serializers.py` | the task table: status, `worker_id`, `cancel_requested_at`, `started_at`, `finished_at` | create, retry, status, cancel, PUT/PATCH, DELETE |
| Task execution | `apps/tasks/tasks.py` | the task object a process holds, its retry count, its two time limits | `execute_task`, both exception handlers, `self.retry` |
| Broker | `config/celery.py`, Redis | messages in four queues | `apply_async`, `delay`, delivery |
| Node table, failure detection | `apps/nodes/services.py`, `views.py`, `celery_events.py`, `nodes_check.py` | node status, last heartbeat, load | register, heartbeat, mark stale, mark offline by hand, select |
| Failover command | `apps/nodes/management/commands/reschedule_tasks.py` | for each invocation the list it read, its place in the loop | detect, query, reset row by row, send |
| Docker sandbox | `apps/sandbox/executor.py` | containers, image, deadline, handle | `execute()` |
| Cleanup | `apps/tasks/management/commands/cleanup_old_tasks.py` | the list of ids it read | batched delete of rows and logs |
| Log index | `apps/logs/services.py`, `views.py` | one document per execution | index, delete, search |
| Users, permissions | `apps/users` | accounts, tokens | register, login, refresh, role checks |
| Web page | `templates/index.html` | two tokens in `localStorage`, the user of each tab | `api()` with its renewal, login, register, logout, `init` |

How they interact. A create or retry request runs `_dispatch_task`: it marks stale nodes, picks an online node, inserts the
row and, after the commit, sends a message. Any process of any machine may take the message - the node that was picked is
only written to `worker_id`. The process acknowledges the message, takes the row with a conditional UPDATE, reads it again,
runs the sandbox (which polls the cancel marker in the row) and saves the outcome without looking at the row again. The
failover command puts running rows whose `worker_id` names an offline node back to pending and sends a message. The web
endpoints `status` and `cancel` lock the row; PUT and PATCH do not, and save every column of what they read. After the
outcome is saved the process writes a document to Elasticsearch, from the object it holds; the cleanup deletes old rows and
then their documents. Every worker has a thread that reports to the node table. The web page calls the API with an access
token and renews its pair of tokens when a call is answered 401.

Hard behaviours, and what makes each component correct:

* *Task API* - two kinds of writers, locked and unlocked, to one row; commit and message are two steps. Correct if no
  pending row is ever without a message, and a terminal status stays.
* *Task execution* - duplicated messages, retries, two time limits, faults between any two statements, an outcome saved
  from an old reading. Correct if a task is executed by one process and once, every claimed row gets an outcome, and the
  time stamps and the cancel marker agree with the status.
* *Failover* - acts on what it read, beside processes that are alive and other invocations of itself, without a lock.
  Correct if it takes tasks from dead machines only, misses none, and does not multiply the processes at work on one.
* *Nodes* - detection by time, a SELECT and an UPDATE, heartbeats between them. Correct if a healthy node is not taken
  offline and a dead one is.
* *Sandbox* - deadline, cancellation, soft and hard limit race the program's own end, any Docker request may fail or hang.
  Correct if the answer is true of the program, a call ends, and nothing is left behind.
* *Cleanup and log index* - a list of ids read once, rows that change under it, documents written after the row is final.
  Correct if no unfinished task is deleted, everything old goes, and a document agrees with the row of its task.
* *Web page* - calls of several tabs that find the access token expired at once, and answers that arrive after the tokens
  have changed, by a login too. Correct if a user who has signed in stays so until he logs out or the refresh token expires.

`PROJECT.json` lists the components with their status and every hazard at its line.

## 2. Modules

| Module | What it is |
|---|---|
| `TaskStatus` | statuses and the table of `transit()`; no state |
| `TaskLifecycle` | abstract: the status of each task and the processes at work on it |
| `TaskAttempts` | abstract: what is left of `TaskLifecycle` when the failover command runs beside live workers |
| `TaskGrid` | task API, broker, `execute_task`, node table and failover command, composed; implements `TaskLifecycle` |
| `SandboxPromise` | abstract: what a call of the sandbox promises its caller |
| `Sandbox` | `SandboxExecutor.execute`, Docker request by Docker request; implements `SandboxPromise` |
| `FailureDetector` | abstract: which nodes a reader of the node table may find online |
| `NodeHeartbeat` | heartbeat threads, node table and failure detection over time; implements `FailureDetector` |
| `TaskRecords` | extends `TaskGrid` by error messages, the log index and the cleanup; implements `TaskAttempts` |
| `WebSession` | the tokens and calls of the web page |
| `MCTaskGrid`, `MCSandbox`, `MCNodeHeartbeat`, `MCTaskRecords`, `MCWebSession` | instances for TLC |
| `TaskGridProofs`, `LifecycleProofs`, `OutcomeProofs`, `ExecutorProofs` | theorems about `TaskGrid` |
| `SandboxProofs`, `HeartbeatProofs`, `RecordsProofs`, `SessionProofs` | theorems about the other components |

### TaskGrid

One action is one database statement, one broker operation or one wait for the sandbox, so that every other actor may run
between any two of them. `Dispatch` alone joins three: the failure detection, the choice of a node and the INSERT. Nobody
knows the id of the task before the INSERT, which depends on the other two only by the name of the node: a step of another
actor between them might as well come before the first of them or, if it takes the chosen node offline, after the last.
(`NodeHeartbeat` has detection and choice apart, for what depends on their distance.) The state:

* `db[t]` - the row: status, `worker_id`, and whether the three time stamps are set. `none` is a row not inserted yet,
  `deleted` one that is gone. `snap[t]` - what a PUT/PATCH request has read and not yet saved (one such request per task at
  a time).
* `dispatching` - rows committed whose message is not sent; `queue[<<t, r>>]` - how many copies of the message with retry
  count r wait. The four queues are one unordered bag: any message may be delivered next.
* `worker[p]` - a pool process: where it is in `execute_task` (`pc`), its message, the status of its task object (`mem`) and
  the status its result will be saved as (`out`).
* `alive[n]`, `node[n]` - whether a machine runs, and its status column.
* `resched[k]` - an invocation of the failover command: its place, the offline nodes it read, the tasks it has listed and
  not yet reset (`todo`), the one whose message it is about to send. `Commands` are the invocations that may overlap.

| Actions | Code |
|---|---|
| `Dispatch`, `Create`, `RetryTask`, `Enqueue`, `EnqueueFails` | `views.py:32-50`, `97-112`, `188-208` |
| `UpdateStatus`, `CancelRunning`, `CancelQueued`, `Destroy` | `views.py:120-186` and the inherited `destroy` |
| `PatchRead`, `PatchSave` | the inherited `update`, with `TaskSerializer` |
| `Receive`, `Claim`, `Skip`, `Refresh` | `tasks.py:43-64`, early acknowledgement |
| `SandboxReturns`, `CancelPoll`, `SandboxRaises`, `SaveResult`, `IndexLog` | `tasks.py:69-117` |
| `SoftLimit`, `HandlerRead`, `HandlerSave`, `Retry`, `RetryFails` | `tasks.py:119-149` |
| `DbFault`, `HardLimit`, `NodeCrash`, `NodeRestart`, `DuplicateMessage`, `LoseMessage` | faults |
| `Heartbeat`, `NodesCheck`, `AdminOffline` | `services.py:37-70`, `nodes_check.py`, `nodes/views.py:18-23` |
| `ReschedDetect`, `ReschedQuery`, `Reset`, `ReschedSend`, `ReschedAbort` | `reschedule_tasks.py:21-46` |

`Env` names the requests and faults an instance allows; creating tasks, delivering messages and executing them is always
allowed. Abstracted: code, output and error texts, load figures (any online node may be picked), time (a machine that is
down may be found stale at any moment; one that is up only with `late_heartbeat`), rows' owners.

The soft limit strikes wherever the process is, and what follows depends on the place. In the try block (`soft_limit`) its
handler takes over. Outside it (`soft_limit_outside`) nobody does: before the try block (`tasks.py:43-64`) it ends the
Celery task, as it does in the other handler outside its inner try; inside that (`tasks.py:137-144`) it is logged and
swallowed, and the row stays running. The two have names of their own because the second is, for the row, what a kill is.

### Sandbox

`call[c]` is the executor's side of a call: its place, the answer it is going to give, whether the deadline is over and
whether the soft limit has been raised. `box[c]` is the container, `program[c]` the user's program in it, `marked[c]` the
cancel marker, `image` the daemon's image store and `daemon` whether it answers, refuses connections ("down") or takes
requests and stays silent ("mute"), both shared by all calls. `containers.run` is two requests, create and start, and the
executor has no handle before both are done. Errors are told apart as the code does: an `APIError` ends the try block with
an answer (`ApiError`, or is swallowed in `Kill`, `GetLogs`, `Remove`), a `ConnectionError`, or the `ReadTimeout` docker-py
raises 60 s after a request that is not answered, is taken for a program that still runs in the polling loop
(`WaitTimesOut`) and escapes everywhere else (`NoAnswer`). Two requests have no timeout, `pull` and the `container.wait()`
after a kill: against a silent daemon they hang. `SoftLimit` is raised wherever the process is, and swallowed if that is the
query inside `cancel_check` (`tasks.py:74`). `params.timeout` is not validated, so the deadline and the two limits come in
any order.

`TaskGrid` and `Sandbox` meet in `SandboxPromise`: the endings of a call there are what `SandboxReturns`, `CancelPoll`,
`SandboxRaises`, `SoftLimit` and `HardLimit` of `TaskGrid` take from the sandbox.

### NodeHeartbeat

Time advances by `Tick`; a time stamp is kept as its age. `row[n]` is the node's row, `proc[n]` the worker process and its
thread (`pc`: waiting, in `register_node`, about to save; `timer`, and the age `stamp` of the time it has taken), `check[c]`
one failure detection: the age of its threshold time and the names it has read. `steady` is a history variable.

| Actions | Code |
|---|---|
| `WorkerReady`, `WorkerReadyFails`, `WorkerShutdown`, `Exit`, `Crash` | `celery_events.py:41-56` |
| `Stopped`, `Wake`, `TakeTime`, `Save`, `ReportFails` | `celery_events.py:25-34`, `services.py:24-54` |
| `AdminOffline` | `nodes/models.py:50-53` |
| `Threshold`, `List`, `Mark`, `Select`, `CheckFails` | `services.py:57-91` |

`Mark` evaluates the condition of the query again, as the UPDATE that Django makes of `stale.update` does. `TaskGrid` has the
node table without time: a machine that is down may be found stale at any moment, one that is up only under
`late_heartbeat`; `FailureDetector`, proved of `NodeHeartbeat`, is what justifies to treat that as a fault.

### TaskRecords

It adds to the state of `TaskGrid`: `err[t]` (is `error_message` set), `obj[p]` (the task object a process holds: its
outcome and its message), `buffer` and `index` (documents Elasticsearch has accepted, and those it finds), `old` (tasks
past the cutoff), `clean[c]` (an invocation of the cleanup) and two history variables, `resets` and `stored`. `resets[t]`,
how often failover has put t back, is what `TaskAttempts` calls `revived`.

| Actions | Code |
|---|---|
| `RefreshObject`, `SaveOutcome`, `SaveVerdict`, `ResetWithMessage` | the actions of `TaskGrid` that read or write `error_message` |
| `IndexDoc`, `SoftLimitAfterIndex`, `EsRefresh` | `logs/services.py:58-75`, `tasks.py:117-130` |
| `Hits`, `OwnersFor`, `Listed` | `logs/services.py:78-119`, `logs/views.py:21-41`, `views.py:74-89` |
| `CleanCount`, `CleanList`, `CleanBatch`, `CleanLogs`, `CleanFails` | `cleanup_old_tasks.py:46-84`, `logs/services.py:136-147`, `tasks.py:152-162` |
| `Elsewhere` | all other steps of `TaskGrid`, PATCH excepted |

### WebSession

`access` and `refresh` are the items of `localStorage`, shared by all tabs; `call[c]` is one call of `api()`. Tokens are
numbered in the order the server issues them and expire in that order. Each await of `api()` separates a step of the page
from one of the server; a failed renewal calls `navigate()`, which `index.html` does not define, so that the call throws
(`Denied`). `signed` is a history variable: a login sets it, whatever other calls are under way, and the events
`StaysSignedIn` lists reset it. One of them needs to know more about those other calls: a call that asks for new tokens when
somebody signs in is marked `stale`, and if that renewal is then refused it drops the new pair (`index.html:91`). A "data"
call stands for any request of a page.

## 3. Runs

| Run | Instance | What it shows |
|---|---|---|
| `guarded` | 2 tasks, 2 processes on one machine, every fault, every request but PATCH, status and reschedule | one executor per task, at most one execution, time stamps and cancel marker agree with the status, `TaskGrid` implements `TaskLifecycle` |
| `failover` | 1 task, 2 processes, 2 failover commands that overlap, on a machine an administrator took offline | processes, commands that will still reset a task and its pending row are together at most one more than the commands, no running row without a process that will still write one, no pending row without a carrier, every task settles unless a sandbox call never returns |
| `all` | 1 task, 1 process, every request and every fault | types; only a save from an old reading leaves a terminal status; only the steps listed drop a pending task, or leave a running one without a writer |
| `sandbox` | 2 calls, every request and fault, a silent daemon included | the promise; a call hangs at one place only and for two causes only; only the listed faults leave a container behind |
| `heartbeat` | 1 node, 2 failure detections, ticks of 10 s: interval 3, limit 6, a report and a detection take at most 1 | no steady node is marked, none is marked silently, whoever selects sees fresh nodes, dead ones are found, live ones come back |
| `records` | 1 task, 2 processes, 1 cleanup, false failovers, duplicates, database and Elasticsearch faults | log and row agree, one log per execution, `log_type` tells the outcome, the cleanup deletes finished tasks and all of them, documents outlive their task by the listed steps only, `TaskRecords` implements `TaskAttempts` |
| `session` | 2 tabs, 2 calls, 4 pairs of tokens, every fault | a user who signs in, also beside a call that is renewing the pair before his, stays so but for the listed events and is not refused, every call ends |
| `claim_double_run` | failover, a crash | "keeps two workers from executing the same task" (`tasks.py:50-51`) is refuted |
| `claim_failover` | failover repeated under fairness, a crash | "stuck task found, queued again, taken over" (`docs/phase5_nodes.md:119`) is refuted |
| `claim_terminal` | PATCH | "terminal, cannot change any more" (`models.py:105`) is refuted |
| `claim_retry` | an infrastructure error | "at most three retries" (`tasks.py:28`) never run the task again |
| `claim_cleanup` | a container that does not start | "removed whether it succeeded or failed" (`executor.py:217`) is refuted |

The last five check one property each that the repository states and the code does not keep; `PROJECT.json` quotes the
statements under "findings".

**Bounds.** `MaxInFlight` bounds the messages of one task that wait or are in a worker's hand, in `DuplicateMessage` and
`Reset` only; messages the code sends by itself are never cut off. Two suffices for two processes to compete, three for a
third beside them. `MaxRetries` is 1 instead of 3: one retry already meets the row its predecessor has left. Two processes
make every race on one row. `Commands` are two in `failover`: the second resets a task that was claimed after the first had
reset it, which the bound is about. A third process would only make the bound's maximum visible; that it holds for any
number of either is a theorem. Everywhere else there is one invocation: `records` would exceed what TLC can do with two, and
the theorem `RecordsImplementAttempts` has any number of them. Two tasks are needed only where tasks share something
(processes, a crash), in `guarded`, where they are symmetric. PATCH is one request per task at a time. Ids are never drawn
twice, as uuid4. Nodes do not touch each other's rows, so `heartbeat` has one; two nodes pass as well (1.2 million states).
An age above `Oldest` exceeds every threshold and grows no further. `records` has one task because documents and rows of
different tasks meet only in the cleanup's list. In `session`, `MaxIssued` bounds the pairs of tokens; a call starts only if
the pairs it may need are left, so no call is ever cut off: four let two calls renew at once after a login.

**Environments.** Each run has the `Env` under which its properties hold, and what it leaves out is what breaks one of them:
PATCH and failover go around the conditional UPDATE (`claim_terminal`, `claim_double_run`); broker and database faults, the
hard limit, a soft limit outside the try block and crashes lose what is acknowledged early; `status` may set running a row
that nobody executes, so `guarded` and `failover` leave it out. `failover` leaves PATCH out because its stale save can put
back a pending row whose message has been used up. The user's retry makes a second task, so `failover`, which has one,
leaves it out. `failover` leaves the faults out, and of the soft limits has only those in the try block, because
`EveryTaskSettles` needs each message to be delivered and each process to come to its save; safety under faults is what
`guarded` and `all` check, where a soft limit strikes anywhere. `OrphanedByFault`, `AbandonedByFault`, `OutlivedByFault` and
`LogsOutliveTask` turn this around: they hold with the faults allowed and name the steps that do the harm. `records` leaves
the status update out for its size; with it and the hard limit `ImplementsAttempts` passes as well (2 million states).

**Deadlock** is not checked: a grid with no more tasks to create, and a call that has ended, stop.

**Fairness.** `LiveSpec` of `TaskGrid`: an idle process takes messages, a process in `execute_task` goes on (each database
call returns or fails), a request and a failover command that have started end. That a sandbox call returns is not assumed,
since `HangsOnlyInWait` says that it need not: `EveryTaskSettles` speaks of behaviours in which no process stays in the
sandbox for ever. Requests and faults need not happen. `FailoverSpec` adds that machines that are up report, stale ones are
found, and the command is started again and again (nothing in the code schedules the two commands: operators, or their cron,
do). `LiveSpec` of `Sandbox`: the process goes on, the clock reaches the deadline, Celery raises the soft limit. Programs
need not end, users need not cancel, a lost or silent daemon need not come back, and the hard limit is not relied upon.
`NodeHeartbeat`: threads run, failure detection is called again and again (every create request does), and time passes. Time
needs strong fairness: a `Tick` is disabled while a thread or a detection is overdue, again and again, but only so much can
happen within a tick. `AliveComesBack` and `DeadIsFound` except behaviours in which reports, or detections, fail for ever.
`TaskRecords`: the cleanup is a daily job of Celery Beat. `WebSession`: the server answers and the page takes up the answer;
nobody has to log in, and a user who reloads a tab for ever is excepted.

**Mutants.** Every property of a passing run is tried against a mistake of the code: a definition that no action uses
and that stands right before another of the same shape (`ClaimableIfThere` before `Claimable`, `ResetRowInPlace` before
`ResetRow`, `DeadOrNot` before `Dead`, ...) replaces it, and TLC then finds the property violated in the same run.
`PROJECT.json` lists the pairs.

## 4. Theorems

For any finite or infinite sets of tasks, machines and calls of the sandbox, any finite sets of processes and of failover
commands that overlap, any `MaxRetries` and any `MaxInFlight` (`GridAssumption` and `SandboxAssumption` only fix the kinds
of the constants):

* `TypeCorrect` - `Spec => []TypeOK`, every request and fault included.
* `OneExecutor`, `StartedOnce` - if `patch` and `reschedule` are not in `Env` (`NoBypass`), no two processes execute one
  task, and a started task is never claimed again. `SingleExecution` is not inductive: the claim tests the row, not the
  other processes. The invariant `ExecInv` adds that the row of a task somebody executes has left pending
  (`ClaimedFirst`), that a pending row has never been started (`UnstartedFirst`), and that nothing goes around the guard
  (`Quiet`). Its step is proved from what a step can do to one row (`RowStep`) and to one process (`WorkerStep`).
* `OrphansByFaultOnly` - every request and fault included: a pending row loses its last carrier (`Orphan`) only by a step
  that drops one (`Drops`: the request between commit and message, the failover command between save and message, a lost
  message, a worker stopped between its acknowledgement and its claim, a PATCH that puts an old row back). `OrphanStep` goes
  by what carries the task and who steps. The step must be none of `Execute`, too: a faulty `execute_task` that released
  its message in silence has the same effect on the state as a kill, and only this conjunct tells the two apart.
* `NeverForgotten` - if `patch`, `broker`, `db`, `soft_limit_outside`, `hard_limit` and `node_crash` are not in `Env`
  (`NoLoss`), a pending row
  always has a carrier, the failover command and all other requests included. It follows from `OrphanStep`: without these
  no step drops anything. The invariant adds that no PATCH is pending.
* `GridImplementsLifecycle` - if moreover `status` is not in `Env` (`Closed`), `Spec => ImplementsLifecycle`: every step of
  `TaskGrid` is a step or a stutter of `TaskLifecycle`. `ExecInv` does not say what a process may still find in its row:
  `LifeInv` adds that from the claim to the last save the row is running or deleted (`HoldsRow`), so a save is one of the
  outcomes the lifecycle allows. The proof goes by who steps: a claim (`ClaimStep`), a save (`OutcomeStep`), a process that
  leaves (`StopStep`), a request or a fault (`WebStep`).
* `SandboxTypeCorrect` - types of the sandbox.
* `ExecutorKeepsPromise` - `Spec => KeepsPromise`: `Sandbox` implements `SandboxPromise` under every request and fault.
  The invariant relates the container, the program and the answer to the place of the call (`CallInv`); a step of one
  call leaves the others alone (`Frame`), and either ends its call (`Last`, an `Answer` or a `Break` of the promise) or
  does not (`Quiet`, a `Launch`, `End`, `Mark` or stutter).
* `ContainersOutlivedByFault` - every request and fault included: a process leaves `execute()` with its container still
  there (`Outlived`) only if the process is killed, if `run()` fails between the container and its handle, or if the
  `finally` clause itself is refused or broken off. `DoneBy` lists the ways out of a call, `OutlivedStep` what each leaves.

* `HeartbeatProofs!TypeCorrect`, `SelectsFresh`, `MarkedIsListed`, `DetectorImplemented` - the four safety properties of
  `NodeHeartbeat`, the last one by `SlackAssumption`: interval + 2 latency <= limit. The code's 30 and 60 seconds leave 15
  for a report, and none for a report that is missed. The invariant `HInv` says that no thread is overdue (`Timers`), that the
  row of a steady node is no older than its thread's timer and one latency (`Beating`), and that what a detection would mark
  now it has listed (`Listed`): a row only gets younger, by a report, or leaves the condition for good.

* `OutcomeProofs!StampsAgree` - under `NoBypass`: users may set statuses by hand. `RowWrite` lists the ways a step writes
  a row, and `StampInv` adds to `ExecInv` that a process past its claim works on a row with `started_at` (`StampedByClaim`),
  so that an outcome written over another keeps both stamps.
* `OutcomeProofs!CancelledWhenAsked` - under `Closed`. What a process knows is older than the row it writes: `OutcomeInv`
  adds to `LifeInv` that a process which is told "cancelled" executes a row that carries the marker or is gone (`Asked`),
  since `cancel_requested_at` is never reset while nobody resets the row.
* `OutcomeProofs!AbandonedByFaultOnly` - every request and fault included: a running row loses its last writer (`Abandoned`)
  only by a step of `Abandons` (a manual status update, a PATCH, a killed process, a crash, a database fault anywhere but
  after the sandbox's answer, a soft limit before the try block or in the handler of another exception), and by none of
  `Execute`. `AbandonStep` follows one process along every path of
  `execute_task` and its handlers (`OwesExecute`, `OwesInterrupt`): it owes the outcome until the row has left running.
* `OutcomeProofs!OutcomeOwed` - if `status`, `patch`, `db`, `soft_limit_outside`, `hard_limit` and `node_crash` are not in
  `Env` (`NoAbandon`), a running row has a process that still owes its outcome, failover commands and soft limits in the try
  block included; from `AbandonStep`.
* `ExecutorProofs!LocksKeepTerminal` - every request and fault included. Only three writes skip `transit()` and look at
  nothing but the primary key (`StaleSave`); every other write to a terminal row deletes it. `StaleSaves` says the same of
  a running row, which a status update may leave as well, for the refinement below.
* `ExecutorProofs!ExecutorsStayBounded` - if `patch` is not in `Env`. A bound on a number is not inductive. `Bounded` adds
  what `worker_id` says: the reset wipes it and the command's query asks for it, so a task that still names a node was never
  reset, and only such a task gets on a list; until then its pending row and its processes are at most one. From there on
  the sum of processes, pending row and invocations that will still reset the task only falls, but for the first reset.
* `RecordsProofs!RecordsTypeCorrect`, `CleanupSafe`, `LoggedAtMostOnce`, `SearchAgrees`, `TypeTells` - the safety properties of
  `TaskRecords` under every request and fault but PATCH (`RecordsAssumption`), for any number of users, invocations and any
  batch size. The argument is about a task that failover has not reset: `RecRow` lists what a step can do to its row.
  `CleanInv` says that the ids an invocation holds were terminal when they were read and have stayed so. `Account` counts
  the documents of a task together with the processes that may still write one, and the processes at work on it, against
  the claims its row allowed: one, and one more for each reset.
  `ToldInv` says that there is no message before the outcome, that a process about to log and the documents say what the
  row says, and that once there is a document nobody is left who could save another outcome.
* `RecordsProofs!LogsOutliveTaskByFault` - under the same requests and faults: a deleted task is left with documents that no
  invocation is still to delete (`Leftover`) only by a step of `Leaves`. The invariant `KeepsIds` says that an invocation
  keeps the id of every row it may delete until it is done; `DestroyOnly` that of all other steps only the user's DELETE
  removes a row; `LeftoverStep` joins them with the steps that store a document or give one up.
* `RecordsProofs!RecordsImplementAttempts` - `RecordsSpec => ImplementsAttempts`, under every request and fault but PATCH, any
  number of cleanups included. `GridImplementsLifecycle` needs the failover command and the status update away; this one
  says what is left beside them. That a process starts beside
  at most as many others as the task was reset times, and that each invocation resets it once at most, is `Account`: resets
  and the invocations that still have the task on their list are together no more than the invocations. `AttemptInv` adds
  that the process of a task that was not reset finds its row running or deleted (`Spared`, unless statuses are set by hand).
* `SessionProofs!TypeCorrect`, `StaysSignedInHolds`, `RenewalAlwaysHelps` - the safety properties of `WebSession`. `SignedInv`
  says that while the user is signed in the stored refresh token is good, and so is every one that was sent since he signed
  in, none of which was turned down (`Safe`; a `stale` request is exempt, and ends the session if it is turned down);
  `FreshInv` that a call that is repeated carries a token issued within the lifetime (`Renewed`).

Only model-checked: liveness - `EveryTaskSettles`, `HangsOnlyInWait`, `DeadIsFound`, `AliveComesBack`, `OldTasksGo`,
`CallsEnd` - since fairness and ENABLED are beyond the prover.

## 5. Not modelled, and the plan

Not modelled: accounts and permission classes (stateless), full-text search, what the pages display, settings, the health
check, the Django admin (editing a task there saves the whole row, as `PatchSave` does), the text of results, CPU and memory
limits of containers, `scripts/search.py` (a client of an external web search). The order in which the four queues are
visited belongs to the broker library; the models assume no order.

Observed while modelling, and not the subject of a run:

* Nothing keeps two failover commands apart: both may list a row, and the second puts it back after another process has
  claimed it. With three processes all three then work on one task; `ExecutorsBounded` says that this is as far as it goes.
* A login beside a call of the session before: if that call is renewing the old pair and is refused, it drops the new pair
  (`index.html:91`), and if it is granted one, it stores that over the new pair, also when the two belong to different users.
* `container.wait()` after a kill has no timeout (`executor.py:165`, `185`): if the daemon falls silent there and the soft
  limit has been swallowed in `cancel_check`, only the hard limit is left. `HangsOnlyInWait` names both causes.

* `error_message` is written by the failover command (`reschedule_tasks.py:36`) and never cleared on success
  (`tasks.py:98-99`): a task that was reset and then succeeds shows an error and is logged with `log_type` "error"
  (`logs/services.py:34` reserves that for errors). `TypeTellsOutcome` excepts such tasks.
* `worker_shutdown` does not mark the node offline, although `nodes/models.py:51` gives that as the purpose of
  `mark_offline`; the failure detection finds it a minute later.
* The failover command sends with `delay`, so every task goes to the default queue whatever its priority; a PATCH of the
  priority does not move a message that waits.
* `select_node("round_robin")` orders by `updated_at`, which a selection does not touch.
* If a batch of the cleanup fails, the documents of the rows already deleted stay for ever; so do those of a task a user
  deletes, and those indexed less than a refresh before `delete_by_query`. `LogsOutliveTask` says that this is all.
* The outcomes of the two exception handlers are not indexed (`tasks.py:119-144`).
* The page drops the tokens when the profile cannot be loaded for whatever reason (`index.html:279`), and shows the answer
  that arrives last, not the one asked for last.

Next: the composition of `NodeHeartbeat` with `TaskGrid` (at present `TaskGrid` takes any set of nodes as stale), and
`FailoverSpec` with two nodes and a repeated crash.
