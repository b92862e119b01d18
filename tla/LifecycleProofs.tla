-------------------------- MODULE LifecycleProofs ---------------------------
(***************************************************************************)
(* TaskGrid implements TaskLifecycle when nothing writes a status but      *)
(* dispatch, cancel, delete and the workers: for any number of tasks,      *)
(* machines and processes, and under every fault.                          *)
(***************************************************************************)
EXTENDS TaskGridProofs

Closed == NoBypass /\ "status" \notin Env

(* Where a process relies on its row being the one it claimed.             *)
Holding == {"claimed", "running", "returned", "softsave", "excsave"}

HoldsRow == \A p \in Workers : worker[p].pc \in Holding
                => db[worker[p].task].status \in {"running", "deleted"}

LifeInv == ExecInv /\ HoldsRow

-----------------------------------------------------------------------------
(* Process p executes u alone, and touches no other row.                   *)
LEMMA Alone ==
  ASSUME ExecInv, NEW p \in Workers, worker[p].pc \in PastClaim
  PROVE  /\ worker[p].task \in Tasks
         /\ Executors(worker[p].task) = {p}
  BY DEF ExecInv, TypeOK, SingleExecution, Executors, Executes, PastClaim

LEMMA OwnRow ==
  ASSUME TypeOK, NEW p \in Workers, Execute(p), NEW t \in Tasks, t # worker[p].task
  PROVE  db'[t] = db[t]
  BY DEF TypeOK, Execute, Claim, Skip, Refresh, SandboxReturns, CancelPoll, SandboxRaises,
         SaveResult, IndexLog, HandlerRead, HandlerSave, Retry, taskVars

LEMMA OwnProcess ==
  ASSUME TypeOK, NEW p \in Workers, Execute(p) \/ Interrupt(p), NEW q \in Workers, q # p
  PROVE  worker'[q] = worker[q]
  <1>. worker \in [Workers -> Worker]
    BY DEF TypeOK
  <1>1. \/ \E l : Goto(p, l)
        \/ Release(p)
        \/ \E result : SandboxAnswers(p, result)
        \/ worker' = [worker EXCEPT ![p].pc = "running",
                                    ![p].mem = db[worker[p].task].status]
    BY DEF Execute, Claim, Skip, Refresh, SandboxReturns, CancelPoll, SandboxRaises,
           SaveResult, IndexLog, HandlerRead, HandlerSave, LeaveHandler, Retry,
           Interrupt, SoftLimit, RetryFails, DbFault, HardLimit
  <1>. QED
    BY <1>1 DEF Goto, Release, SandboxAnswers

(* Where the helpers of the worker actions leave a process.                *)
LEMMA GotoPc ==
  ASSUME TypeOK, NEW p \in Workers, NEW l, Goto(p, l)
  PROVE  worker'[p].pc = l /\ worker'[p].task = worker[p].task
  BY DEF TypeOK, Worker, Goto

LEMMA ReleasePc ==
  ASSUME TypeOK, NEW p \in Workers, Release(p)
  PROVE  worker'[p].pc = "idle"
  BY DEF TypeOK, Release, Idle

LEMMA AnswerPc ==
  ASSUME TypeOK, NEW p \in Workers, NEW result, SandboxAnswers(p, result)
  PROVE  worker'[p].pc = "returned" /\ worker'[p].task = worker[p].task
  BY DEF TypeOK, Worker, SandboxAnswers

LEMMA RefreshPc ==
  ASSUME TypeOK, NEW p \in Workers, Refresh(p)
  PROVE  \/ Release(p)
         \/ worker'[p].pc = "running" /\ worker'[p].task = worker[p].task
  BY DEF TypeOK, Worker, Refresh

(* The row a process holds stays the one it claimed.                       *)
LEMMA HoldsRowNext ==
  ASSUME Closed, LifeInv, [Next]_vars
  PROVE  HoldsRow'
  <1>. USE DEF LifeInv
  <1>. SUFFICES ASSUME NEW p \in Workers, worker'[p].pc \in Holding
                PROVE  db'[worker'[p].task].status \in {"running", "deleted"}
    BY DEF HoldsRow
  <1>t. TypeOK /\ db \in [Tasks -> Row] /\ worker \in [Workers -> Worker] /\ Quiet
    BY DEF ExecInv, TypeOK
  <1>k. ASSUME worker'[p] = worker[p]
        PROVE  /\ worker[p].pc \in PastClaim /\ worker[p].task \in Tasks
               /\ Executors(worker[p].task) = {p}
               /\ db[worker[p].task].status \in {"running", "deleted"}
    BY <1>k, Alone DEF HoldsRow, Holding, PastClaim
  <1>1. CASE worker'[p] = worker[p] /\ db' = db
    BY <1>1, <1>k
  <1>2. ASSUME NEW u \in Tasks, Web(u)
        PROVE  db'[worker'[p].task].status \in {"running", "deleted"}
    <2>1. worker' = worker
      BY <1>2
      DEF Web, Create, RetryTask, Dispatch, Enqueue, EnqueueFails, UpdateStatus,
          CancelRunning, CancelQueued, Destroy, PatchRead, PatchSave
    <2>. DEFINE t == worker[p].task
    <2>2. t \in Tasks /\ db[t].status \in {"running", "deleted"}
      BY <1>k, <2>1
    <2>3. CASE Dispatch(u)
      BY <1>t, <2>1, <2>2, <2>3 DEF Dispatch
    <2>4. CASE CancelRunning(u)
      BY <1>t, <2>1, <2>2, <2>4 DEF CancelRunning, Row
    <2>5. CASE CancelQueued(u)
      <3>1. t # u
        BY <2>2, <2>5 DEF CancelQueued, Accepts, Transit
      <3>. QED
        BY <1>t, <2>1, <2>2, <2>5, <3>1 DEF CancelQueued
    <2>6. CASE Destroy(u)
      BY <1>t, <2>1, <2>2, <2>6 DEF Destroy, NoRow
    <2>7. CASE UNCHANGED db
      BY <2>1, <2>2, <2>7
    <2>8. ~PatchSave(u) /\ \A s \in Status : ~UpdateStatus(u, s)
      BY <1>t DEF PatchSave, Quiet, UpdateStatus, Closed
    <2>. QED
      BY <1>2, <2>3, <2>4, <2>5, <2>6, <2>7, <2>8
      DEF Web, Create, RetryTask, Enqueue, EnqueueFails, PatchRead, taskVars
  <1>3. ASSUME NEW q \in Workers, Execute(q), q # p
        PROVE  db'[worker'[p].task].status \in {"running", "deleted"}
    <2>1. worker'[p] = worker[p]
      BY <1>3, <1>t, OwnProcess
    <2>. DEFINE t == worker[p].task
    <2>2. t \in Tasks /\ Executors(t) = {p} /\ db[t].status \in {"running", "deleted"}
      BY <1>k, <2>1
    <2>3. CASE worker[q].task # t
      BY <1>3, <1>t, <2>1, <2>2, <2>3, OwnRow
    <2>4. CASE worker[q].task = t
      <3>1. worker[q].pc \notin PastClaim
        BY <1>3, <2>2, <2>4 DEF Executors, Executes
      <3>2. Claim(q) \/ Skip(q)
        BY <1>3, <3>1
        DEF Execute, Refresh, SandboxReturns, CancelPoll, SandboxRaises, SaveResult, IndexLog,
            HandlerRead, HandlerSave, Retry, PastClaim
      <3>3. db' = db
        BY <2>2, <2>4, <3>2 DEF Claim, Claimable, Skip, taskVars
      <3>. QED
        BY <2>1, <2>2, <3>3
    <2>. QED
      BY <2>3, <2>4
  <1>4. CASE Execute(p)
    <2>. DEFINE t == worker[p].task
    <2>1. CASE Claim(p)
      BY <1>t, <2>1 DEF Claim, Claimed, Goto, Row, Worker, TypeOK
    <2>2. CASE Refresh(p) \/ SandboxReturns(p) \/ CancelPoll(p)
      <3>1. worker[p].pc \in Holding /\ worker'[p].task = t /\ db' = db
        BY <1>t, <2>2, RefreshPc, ReleasePc, AnswerPc
        DEF Refresh, SandboxReturns, CancelPoll, Holding, taskVars
      <3>. QED
        BY <3>1 DEF HoldsRow
    <2>3. CASE HandlerRead(p)
      <3>1. Accepts(t, Verdict(p)) /\ worker'[p].task = t /\ db' = db
        BY <1>t, <2>3, GotoPc, ReleasePc DEF HandlerRead, LeaveHandler, Holding, taskVars
      <3>2. db[t].status = "running"
        BY <3>1 DEF Accepts, Verdict, Transit
      <3>. QED
        BY <3>1, <3>2
    <2>4. CASE \/ Skip(p) \/ SandboxRaises(p) \/ SaveResult(p) \/ IndexLog(p)
               \/ HandlerSave(p) \/ Retry(p)
      <3>1. Release(p) \/ Goto(p, "exc") \/ Goto(p, "indexing") \/ Goto(p, "retry")
        BY <2>4 DEF Skip, SandboxRaises, SaveResult, IndexLog, HandlerSave, LeaveHandler, Retry
      <3>2. worker'[p].pc \notin Holding
        BY <1>t, <3>1, GotoPc, ReleasePc DEF Holding
      <3>. QED
        BY <3>2
    <2>. QED
      BY <1>4, <2>1, <2>2, <2>3, <2>4 DEF Execute
  <1>5. ASSUME NEW q \in Workers, Interrupt(q)
        PROVE  db'[worker'[p].task].status \in {"running", "deleted"}
    <2>1. db' = db
      BY <1>5 DEF Interrupt, SoftLimit, RetryFails, DbFault, HardLimit, taskVars
    <2>2. CASE q # p
      BY <1>1, <1>5, <1>t, <2>1, <2>2, OwnProcess
    <2>3. CASE q = p
      <3>1. Release(p) \/ Goto(p, "exc") \/ Goto(p, "soft") \/ Goto(p, "retry")
        BY <1>5, <2>3
        DEF Interrupt, SoftLimit, RetryFails, DbFault, HardLimit, LeaveHandler
      <3>2. worker'[p].pc \notin Holding
        BY <1>t, <3>1, GotoPc, ReleasePc DEF Holding
      <3>. QED
        BY <3>2
    <2>. QED
      BY <2>2, <2>3
  <1>6. ASSUME NEW q \in Workers, NEW m \in Messages, Receive(q, m)
        PROVE  db'[worker'[p].task].status \in {"running", "deleted"}
    <2>1. db' = db /\ worker'[p] = worker[p]
      BY <1>6, <1>t DEF Receive, taskVars, Holding
    <2>. QED
      BY <1>1, <2>1
  <1>7. ASSUME NEW n \in Nodes, NodeCrash(n)
        PROVE  db'[worker'[p].task].status \in {"running", "deleted"}
    <2>1. db' = db /\ worker'[p] = worker[p]
      BY <1>7, <1>t DEF NodeCrash, taskVars, Holding, Idle
    <2>. QED
      BY <1>1, <2>1
  <1>8. ~Reschedule
    BY <1>t DEF Closed, NoBypass, Quiet, NoResched, Reschedule, Proceed, ReschedDetect, ReschedQuery,
           ReschedSend, ReschedAbort, Reset
  <1>. QED
    BY <1>1, <1>2, <1>3, <1>4, <1>5, <1>6, <1>7, <1>8
    DEF Next, Broker, DuplicateMessage, LoseMessage, NodesCheck, Node, Heartbeat,
        AdminOffline, NodeRestart, taskVars, vars

-----------------------------------------------------------------------------
(* The refinement.                                                         *)

S == [t \in Tasks |-> db[t].status]
E == [t \in Tasks |-> Executors(t)]

(* Nobody starts to execute but by a claim.                                *)
Shrinks == \A p \in Workers : worker'[p].pc \in PastClaim
              => worker[p].pc \in PastClaim /\ worker'[p].task = worker[p].task

LEMMA OnlyClaimsStart ==
  ASSUME TypeOK, [Next]_vars, \A p \in Workers : ~Claim(p)
  PROVE  Shrinks
  BY WorkerStep DEF WorkerMove, Shrinks, PastClaim

LEMMA ExecutorsShrink ==
  ASSUME ExecInv, Shrinks, NEW t \in Tasks
  PROVE  E'[t] \in {E[t], {}}
  <1>1. Executors(t)' \subseteq Executors(t)
    BY DEF Shrinks, Executors, Executes
  <1>2. \A p, q \in Executors(t) : p = q
    BY DEF ExecInv, SingleExecution
  <1>. QED
    BY <1>1, <1>2 DEF E

(* A step that leaves the table alone.                                     *)
LEMMA StopStep ==
  ASSUME ExecInv, Shrinks, db' = db
  PROVE  Life!Stop
  <1>1. E' = [t \in Tasks |-> IF t \in {u \in Tasks : E'[u] # E[u]} THEN {} ELSE E[t]]
    BY ExecutorsShrink DEF E
  <1>2. S' = S
    BY DEF S
  <1>. QED
    BY <1>1, <1>2 DEF Life!Stop, S, E

LEMMA ClaimStep ==
  ASSUME ExecInv, NEW p \in Workers, Claim(p)
  PROVE  Life!Start(worker[p].task, p)
  <1>. DEFINE u == worker[p].task
  <1>1. /\ u \in Tasks /\ db \in [Tasks -> Row] /\ worker \in [Workers -> Worker]
        /\ db[u].status = "pending" /\ worker[p].pc = "got"
    BY DEF Claim, Claimable, ExecInv, TypeOK
  <1>2. Executors(u) = {}
    BY <1>1 DEF ExecInv, ClaimedFirst, Executors, Executes
  <1>3. S' = [S EXCEPT ![u] = "running"]
    BY <1>1 DEF Claim, Claimed, S, Row
  <1>4. worker' = [worker EXCEPT ![p] = worker'[p]]
        /\ worker'[p].pc = "claimed" /\ worker'[p].task = u
    BY <1>1 DEF Claim, Goto, Worker
  <1>5. ASSUME NEW t \in Tasks
        PROVE  Executors(t)' = IF t = u THEN {p} ELSE Executors(t)
    <2>1. \A q \in Workers : Executes(q, t)' <=> IF q = p THEN t = u ELSE Executes(q, t)
      BY <1>1, <1>4 DEF Executes, PastClaim
    <2>2. ~Executes(p, t)
      BY <1>1 DEF Executes, PastClaim
    <2>. QED
      BY <1>2, <2>1, <2>2 DEF Executors
  <1>6. E' = [E EXCEPT ![u] = {p}]
    BY <1>1, <1>5 DEF E
  <1>7. S[u] = "pending" /\ E[u] = {}
    BY <1>1, <1>2 DEF S, E
  <1>. QED
    BY <1>3, <1>6, <1>7 DEF Life!Start, S, E

(* The tables of the two specifications are the same.                      *)
LEMMA SameTables ==
  /\ Life!Terminal = Terminal /\ Life!Absent = Absent
  /\ \A s : Life!Transit(s) = Transit(s)
  BY DEF Life!Terminal, Terminal, Life!Absent, Absent, Life!Transit, Transit

LEMMA DecideStep ==
  ASSUME NEW u \in Tasks, NEW s \in Terminal,
         s \in Transit(S[u]),
         S' = [S EXCEPT ![u] = s],
         E' = E \/ E' = [E EXCEPT ![u] = {}]
  PROVE  Life!Decide(u, s)
  <1>1. s \in Life!Transit(S[u]) \cap Life!Terminal
    BY SameTables
  <1>. QED
    BY <1>1, Zenon DEF Life!Decide, S, E

LEMMA DecideNext ==
  ASSUME NEW u \in Tasks, NEW s \in Terminal, Life!Decide(u, s)
  PROVE  Life!LifeNext
  BY SameTables, Zenon DEF Life!LifeNext

LEMMA DeleteStep ==
  ASSUME NEW u \in Tasks, S[u] \notin Absent, S' = [S EXCEPT ![u] = "deleted"], E' = E
  PROVE  Life!Delete(u)
  <1>1. S[u] \notin Life!Absent
    BY SameTables
  <1>. QED
    BY <1>1, Zenon DEF Life!Delete, S, E

(* A process writes the outcome of the task it executes.                   *)
LEMMA OutcomeStep ==
  ASSUME LifeInv, Shrinks, NEW p \in Workers, SaveResult(p) \/ HandlerSave(p), db' # db
  PROVE  \E s \in Terminal : Life!Decide(worker[p].task, s)
  <1>. DEFINE u == worker[p].task
  <1>1. TypeOK /\ db \in [Tasks -> Row] /\ worker \in [Workers -> Worker] /\ ExecInv
    BY DEF LifeInv, ExecInv, TypeOK
  <1>2. worker[p].pc \in Holding /\ worker[p].pc \in PastClaim /\ u \in Tasks
    BY <1>1 DEF SaveResult, HandlerSave, Holding, PastClaim, TypeOK
  <1>3. Exists(u) /\ \E s \in Terminal : db' = [db EXCEPT ![u] = Finished(@, s)]
    <2>1. CASE SaveResult(p)
      <3>1. Exists(u) /\ db' = [db EXCEPT ![u] = Finished(@, worker[p].out)]
        BY <2>1 DEF SaveResult
      <3>2. worker[p].out \in Transit(worker[p].mem)
        BY <2>1 DEF SaveResult
      <3>3. worker[p].out \in Terminal \cup {"none"}
        BY <1>1 DEF Worker
      <3>4. worker[p].out \in Terminal
        BY <3>2, <3>3 DEF Transit, Terminal
      <3>. QED
        BY <3>1, <3>4
    <2>2. CASE HandlerSave(p)
      <3>1. Exists(u) /\ db' = [db EXCEPT ![u] = Finished(@, Verdict(p))]
        BY <2>2 DEF HandlerSave
      <3>2. Verdict(p) \in Terminal
        BY DEF Verdict, Terminal
      <3>. QED
        BY <3>1, <3>2
    <2>. QED
      BY <2>1, <2>2
  <1>4. PICK s \in Terminal : db' = [db EXCEPT ![u] = Finished(@, s)]
    BY <1>3
  <1>5. db[u].status = "running"
    BY <1>2, <1>3 DEF LifeInv, HoldsRow, Exists, Absent
  <1>6. S[u] = "running" /\ S' = [S EXCEPT ![u] = s]
    BY <1>1, <1>2, <1>5, <1>4 DEF Finished, S, Row
  <1>7. E' \in {E, [E EXCEPT ![u] = {}]}
    <2>1. ASSUME NEW t \in Tasks, t # u PROVE E'[t] = E[t]
      <3>1. \A q \in Workers : Executes(q, t)' <=> Executes(q, t)
        <4>1. ~Executes(p, t) /\ ~Executes(p, t)'
          BY <1>2, <2>1 DEF Shrinks, Executes
        <4>2. \A q \in Workers : q # p => worker'[q] = worker[q]
          BY <1>1, OwnProcess DEF Execute
        <4>. QED
          BY <4>1, <4>2 DEF Executes
      <3>. QED
        BY <3>1 DEF E, Executors
    <2>2. E'[u] \in {E[u], {}}
      BY <1>1, <1>2, ExecutorsShrink
    <2>3. CASE E'[u] = E[u]
      BY <2>1, <2>3 DEF E
    <2>4. CASE E'[u] = {}
      BY <2>1, <2>4 DEF E
    <2>. QED
      BY <2>2, <2>3, <2>4
  <1>8. s \in Transit(S[u])
    BY <1>6 DEF Transit
  <1>9. Life!Decide(u, s)
    <2>. HIDE DEF u
    <2>. QED
      BY <1>2, <1>6, <1>7, <1>8, DecideStep
  <1>. QED
    BY <1>9

(* A request changes a row.                                                *)
LEMMA WebStep ==
  ASSUME Closed, ExecInv, NEW u \in Tasks, Web(u), db' # db
  PROVE  [Life!LifeNext]_<<S, E>>
  <1>1. db \in [Tasks -> Row] /\ Quiet
    BY DEF ExecInv, TypeOK
  <1>2. E' = E
    BY DEF Web, Create, RetryTask, Dispatch, Enqueue, EnqueueFails, UpdateStatus,
           CancelRunning, CancelQueued, Destroy, PatchRead, PatchSave, E, Executors, Executes
  <1>3. CASE Dispatch(u)
    <2>1. S[u] = "none" /\ S' = [S EXCEPT ![u] = "pending"]
      BY <1>1, <1>3 DEF Dispatch, NoRow, S
    <2>2. Life!Submit(u)
      BY <1>2, <2>1 DEF Life!Submit, S, E
    <2>. QED
      BY <2>2 DEF Life!LifeNext
  <1>4. CASE CancelRunning(u)
    <2>1. S' = S
      BY <1>1, <1>4 DEF CancelRunning, S, Row
    <2>. QED
      BY <1>2, <2>1
  <1>5. CASE CancelQueued(u)
    <2>1. "cancelled" \in Transit(S[u]) /\ S' = [S EXCEPT ![u] = "cancelled"]
      BY <1>1, <1>5 DEF CancelQueued, Accepts, Finished, S, Row
    <2>2. "cancelled" \in Terminal
      BY DEF Terminal
    <2>. QED
      BY <1>2, <2>1, <2>2, DecideStep, DecideNext
  <1>6. CASE Destroy(u)
    <2>1. S[u] \notin Absent /\ S' = [S EXCEPT ![u] = "deleted"]
      BY <1>1, <1>6 DEF Destroy, Exists, NoRow, S
    <2>2. Life!Delete(u)
      BY <1>2, <2>1, DeleteStep
    <2>. QED
      BY <2>2 DEF Life!LifeNext
  <1>7. ~PatchSave(u) /\ \A s \in Status : ~UpdateStatus(u, s)
    BY <1>1 DEF PatchSave, Quiet, UpdateStatus, Closed
  <1>. QED
    BY <1>3, <1>4, <1>5, <1>6, <1>7
    DEF Web, Create, RetryTask, Enqueue, EnqueueFails, PatchRead, taskVars

LEMMA LifeStep ==
  ASSUME Closed, LifeInv, [Next]_vars
  PROVE  [Life!LifeNext]_<<S, E>>
  <1>1. ExecInv /\ TypeOK /\ Quiet
    BY DEF LifeInv, ExecInv
  <1>2. ASSUME NEW p \in Workers, Claim(p) PROVE Life!LifeNext
    <2>1. worker[p].task \in Tasks
      BY <1>1, <1>2 DEF Claim, TypeOK
    <2>. QED
      BY <1>1, <1>2, <2>1, ClaimStep DEF Life!LifeNext
  <1>3. CASE \A p \in Workers : ~Claim(p)
    <2>1. Shrinks
      BY <1>1, <1>3, OnlyClaimsStart
    <2>2. CASE db' = db
      BY <1>1, <2>1, <2>2, StopStep DEF Life!LifeNext
    <2>3. ASSUME NEW u \in Tasks, Web(u), db' # db PROVE [Life!LifeNext]_<<S, E>>
      BY <1>1, <2>3, WebStep
    <2>4. ASSUME NEW p \in Workers, SaveResult(p) \/ HandlerSave(p), db' # db
          PROVE  Life!LifeNext
      <3>1. worker[p].task \in Tasks
        BY <1>1, <2>4 DEF SaveResult, HandlerSave, TypeOK
      <3>. QED
        BY <2>1, <2>4, <3>1, OutcomeStep, DecideNext
    <2>5. ~Reschedule
      BY <1>1 DEF Closed, NoBypass, Quiet, NoResched, Reschedule, Proceed, ReschedDetect, ReschedQuery,
                  ReschedSend, ReschedAbort, Reset
    <2>. QED
      BY <1>3, <2>2, <2>3, <2>4, <2>5
      DEF Next, Broker, DuplicateMessage, LoseMessage, Execute, Skip, Refresh, SandboxReturns,
          CancelPoll, SandboxRaises, IndexLog, HandlerRead, Retry, Interrupt, SoftLimit,
          RetryFails, DbFault, HardLimit, Receive, NodesCheck, Node, Heartbeat, AdminOffline,
          NodeCrash, NodeRestart, taskVars, vars
  <1>. QED
    BY <1>2, <1>3

(* TaskGrid implements TaskLifecycle: a status only moves along the table  *)
(* of transit(), and from the claim on one process works on the task, for  *)
(* every fault, as long as PATCH, the failover command and the manual      *)
(* status update stay away.                                                *)
THEOREM GridImplementsLifecycle == Closed => (Spec => ImplementsLifecycle)
  <1>. SUFFICES ASSUME Closed PROVE Spec => ImplementsLifecycle
    OBVIOUS
  <1>1. Init => LifeInv /\ Life!LifeInit
    <2>. SUFFICES ASSUME Init PROVE LifeInv /\ Life!LifeInit
      OBVIOUS
    <2>1. HoldsRow
      BY DEF Init, Idle, HoldsRow, Holding
    <2>2. Life!LifeInit
      BY DEF Init, NoRow, Idle, PastClaim, Executors, Executes, Life!LifeInit
    <2>. QED
      BY <2>1, <2>2, ExecInvInit DEF LifeInv
  <1>2. LifeInv /\ [Next]_vars => LifeInv'
    BY ExecInvNext, HoldsRowNext DEF LifeInv, Closed
  <1>3. LifeInv /\ [Next]_vars => [Life!LifeNext]_(Life!lifeVars)
    BY LifeStep DEF Life!lifeVars, S, E
  <1>. QED
    BY <1>1, <1>2, <1>3, PTL DEF Spec, ImplementsLifecycle, Life!LifeSpec
=============================================================================
