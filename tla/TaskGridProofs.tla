--------------------------- MODULE TaskGridProofs ---------------------------
(***************************************************************************)
(* What holds of TaskGrid for any number of tasks, machines, processes and *)
(* retries.                                                                *)
(***************************************************************************)
EXTENDS TaskGrid, TLAPS

-----------------------------------------------------------------------------
(* Types.                                                                  *)

LEMMA NullTypes == NoRow \in Row /\ Idle \in Worker /\ NoResched \in Resched
  <1>1. NoRow \in Row
    BY DEF NoRow, Row, Absent
  <1>2. Idle \in Worker
    BY GridAssumption DEF Idle, Worker, Pc
  <1>3. NoResched \in Resched
    BY DEF NoResched, Resched
  <1>. QED
    BY <1>1, <1>2, <1>3

LEMMA TypeInit == Init => TypeOK
  BY NullTypes DEF Init, TypeOK, Idle, NoResched

(* The part of TypeOK about processes.                                     *)
WorkersOK ==
  /\ worker \in [Workers -> Worker]
  /\ \A p \in Workers : worker[p].pc # "idle" => worker[p].task \in Tasks

(* What the helpers of the worker actions return.                          *)
LEMMA GotoType ==
  ASSUME WorkersOK, NEW p \in Workers, NEW l \in Pc, worker[p].pc # "idle", Goto(p, l)
  PROVE  WorkersOK'
  BY DEF WorkersOK, Goto, Worker

LEMMA ReleaseType ==
  ASSUME WorkersOK, NEW p \in Workers, Release(p)
  PROVE  WorkersOK'
  BY NullTypes DEF WorkersOK, Release, Idle

LEMMA AnswerType ==
  ASSUME WorkersOK, NEW p \in Workers, worker[p].pc # "idle",
         NEW result, SandboxAnswers(p, result)
  PROVE  WorkersOK'
  <1>1. ResultStatus(result) \in Terminal
    BY DEF ResultStatus, Terminal
  <1>. QED
    BY <1>1 DEF WorkersOK, SandboxAnswers, Worker, Pc, PastClaim

LEMMA PublishType ==
  ASSUME queue \in [Messages -> Nat], NEW t \in Tasks, NEW r \in 0 .. MaxRetries,
         Publish(t, r)
  PROVE  queue' \in [Messages -> Nat]
  BY DEF Publish, Messages

LEMMA FinishedType ==
  ASSUME NEW row \in Row, NEW s \in Terminal
  PROVE  Finished(row, s) \in Row
  BY DEF Finished, Row, Terminal, Status

LEMMA ClaimedType ==
  ASSUME NEW row \in Row
  PROVE  Claimed(row) \in Row
  BY DEF Claimed, Row, Status

LEMMA ResetRowType ==
  ASSUME NEW row \in Row
  PROVE  ResetRow(row) \in Row
  BY DEF ResetRow, Row, Status

LEMMA MarkStaleType ==
  ASSUME node \in [Nodes -> {"online", "offline"}], NEW S, MarkStale(S)
  PROVE  node' \in [Nodes -> {"online", "offline"}]
  BY DEF MarkStale

(* A single row changes.                                                   *)
LEMMA RowType ==
  ASSUME db \in [Tasks -> Row], NEW t \in Tasks, NEW row \in Row,
         db' = [db EXCEPT ![t] = row]
  PROVE  db' \in [Tasks -> Row]
  OBVIOUS

LEMMA ExecuteType ==
  ASSUME TypeOK, NEW p \in Workers, Execute(p)
  PROVE  TypeOK'
  <1>. DEFINE t == worker[p].task
  <1>w. WorkersOK
    BY DEF TypeOK, WorkersOK
  <1>1. CASE Claim(p)
    <2>t. t \in Tasks
      BY <1>1 DEF Claim, TypeOK
    <2>1. Claimed(db[t]) \in Row
      BY <2>t, ClaimedType DEF TypeOK
    <2>2. db' \in [Tasks -> Row]
      BY <1>1, <2>t, <2>1, RowType DEF Claim, TypeOK
    <2>3. WorkersOK'
      BY <1>1, <1>w, GotoType DEF Claim, Pc, PastClaim
    <2>. QED
      BY <1>1, <2>2, <2>3 DEF Claim, TypeOK, WorkersOK, brokerVars, nodeVars
  <1>2. CASE Skip(p) \/ IndexLog(p)
    <2>1. WorkersOK'
      BY <1>2, <1>w, ReleaseType DEF Skip, IndexLog
    <2>. QED
      BY <1>2, <2>1 DEF Skip, IndexLog, TypeOK, WorkersOK, taskVars, brokerVars, nodeVars
  <1>3. CASE Refresh(p)
    <2>1. ASSUME Exists(t) PROVE WorkersOK'
      <3>1. db[t].status \in Status
        BY <1>3, <2>1 DEF Refresh, Exists, TypeOK, Row
      <3>. QED
        BY <1>3, <1>w, <2>1, <3>1 DEF Refresh, WorkersOK, Worker, Pc, PastClaim
    <2>2. ASSUME ~Exists(t) PROVE WorkersOK'
      BY <1>3, <1>w, <2>2, ReleaseType DEF Refresh
    <2>. QED
      BY <1>3, <2>1, <2>2 DEF Refresh, TypeOK, WorkersOK, taskVars, brokerVars, nodeVars
  <1>4. CASE SandboxReturns(p) \/ CancelPoll(p)
    <2>1. WorkersOK'
      BY <1>4, <1>w, AnswerType DEF SandboxReturns, CancelPoll
    <2>. QED
      BY <1>4, <2>1 DEF SandboxReturns, CancelPoll, TypeOK, WorkersOK, taskVars,
                        brokerVars, nodeVars
  <1>5. CASE SandboxRaises(p)
    <2>1. WorkersOK'
      BY <1>5, <1>w, GotoType DEF SandboxRaises, Pc, PastClaim
    <2>. QED
      BY <1>5, <2>1 DEF SandboxRaises, TypeOK, WorkersOK, taskVars, brokerVars, nodeVars
  <1>6. CASE SaveResult(p)
    <2>1. WorkersOK'
      BY <1>6, <1>w, GotoType DEF SaveResult, Pc, PastClaim
    <2>2. CASE worker[p].out \in Transit(worker[p].mem) /\ Exists(t)
      <3>1. worker[p].out \in Terminal
        BY <2>2, <1>w DEF WorkersOK, Worker, Transit, Terminal
      <3>2. t \in Tasks
        BY <1>6, <1>w DEF SaveResult, WorkersOK
      <3>3. Finished(db[t], worker[p].out) \in Row
        BY <3>1, <3>2, FinishedType DEF TypeOK
      <3>4. db' = [db EXCEPT ![t] = Finished(db[t], worker[p].out)]
        BY <1>6, <2>2 DEF SaveResult
      <3>. QED
        BY <1>6, <2>1, <3>2, <3>3, <3>4, RowType
        DEF SaveResult, TypeOK, WorkersOK, brokerVars, nodeVars
    <2>3. CASE ~(worker[p].out \in Transit(worker[p].mem) /\ Exists(t))
      BY <1>6, <2>1, <2>3 DEF SaveResult, TypeOK, WorkersOK, brokerVars, nodeVars
    <2>. QED
      BY <2>2, <2>3
  <1>7. CASE HandlerRead(p)
    <2>1. WorkersOK'
      BY <1>7, <1>w, GotoType, ReleaseType DEF HandlerRead, LeaveHandler, Pc, PastClaim
    <2>. QED
      BY <1>7, <2>1 DEF HandlerRead, TypeOK, WorkersOK, taskVars, brokerVars, nodeVars
  <1>8. CASE HandlerSave(p)
    <2>1. WorkersOK'
      BY <1>8, <1>w, GotoType, ReleaseType DEF HandlerSave, LeaveHandler, Pc, PastClaim
    <2>2. t \in Tasks /\ Verdict(p) \in Terminal
      BY <1>8, <1>w DEF HandlerSave, WorkersOK, Verdict, Terminal
    <2>3. Finished(db[t], Verdict(p)) \in Row
      BY <2>2, FinishedType DEF TypeOK
    <2>4. db' \in [Tasks -> Row]
      <3>1. CASE Exists(t)
        <4>1. db' = [db EXCEPT ![t] = Finished(db[t], Verdict(p))]
          BY <1>8, <3>1 DEF HandlerSave
        <4>. QED
          BY <2>2, <2>3, <4>1, RowType DEF TypeOK
      <3>2. CASE ~Exists(t)
        BY <1>8, <3>2 DEF HandlerSave, TypeOK
      <3>. QED
        BY <3>1, <3>2
    <2>. QED
      BY <1>8, <2>1, <2>4 DEF HandlerSave, TypeOK, WorkersOK, brokerVars, nodeVars
  <1>9. CASE Retry(p)
    <2>1. WorkersOK'
      BY <1>9, <1>w, ReleaseType DEF Retry
    <2>2. CASE worker[p].retries < MaxRetries
      <3>1. t \in Tasks /\ worker[p].retries + 1 \in 0 .. MaxRetries
        BY <1>9, <1>w, <2>2, GridAssumption DEF Retry, WorkersOK, Worker
      <3>2. queue' \in [Messages -> Nat]
        BY <1>9, <2>2, <3>1, PublishType DEF Retry, TypeOK
      <3>. QED
        BY <1>9, <2>1, <3>2 DEF Retry, TypeOK, WorkersOK, taskVars, nodeVars
    <2>3. CASE ~(worker[p].retries < MaxRetries)
      BY <1>9, <2>1, <2>3 DEF Retry, TypeOK, WorkersOK, taskVars, nodeVars
    <2>. QED
      BY <2>2, <2>3
  <1>. QED
    BY <1>1, <1>2, <1>3, <1>4, <1>5, <1>6, <1>7, <1>8, <1>9 DEF Execute

LEMMA InterruptType ==
  ASSUME TypeOK, NEW p \in Workers, Interrupt(p)
  PROVE  TypeOK'
  <1>w. WorkersOK
    BY DEF TypeOK, WorkersOK
  <1>1. WorkersOK'
    <2>1. CASE SoftLimit(p)
      BY <2>1, <1>w, GotoType, ReleaseType DEF SoftLimit, LeaveHandler, Pc, PastClaim
    <2>2. CASE RetryFails(p) \/ HardLimit(p)
      BY <2>2, <1>w, ReleaseType DEF RetryFails, HardLimit
    <2>3. CASE DbFault(p)
      BY <2>3, <1>w, GotoType, ReleaseType DEF DbFault, LeaveHandler, Pc, PastClaim
    <2>. QED
      BY <2>1, <2>2, <2>3 DEF Interrupt
  <1>. QED
    BY <1>1 DEF Interrupt, SoftLimit, RetryFails, HardLimit, DbFault, TypeOK, WorkersOK,
                taskVars, brokerVars, nodeVars

(* One invocation of the failover command moves to c.                      *)
LEMMA ReschedType ==
  ASSUME TypeOK, NEW k \in Commands, NEW c \in Resched, c.pc = "send" => c.cur \in Tasks,
         resched' = [resched EXCEPT ![k] = c]
  PROVE  /\ resched' \in [Commands -> Resched]
         /\ \A l \in Commands : resched'[l].pc = "send" => resched'[l].cur \in Tasks
  BY DEF TypeOK

LEMMA RescheduleType ==
  ASSUME TypeOK, NEW k \in Commands, ReschedDetect(k) \/ Proceed(k) \/ ReschedAbort(k)
  PROVE  TypeOK'
  <1>. DEFINE ReschedOK ==
         /\ resched \in [Commands -> Resched]
         /\ \A l \in Commands : resched[l].pc = "send" => resched[l].cur \in Tasks
  <1>0. NoResched \in Resched /\ NoResched.pc # "send"
    BY NullTypes DEF NoResched
  <1>r. resched[k] \in Resched
    BY DEF TypeOK
  <1>1. CASE ReschedDetect(k)
    <2>1. node' \in [Nodes -> {"online", "offline"}]
      BY <1>1, MarkStaleType DEF ReschedDetect, TypeOK
    <2>2. PICK c : /\ c = [NoResched EXCEPT !.pc = "query",
                                !.offline = {n \in Nodes : node'[n] = "offline"}]
                   /\ resched' = [resched EXCEPT ![k] = c]
      BY <1>1 DEF ReschedDetect
    <2>3. c \in Resched /\ c.pc # "send"
      BY <2>2 DEF NoResched, Resched
    <2>4. ReschedOK'
      BY <2>2, <2>3, ReschedType
    <2>. QED
      BY <1>1, <2>1, <2>4 DEF ReschedDetect, TypeOK, taskVars, brokerVars
  <1>2. CASE ReschedQuery(k)
    <2>1. PICK T \in SUBSET Tasks : T = {t \in Tasks : /\ db[t].status = "running"
                                                      /\ db[t].worker \in resched[k].offline}
      OBVIOUS
    <2>2. PICK c : /\ c = IF T = {} THEN NoResched
                          ELSE [NoResched EXCEPT !.pc = "loop", !.todo = T]
                   /\ resched' = [resched EXCEPT ![k] = c]
      BY <1>2, <2>1 DEF ReschedQuery
    <2>3. c \in Resched /\ c.pc # "send"
      BY <2>2 DEF NoResched, Resched
    <2>4. ReschedOK'
      BY <2>2, <2>3, ReschedType
    <2>. QED
      BY <1>2, <2>4 DEF ReschedQuery, TypeOK, taskVars, brokerVars, nodeVars
  <1>3. CASE ReschedSend(k)
    <2>1. queue' \in [Messages -> Nat]
      BY <1>3, PublishType, GridAssumption DEF ReschedSend, TypeOK
    <2>2. PICK c : /\ c = IF resched[k].todo = {} THEN NoResched
                          ELSE [resched[k] EXCEPT !.pc = "loop", !.cur = NoTask]
                   /\ resched' = [resched EXCEPT ![k] = c]
      BY <1>3 DEF ReschedSend, TypeOK
    <2>3. c \in Resched /\ c.pc # "send"
      BY <1>r, <1>0, <2>2 DEF Resched
    <2>4. ReschedOK'
      BY <2>2, <2>3, ReschedType
    <2>. QED
      BY <1>3, <2>1, <2>4 DEF ReschedSend, TypeOK, taskVars, nodeVars
  <1>4. CASE ReschedAbort(k)
    <2>1. ReschedOK'
      BY <1>4, <1>0, ReschedType DEF ReschedAbort
    <2>. QED
      BY <1>4, <2>1 DEF ReschedAbort, TypeOK, taskVars, brokerVars, nodeVars
  <1>5. ASSUME NEW t \in Tasks, Reset(k, t) PROVE TypeOK'
    <2>1. CASE Exists(t)
      <3>1. ResetRow(db[t]) \in Row
        BY ResetRowType DEF TypeOK
      <3>2. db' = [db EXCEPT ![t] = ResetRow(db[t])]
        BY <1>5, <2>1 DEF Reset
      <3>3. db' \in [Tasks -> Row]
        BY <3>1, <3>2, RowType DEF TypeOK
      <3>4. PICK c : /\ c = [resched[k] EXCEPT !.pc = "send", !.cur = t,
                                               !.todo = resched[k].todo \ {t}]
                     /\ resched' = [resched EXCEPT ![k] = c]
        BY <1>5, <2>1 DEF Reset, AfterReset, TypeOK
      <3>5. c \in Resched /\ c.cur = t
        BY <1>r, <3>4 DEF Resched
      <3>6. ReschedOK'
        BY <3>4, <3>5, ReschedType
      <3>. QED
        BY <1>5, <3>3, <3>6 DEF Reset, TypeOK, brokerVars, nodeVars
    <2>2. CASE ~Exists(t)
      <3>1. ReschedOK'
        BY <1>5, <2>2, <1>0, ReschedType DEF Reset
      <3>. QED
        BY <1>5, <2>2, <3>1 DEF Reset, TypeOK, brokerVars, nodeVars
    <2>. QED
      BY <2>1, <2>2
  <1>. QED
    BY <1>1, <1>2, <1>3, <1>4, <1>5 DEF Proceed

LEMMA NextType == TypeOK /\ [Next]_vars => TypeOK'
  <1>. SUFFICES ASSUME TypeOK, [Next]_vars PROVE TypeOK'
    OBVIOUS
  <1>. USE DEF TypeOK
  <1>w. WorkersOK
    BY DEF WorkersOK
  <1>1. ASSUME NEW t \in Tasks, Dispatch(t) PROVE TypeOK'
    <2>1. PICK S \in StaleSets, n \in Nodes \cup {NoNode} :
             /\ MarkStale(S)
             /\ db' = [db EXCEPT ![t] = [NoRow EXCEPT !.status = "pending", !.worker = n]]
      BY <1>1 DEF Dispatch, SelectNode
    <2>2. [NoRow EXCEPT !.status = "pending", !.worker = n] \in Row
      BY DEF NoRow, Row, Status
    <2>3. db' \in [Tasks -> Row]
      BY <2>1, <2>2, RowType
    <2>4. node' \in [Nodes -> {"online", "offline"}]
      BY <2>1, MarkStaleType
    <2>. QED
      BY <1>1, <2>3, <2>4 DEF Dispatch
  <1>2. ASSUME NEW t \in Tasks, Enqueue(t) PROVE TypeOK'
    <2>1. queue' \in [Messages -> Nat]
      BY <1>2, GridAssumption, PublishType DEF Enqueue
    <2>. QED
      BY <1>2, <2>1 DEF Enqueue, taskVars, nodeVars
  <1>3. ASSUME NEW t \in Tasks, EnqueueFails(t) PROVE TypeOK'
    BY <1>3 DEF EnqueueFails, taskVars, nodeVars
  <1>4. ASSUME NEW t \in Tasks, NEW s \in Status, UpdateStatus(t, s) PROVE TypeOK'
    <2>. DEFINE a == db[t].started \/ s = "running"
                b == db[t].finished \/ s \in {"success", "failed", "timeout"}
                row == [db[t] EXCEPT !.status = s, !.started = a, !.finished = b]
    <2>1. row \in Row
      <3>1. db[t] \in Row /\ a \in BOOLEAN /\ b \in BOOLEAN
        BY DEF Row
      <3>. HIDE DEF a, b
      <3>. QED
        BY <3>1 DEF Row
    <2>2. db' \in [Tasks -> Row]
      <3>1. db' = [db EXCEPT ![t] = row]
        BY <1>4 DEF UpdateStatus
      <3>. HIDE DEF row
      <3>. QED
        BY <2>1, <3>1
    <2>. QED
      BY <1>4, <2>2 DEF UpdateStatus, brokerVars, nodeVars
  <1>5. ASSUME NEW t \in Tasks, CancelRunning(t) PROVE TypeOK'
    <2>1. db' \in [Tasks -> Row]
      BY <1>5 DEF CancelRunning, Row
    <2>. QED
      BY <1>5, <2>1 DEF CancelRunning, brokerVars, nodeVars
  <1>6. ASSUME NEW t \in Tasks, CancelQueued(t) PROVE TypeOK'
    <2>1. db' = [db EXCEPT ![t] = Finished(db[t], "cancelled")]
      BY <1>6 DEF CancelQueued
    <2>2. db' \in [Tasks -> Row]
      BY <2>1, FinishedType, RowType DEF Terminal
    <2>. QED
      BY <1>6, <2>2 DEF CancelQueued, brokerVars, nodeVars
  <1>7. ASSUME NEW t \in Tasks, Destroy(t) PROVE TypeOK'
    <2>1. [NoRow EXCEPT !.status = "deleted"] \in Row
      BY DEF NoRow, Row, Absent
    <2>2. db' \in [Tasks -> Row]
      BY <1>7, <2>1, RowType DEF Destroy
    <2>. QED
      BY <1>7, <2>2 DEF Destroy, brokerVars, nodeVars
  <1>8. ASSUME NEW t \in Tasks, PatchRead(t) PROVE TypeOK'
    BY <1>8 DEF PatchRead, brokerVars, nodeVars
  <1>9. ASSUME NEW t \in Tasks, PatchSave(t) PROVE TypeOK'
    BY <1>9, NullTypes DEF PatchSave, brokerVars, nodeVars
  <1>10. ASSUME NEW m \in Messages, DuplicateMessage(m) PROVE TypeOK'
    <2>1. queue' \in [Messages -> Nat]
      BY <1>10, PublishType DEF DuplicateMessage, Messages
    <2>. QED
      BY <1>10, <2>1 DEF DuplicateMessage, taskVars, nodeVars
  <1>11. ASSUME NEW m \in Messages, LoseMessage(m) PROVE TypeOK'
    <2>1. queue' \in [Messages -> Nat]
      BY <1>11 DEF LoseMessage
    <2>. QED
      BY <1>11, <2>1 DEF LoseMessage, taskVars, nodeVars
  <1>12. ASSUME NEW p \in Workers, NEW m \in Messages, Receive(p, m) PROVE TypeOK'
    <2>1. queue' \in [Messages -> Nat]
      BY <1>12 DEF Receive
    <2>2. WorkersOK'
      <3>1. [Idle EXCEPT !.pc = "got", !.task = m[1], !.retries = m[2]] \in Worker
        BY DEF Idle, Worker, Pc, Messages
      <3>2. m[1] \in Tasks
        BY DEF Messages
      <3>. QED
        BY <1>12, <1>w, <3>1, <3>2 DEF Receive, WorkersOK, Idle
    <2>. QED
      BY <1>12, <2>1, <2>2 DEF Receive, WorkersOK, taskVars, nodeVars
  <1>13. ASSUME NEW p \in Workers, Execute(p) PROVE TypeOK'
    BY <1>13, ExecuteType
  <1>14. ASSUME NEW p \in Workers, Interrupt(p) PROVE TypeOK'
    BY <1>14, InterruptType
  <1>15. ASSUME NodesCheck PROVE TypeOK'
    BY <1>15, MarkStaleType DEF NodesCheck, taskVars, brokerVars
  <1>16. ASSUME NEW n \in Nodes, Node(n) PROVE TypeOK'
    <2>1. CASE Heartbeat(n)
      BY <2>1 DEF Heartbeat, taskVars, brokerVars
    <2>2. CASE AdminOffline(n)
      BY <2>2 DEF AdminOffline, taskVars, brokerVars
    <2>3. CASE NodeCrash(n)
      <3>1. WorkersOK'
        BY <2>3, <1>w, NullTypes DEF NodeCrash, WorkersOK, Idle
      <3>. QED
        BY <2>3, <3>1 DEF NodeCrash, WorkersOK, taskVars, brokerVars
    <2>4. CASE NodeRestart(n)
      BY <2>4 DEF NodeRestart, taskVars, brokerVars
    <2>. QED
      BY <1>16, <2>1, <2>2, <2>3, <2>4 DEF Node
  <1>17. ASSUME Reschedule PROVE TypeOK'
    BY <1>17, RescheduleType DEF Reschedule
  <1>18. CASE UNCHANGED vars
    BY <1>18 DEF vars, taskVars, brokerVars, nodeVars
  <1>. QED
    BY <1>1, <1>2, <1>3, <1>4, <1>5, <1>6, <1>7, <1>8, <1>9, <1>10, <1>11, <1>12,
       <1>13, <1>14, <1>15, <1>16, <1>17, <1>18
    DEF Next, Web, Broker, Create, RetryTask

(* Every execution of the grid is well typed: no step of any actor, in any *)
(* interleaving, with any fault, writes a value outside the tables of      *)
(* models.py, loses track of its task or retries too often.                *)
THEOREM TypeCorrect == Spec => []TypeOK
  BY TypeInit, NextType, PTL DEF Spec

-----------------------------------------------------------------------------
(* Execution.  With the two writers that go around the status machine left *)
(* out of Env, nothing brings a row back to pending.                       *)
NoBypass == "patch" \notin Env /\ "reschedule" \notin Env

(* Neither of them ever gets going.                                        *)
Quiet == snap = [t \in Tasks |-> NoRow] /\ resched = [k \in Commands |-> NoResched]

(* Nobody works on a task that was not claimed, and nobody has started a   *)
(* task that still waits.                                                  *)
ClaimedFirst ==
  \A p \in Workers : worker[p].pc \in PastClaim
                        => db[worker[p].task].status \notin {"none", "pending"}
UnstartedFirst == \A t \in Tasks : db[t].status = "pending" => ~db[t].started

ExecInv == TypeOK /\ Quiet /\ ClaimedFirst /\ UnstartedFirst /\ SingleExecution

LEMMA QuietStep ==
  ASSUME NoBypass, TypeOK, Quiet, [Next]_vars
  PROVE  Quiet'
  <1>1. CASE \E t \in Tasks : Web(t)
    <2>1. PICK t \in Tasks : Web(t)
      BY <1>1
    <2>2. ~PatchRead(t) /\ ~PatchSave(t)
      BY DEF NoBypass, Quiet, PatchRead, PatchSave
    <2>. QED
      BY <2>1, <2>2
      DEF Quiet, Web, Create, Dispatch, RetryTask, Enqueue, EnqueueFails, UpdateStatus,
          CancelRunning, CancelQueued, Destroy, taskVars
  <1>2. CASE Broker
    BY <1>2 DEF Broker, DuplicateMessage, LoseMessage, Quiet, taskVars
  <1>3. ASSUME NEW p \in Workers, Execute(p) PROVE Quiet'
    BY <1>3 DEF Execute, Claim, Skip, Refresh, SandboxReturns, CancelPoll, SandboxRaises,
                SaveResult, IndexLog, HandlerRead, HandlerSave, Retry, Quiet, taskVars
  <1>4. ASSUME NEW p \in Workers, Interrupt(p) PROVE Quiet'
    BY <1>4 DEF Interrupt, SoftLimit, RetryFails, DbFault, HardLimit, Quiet, taskVars
  <1>5. ASSUME NEW p \in Workers, NEW m \in Messages, Receive(p, m) PROVE Quiet'
    BY <1>5 DEF Receive, Quiet, taskVars
  <1>6. CASE NodesCheck \/ \E n \in Nodes : Node(n)
    BY <1>6 DEF NodesCheck, Node, Heartbeat, AdminOffline, NodeCrash, NodeRestart,
                Quiet, taskVars
  <1>7. ~Reschedule
    BY DEF NoBypass, Quiet, NoResched, Reschedule, Proceed, ReschedDetect, ReschedQuery,
           ReschedSend, ReschedAbort, Reset
  <1>8. CASE UNCHANGED vars
    BY <1>8 DEF vars, taskVars, Quiet
  <1>. QED
    BY <1>1, <1>2, <1>3, <1>4, <1>5, <1>6, <1>7, <1>8 DEF Next

(* What one step does to one row ...                                       *)
RowMove(t) ==
  \/ db'[t] = db[t]
  \/ db[t].status = "none" /\ db'[t].status = "pending" /\ ~db'[t].started
  \/ db[t].status # "none" /\ db'[t].status \notin {"none", "pending"}

LEMMA RowStep ==
  ASSUME NoBypass, TypeOK, Quiet, [Next]_vars, NEW t \in Tasks
  PROVE  RowMove(t)
  <1>r. db \in [Tasks -> Row]
    BY DEF TypeOK
  <1>1. ASSUME NEW u \in Tasks, Web(u) PROVE RowMove(t)
    <2>1. CASE Dispatch(u)
      BY <2>1, <1>r DEF Dispatch, NoRow, RowMove
    <2>2. CASE Enqueue(u) \/ EnqueueFails(u) \/ PatchRead(u)
      BY <2>2 DEF Enqueue, EnqueueFails, PatchRead, taskVars, RowMove
    <2>3. ASSUME NEW s \in Status, UpdateStatus(u, s) PROVE RowMove(t)
      <3>1. s \in Transit(db[u].status)
        BY <2>3 DEF UpdateStatus, Accepts
      <3>2. s \notin {"none", "pending"} /\ db[u].status # "none"
        BY <3>1 DEF Transit, Terminal
      <3>3. db'[u].status = s /\ (t # u => db'[t] = db[t])
        BY <2>3, <1>r DEF UpdateStatus, Row
      <3>. QED
        BY <3>2, <3>3 DEF RowMove
    <2>4. CASE CancelRunning(u)
      BY <2>4, <1>r DEF CancelRunning, RowMove, Row
    <2>5. CASE CancelQueued(u)
      <3>1. db[u].status # "none"
        BY <2>5 DEF CancelQueued, Accepts, Transit
      <3>. QED
        BY <2>5, <3>1, <1>r DEF CancelQueued, Finished, RowMove, Row
    <2>6. CASE Destroy(u)
      BY <2>6, <1>r DEF Destroy, Exists, Absent, NoRow, RowMove
    <2>7. ~PatchSave(u)
      BY DEF Quiet, PatchSave
    <2>. QED
      BY <1>1, <2>1, <2>2, <2>3, <2>4, <2>5, <2>6, <2>7 DEF Web, Create, RetryTask
  <1>2. CASE Broker
    BY <1>2 DEF Broker, DuplicateMessage, LoseMessage, taskVars, RowMove
  <1>3. ASSUME NEW p \in Workers, Execute(p) PROVE RowMove(t)
    <2>. DEFINE u == worker[p].task
    <2>1. CASE Claim(p)
      BY <2>1, <1>r DEF Claim, Claimable, Claimed, RowMove, Row
    <2>2. CASE SaveResult(p)
      <3>1. CASE worker[p].out \in Transit(worker[p].mem) /\ Exists(u)
        <4>1. worker[p].out \in Terminal
          <5>1. worker[p].out \in Terminal \cup {"none"}
            BY DEF TypeOK, Worker
          <5>. QED
            BY <3>1, <5>1 DEF Transit, Terminal
        <4>2. db[u].status # "none"
          BY <3>1 DEF Exists, Absent
        <4>3. u \in Tasks /\ db' = [db EXCEPT ![u] = Finished(@, worker[p].out)]
          BY <2>2, <3>1 DEF SaveResult, TypeOK
        <4>. QED
          BY <1>r, <4>1, <4>2, <4>3 DEF Finished, RowMove, Terminal, Row
      <3>. QED
        BY <2>2, <3>1 DEF SaveResult, RowMove
    <2>3. CASE HandlerSave(p)
      <3>1. CASE Exists(u)
        <4>1. u \in Tasks /\ db' = [db EXCEPT ![u] = Finished(@, Verdict(p))]
          BY <2>3, <3>1 DEF HandlerSave, TypeOK
        <4>. QED
          BY <3>1, <4>1, <1>r DEF Exists, Absent, Finished, Verdict, RowMove, Row
      <3>. QED
        BY <2>3, <3>1 DEF HandlerSave, RowMove
    <2>4. CASE UNCHANGED db
      BY <2>4 DEF RowMove
    <2>. QED
      BY <1>3, <2>1, <2>2, <2>3, <2>4
      DEF Execute, Skip, Refresh, SandboxReturns, CancelPoll, SandboxRaises, IndexLog,
          HandlerRead, Retry, taskVars
  <1>4. ASSUME NEW p \in Workers, Interrupt(p) PROVE RowMove(t)
    BY <1>4 DEF Interrupt, SoftLimit, RetryFails, DbFault, HardLimit, taskVars, RowMove
  <1>5. ASSUME NEW p \in Workers, NEW m \in Messages, Receive(p, m) PROVE RowMove(t)
    BY <1>5 DEF Receive, taskVars, RowMove
  <1>6. CASE NodesCheck \/ \E n \in Nodes : Node(n)
    BY <1>6 DEF NodesCheck, Node, Heartbeat, AdminOffline, NodeCrash, NodeRestart,
                taskVars, RowMove
  <1>7. ~Reschedule
    BY DEF NoBypass, Quiet, NoResched, Reschedule, Proceed, ReschedDetect, ReschedQuery,
           ReschedSend, ReschedAbort, Reset
  <1>8. CASE UNCHANGED vars
    BY <1>8 DEF vars, taskVars, RowMove
  <1>. QED
    BY <1>1, <1>2, <1>3, <1>4, <1>5, <1>6, <1>7, <1>8 DEF Next

(* ... and to one process.                                                 *)
WorkerMove(p) ==
  \/ worker'[p] = worker[p]
  \/ worker'[p].pc \in {"idle", "got"}
  \/ Claim(p)
  \/ /\ worker[p].pc \in PastClaim
     /\ worker'[p].task = worker[p].task

LEMMA GotoMove ==
  ASSUME TypeOK, NEW p \in Workers, NEW q \in Workers, NEW l,
         worker[q].pc \in PastClaim, Goto(q, l)
  PROVE  WorkerMove(p)
  BY DEF TypeOK, Goto, WorkerMove, Worker

LEMMA ReleaseMove ==
  ASSUME TypeOK, NEW p \in Workers, NEW q \in Workers, Release(q)
  PROVE  WorkerMove(p)
  BY DEF TypeOK, Release, Idle, WorkerMove

LEMMA WorkerStep ==
  ASSUME TypeOK, [Next]_vars, NEW p \in Workers
  PROVE  WorkerMove(p)
  <1>w. worker \in [Workers -> Worker]
    BY DEF TypeOK
  <1>1. CASE UNCHANGED worker
    BY <1>1 DEF WorkerMove
  <1>2. ASSUME NEW q \in Workers, Execute(q) PROVE WorkerMove(p)
    <2>1. CASE Claim(q)
      BY <2>1, <1>w DEF Claim, Goto, WorkerMove
    <2>2. CASE Skip(q) \/ IndexLog(q) \/ Retry(q)
      BY <2>2, <1>w DEF Skip, IndexLog, Retry, Release, Idle, WorkerMove
    <2>3. CASE SandboxReturns(q) \/ CancelPoll(q)
      BY <2>3, <1>w DEF SandboxReturns, CancelPoll, SandboxAnswers, WorkerMove, Worker,
                        PastClaim
    <2>4. CASE Refresh(q)
      BY <2>4, <1>w DEF Refresh, Release, Idle, WorkerMove, Worker, PastClaim
    <2>5. CASE SandboxRaises(q) \/ SaveResult(q) \/ HandlerRead(q) \/ HandlerSave(q)
      BY <2>5, GotoMove, ReleaseMove
      DEF SandboxRaises, SaveResult, HandlerRead, HandlerSave, LeaveHandler, PastClaim
    <2>. QED
      BY <1>2, <2>1, <2>2, <2>3, <2>4, <2>5 DEF Execute
  <1>3. ASSUME NEW q \in Workers, Interrupt(q) PROVE WorkerMove(p)
    <2>1. CASE RetryFails(q) \/ HardLimit(q)
      BY <2>1, <1>w DEF RetryFails, HardLimit, Release, Idle, WorkerMove
    <2>2. CASE SoftLimit(q)
      BY <2>2, GotoMove, ReleaseMove DEF SoftLimit, LeaveHandler, PastClaim
    <2>3. CASE DbFault(q)
      BY <2>3, GotoMove, ReleaseMove DEF DbFault, LeaveHandler, PastClaim
    <2>. QED
      BY <1>3, <2>1, <2>2, <2>3 DEF Interrupt
  <1>4. ASSUME NEW q \in Workers, NEW m \in Messages, Receive(q, m) PROVE WorkerMove(p)
    BY <1>4, <1>w DEF Receive, Idle, WorkerMove
  <1>5. ASSUME NEW n \in Nodes, NodeCrash(n) PROVE WorkerMove(p)
    BY <1>5 DEF NodeCrash, Idle, WorkerMove
  <1>. QED
    BY <1>1, <1>2, <1>3, <1>4, <1>5
    DEF Next, Web, Create, RetryTask, Dispatch, Enqueue, EnqueueFails, UpdateStatus,
        CancelRunning, CancelQueued, Destroy, PatchRead, PatchSave, Broker,
        DuplicateMessage, LoseMessage, NodesCheck, Node, Heartbeat, AdminOffline,
        NodeRestart, Reschedule, Proceed, ReschedDetect, ReschedQuery, ReschedSend, ReschedAbort,
        Reset, vars

LEMMA ExecInvInit == Init => ExecInv
  BY TypeInit
  DEF Init, ExecInv, Quiet, ClaimedFirst, UnstartedFirst, SingleExecution, Executors,
      Executes, NoRow, Idle, PastClaim

LEMMA ExecInvNext ==
  ASSUME NoBypass, ExecInv, [Next]_vars
  PROVE  ExecInv'
  <1>. USE DEF ExecInv
  <1>1. TypeOK' /\ Quiet'
    BY NextType, QuietStep
  <1>2. UnstartedFirst'
    <2>. SUFFICES ASSUME NEW t \in Tasks, db'[t].status = "pending"
                  PROVE  ~db'[t].started
      BY DEF UnstartedFirst
    <2>. QED
      BY RowStep DEF RowMove, UnstartedFirst
  <1>3. ASSUME NEW p \in Workers, worker'[p].pc \in PastClaim
        PROVE  /\ worker'[p].task = worker[p].task
               /\ worker[p].task \in Tasks
               /\ worker[p].pc \in PastClaim \/ Claim(p)
    <2>1. worker'[p].pc \notin {"idle", "got"}
      BY <1>3 DEF PastClaim
    <2>2. \/ worker'[p] = worker[p]
          \/ Claim(p)
          \/ worker[p].pc \in PastClaim /\ worker'[p].task = worker[p].task
      BY <2>1, WorkerStep DEF WorkerMove
    <2>3. CASE Claim(p)
      BY <2>3 DEF Claim, Goto, TypeOK, Worker
    <2>4. CASE ~Claim(p)
      BY <1>3, <2>2, <2>4 DEF TypeOK, PastClaim
    <2>. QED
      BY <2>3, <2>4
  <1>4. ClaimedFirst'
    <2>. SUFFICES ASSUME NEW p \in Workers, worker'[p].pc \in PastClaim
                  PROVE  db'[worker'[p].task].status \notin {"none", "pending"}
      BY DEF ClaimedFirst
    <2>. DEFINE t == worker[p].task
    <2>1. t \in Tasks /\ worker'[p].task = t
      BY <1>3
    <2>2. CASE worker[p].pc \in PastClaim
      <3>1. db[t].status \notin {"none", "pending"}
        BY <2>2 DEF ClaimedFirst
      <3>2. RowMove(t)
        BY <2>1, RowStep
      <3>. QED
        BY <2>1, <3>1, <3>2 DEF RowMove
    <2>3. CASE Claim(p)
      BY <2>1, <2>3 DEF Claim, Claimed, TypeOK, Row
    <2>. QED
      BY <1>3, <2>2, <2>3
  <1>5. SingleExecution'
    <2>. SUFFICES ASSUME NEW p \in Workers, NEW q \in Workers, NEW t \in Tasks,
                         worker'[p].pc \in PastClaim, worker'[p].task = t,
                         worker'[q].pc \in PastClaim, worker'[q].task = t
                  PROVE  p = q
      BY DEF SingleExecution, Executors, Executes
    <2>0. worker[p].task = t /\ worker[q].task = t
      BY <1>3
    <2>1. CASE worker[p].pc \in PastClaim /\ worker[q].pc \in PastClaim
      BY <2>0, <2>1 DEF SingleExecution, Executors, Executes
    <2>2. ASSUME NEW c \in {p, q}, Claim(c) PROVE p = q
      <3>1. db[t].status = "pending"
        BY <2>0, <2>2 DEF Claim, Claimable
      <3>2. \A o \in {p, q} : worker[o].pc \notin PastClaim
        BY <2>0, <3>1 DEF ClaimedFirst
      <3>3. \A o \in {p, q} : o # c => worker'[o] = worker[o]
        BY <2>2 DEF Claim, Goto, TypeOK
      <3>. QED
        BY <3>2, <3>3
    <2>. QED
      BY <1>3, <2>1, <2>2
  <1>. QED
    BY <1>1, <1>2, <1>4, <1>5

LEMMA ExecInvHolds == NoBypass => (Spec => []ExecInv)
  <1>. SUFFICES ASSUME NoBypass PROVE Spec => []ExecInv
    OBVIOUS
  <1>1. ExecInv /\ [Next]_vars => ExecInv'
    BY ExecInvNext
  <1>. QED
    BY ExecInvInit, <1>1, PTL DEF Spec

(* The claim of tasks.py:49-51, for any number of processes, duplicated    *)
(* messages, faults and crashes: two processes never work on one task, as  *)
(* long as no PATCH and no failover command runs.                          *)
THEOREM OneExecutor == NoBypass => (Spec => []SingleExecution)
  <1>1. ExecInv => SingleExecution
    BY DEF ExecInv
  <1>. QED
    BY <1>1, ExecInvHolds, PTL

(* ... and a task whose execution has started is never started again, so   *)
(* that user code runs at most once.                                       *)
THEOREM StartedOnce == NoBypass => (Spec => ExecutedAtMostOnce)
  <1>. DEFINE Unstarted ==
         \A p \in Workers : worker[p].pc = "got" /\ worker'[p].pc = "claimed"
                               => ~db[worker[p].task].started
  <1>1. ExecInv /\ [Next]_vars => Unstarted
    <2>. SUFFICES ASSUME ExecInv, [Next]_vars, NEW p \in Workers,
                         worker[p].pc = "got", worker'[p].pc = "claimed"
                  PROVE  ~db[worker[p].task].started
      OBVIOUS
    <2>1. Claim(p)
      BY WorkerStep DEF WorkerMove, ExecInv, PastClaim
    <2>. QED
      BY <2>1 DEF Claim, Claimable, ExecInv, UnstartedFirst, TypeOK
  <1>2. ExecInv /\ [Next]_vars => [Unstarted]_vars
    BY <1>1
  <1>. QED
    BY <1>2, ExecInvHolds, PTL DEF ExecutedAtMostOnce, Spec

-----------------------------------------------------------------------------
(* Messages.  A pending row keeps its carrier in every step but those of   *)
(* Drops.                                                                  *)
LEMMA CarriedKept ==
  ASSUME NEW t \in Tasks, Carried(t), t \in dispatching => t \in dispatching',
         \A r \in 0 .. MaxRetries : queue[<<t, r>>] > 0 => queue'[<<t, r>>] > 0,
         \A p \in Workers : worker[p].pc = "got" /\ worker[p].task = t
                               => worker'[p] = worker[p],
         \A k \in Commands : resched[k].pc = "send" /\ resched[k].cur = t
                                => resched'[k] = resched[k]
  PROVE  Carried(t)'
  BY DEF Carried, Queued

(* Process p, past its claim, moves on; the others stay.                   *)
LEMMA GotKept ==
  ASSUME TypeOK, NEW p \in Workers, worker[p].pc # "got",
         NEW w, worker' = [worker EXCEPT ![p] = w]
  PROVE  \A q \in Workers : worker[q].pc = "got" => worker'[q] = worker[q]
  BY DEF TypeOK

(* A message is sent.                                                      *)
LEMMA PublishKept ==
  ASSUME TypeOK, NEW u \in Tasks, NEW r \in 0 .. MaxRetries, Publish(u, r)
  PROVE  /\ \A m \in Messages : queue[m] > 0 => queue'[m] > 0
         /\ queue'[<<u, r>>] > 0
  BY DEF TypeOK, Publish, Messages

(* The steps of execute_task never drop anything.                          *)
LEMMA OrphanExecute ==
  ASSUME TypeOK, NEW p \in Workers, Execute(p), NEW t \in Tasks, ~Orphan(t)
  PROVE  ~Orphan(t)'
  <1>. SUFFICES ASSUME db'[t].status = "pending" PROVE Carried(t)'
    BY DEF Orphan
  <1>. DEFINE u == worker[p].task
  <1>r. db \in [Tasks -> Row] /\ worker \in [Workers -> Worker]
    BY DEF TypeOK
  <1>o. /\ dispatching' = dispatching /\ resched' = resched
        /\ \A r \in 0 .. MaxRetries : queue[<<t, r>>] > 0 => queue'[<<t, r>>] > 0
    <2>1. CASE Retry(p)
      BY <2>1 DEF Retry, Publish, TypeOK, Messages
    <2>2. CASE ~Retry(p)
      BY <2>2 DEF Execute, Claim, Skip, Refresh, SandboxReturns, CancelPoll, SandboxRaises,
                  SaveResult, IndexLog, HandlerRead, HandlerSave, brokerVars
    <2>. QED
      BY <2>1, <2>2 DEF Retry
  <1>1. CASE Claim(p)
    <2>1. t # u /\ db'[t] = db[t]
      BY <1>1, <1>r DEF Claim, Claimed, Row
    <2>2. Carried(t)
      BY <2>1 DEF Orphan
    <2>3. \A q \in Workers : q # p => worker'[q] = worker[q]
      BY <1>1, <1>r DEF Claim, Goto
    <2>. QED
      BY <1>o, <2>1, <2>2, <2>3, CarriedKept
  <1>2. CASE Skip(p)
    <2>1. t # u /\ db'[t] = db[t]
      BY <1>2 DEF Skip, Claimable, taskVars
    <2>2. Carried(t)
      BY <2>1 DEF Orphan
    <2>3. \A q \in Workers : q # p => worker'[q] = worker[q]
      BY <1>2, <1>r DEF Skip, Release
    <2>. QED
      BY <1>o, <2>1, <2>2, <2>3, CarriedKept
  <1>3. CASE ~Claim(p) /\ ~Skip(p)
    <2>1. worker[p].pc # "got"
      BY <1>3 DEF Execute, Refresh, SandboxReturns, CancelPoll, SandboxRaises, SaveResult,
                  IndexLog, HandlerRead, HandlerSave, Retry
    <2>2. PICK w : worker' = [worker EXCEPT ![p] = w]
      <3>1. \/ \E l : Goto(p, l)
            \/ Release(p)
            \/ \E result : SandboxAnswers(p, result)
            \/ worker' = [worker EXCEPT ![p].pc = "running", ![p].mem = db[u].status]
        BY <1>3 DEF Execute, Refresh, SandboxReturns, CancelPoll, SandboxRaises, SaveResult,
                    IndexLog, HandlerRead, HandlerSave, LeaveHandler, Retry
      <3>2. worker' = [worker EXCEPT ![p] = worker'[p]]
        BY <3>1, <1>r DEF Goto, Release, SandboxAnswers
      <3>. QED
        BY <3>2
    <2>3. db[t].status = "pending"
      <3>1. CASE SaveResult(p)
        <4>1. worker[p].out \in Terminal \cup {"none"}
          BY <1>r DEF Worker
        <4>2. worker[p].out \in Transit(worker[p].mem) => worker[p].out # "pending"
          BY DEF Transit, Terminal
        <4>. QED
          BY <3>1, <4>2, <1>r DEF SaveResult, Finished, Row
      <3>2. CASE HandlerSave(p)
        BY <3>2, <1>r DEF HandlerSave, Finished, Verdict, Row
      <3>3. CASE UNCHANGED db
        BY <3>3
      <3>. QED
        BY <1>3, <3>1, <3>2, <3>3
        DEF Execute, Refresh, SandboxReturns, CancelPoll, SandboxRaises, IndexLog,
            HandlerRead, Retry, taskVars
    <2>4. \A q \in Workers : worker[q].pc = "got" => worker'[q] = worker[q]
      BY <2>1, <2>2, GotKept
    <2>5. Carried(t)
      BY <2>3 DEF Orphan
    <2>. QED
      BY <1>o, <2>4, <2>5, CarriedKept
  <1>. QED
    BY <1>1, <1>2, <1>3

LEMMA OrphanReschedule ==
  ASSUME TypeOK, NEW k \in Commands, ReschedDetect(k) \/ Proceed(k) \/ ReschedAbort(k),
         NEW t \in Tasks, ~Orphan(t), ~Drops(t)
  PROVE  ~Orphan(t)'
  <1>. SUFFICES ASSUME db'[t].status = "pending" PROVE Carried(t)'
    BY DEF Orphan
  <1>o. \A l \in Commands : l # k => resched'[l] = resched[l]
    BY DEF ReschedDetect, Proceed, ReschedQuery, ReschedSend, Reset, ReschedAbort, TypeOK
  <1>1. CASE ReschedDetect(k) \/ ReschedQuery(k) \/ ReschedAbort(k)
    <2>1. Carried(t)
      BY <1>1 DEF ReschedDetect, ReschedQuery, ReschedAbort, Orphan, taskVars
    <2>2. ~(resched[k].pc = "send" /\ resched[k].cur = t)
      BY <1>1 DEF ReschedDetect, ReschedQuery, Drops
    <2>. QED
      BY <1>o, <1>1, <2>1, <2>2, CarriedKept
      DEF ReschedDetect, ReschedQuery, ReschedAbort, brokerVars
  <1>2. ASSUME NEW u \in Tasks, Reset(k, u) PROVE Carried(t)'
    <2>1. CASE t = u /\ Exists(u)
      <3>1. /\ resched[k] \in Resched
            /\ resched'[k] = [resched[k] EXCEPT !.pc = "send", !.cur = u,
                                                !.todo = resched[k].todo \ {u}]
        BY <1>2, <2>1 DEF Reset, AfterReset, TypeOK
      <3>. QED
        BY <2>1, <3>1 DEF Carried, Resched
    <2>2. CASE t # u \/ ~Exists(u)
      <3>1. db'[t] = db[t]
        BY <1>2, <2>2 DEF Reset, TypeOK
      <3>2. Carried(t)
        BY <3>1 DEF Orphan
      <3>. QED
        BY <1>o, <1>2, <3>2, CarriedKept DEF Reset, brokerVars
    <2>. QED
      BY <2>1, <2>2
  <1>3. CASE ReschedSend(k)
    <2>1. resched[k].cur \in Tasks /\ 0 \in 0 .. MaxRetries /\ Publish(resched[k].cur, 0)
      BY <1>3, GridAssumption DEF ReschedSend, TypeOK
    <2>2. /\ \A m \in Messages : queue[m] > 0 => queue'[m] > 0
          /\ queue'[<<resched[k].cur, 0>>] > 0
      BY <2>1, PublishKept
    <2>3. CASE t = resched[k].cur
      BY <2>1, <2>2, <2>3 DEF Carried, Queued
    <2>4. CASE t # resched[k].cur
      <3>1. Carried(t)
        BY <1>3 DEF ReschedSend, Orphan, taskVars
      <3>2. \A r \in 0 .. MaxRetries : queue[<<t, r>>] > 0 => queue'[<<t, r>>] > 0
        BY <2>2 DEF Messages
      <3>. QED
        BY <1>o, <1>3, <2>4, <3>1, <3>2, CarriedKept DEF ReschedSend
    <2>. QED
      BY <2>3, <2>4
  <1>. QED
    BY <1>1, <1>2, <1>3 DEF Proceed

LEMMA OrphanWeb ==
  ASSUME TypeOK, NEW u \in Tasks, Web(u), NEW t \in Tasks, ~Orphan(t), ~Drops(t)
  PROVE  ~Orphan(t)'
  <1>. SUFFICES ASSUME db'[t].status = "pending" PROVE Carried(t)'
    BY DEF Orphan
  <1>r. db \in [Tasks -> Row]
    BY DEF TypeOK
  <1>k. ASSUME db[t].status = "pending", UNCHANGED <<brokerVars, worker, resched>>
        PROVE  Carried(t)'
    BY <1>k, CarriedKept DEF Orphan, brokerVars
  <1>1. CASE Dispatch(u)
    <2>1. CASE t = u
      BY <1>1, <2>1 DEF Dispatch, Carried
    <2>2. CASE t # u
      <3>1. db'[t] = db[t]
        BY <1>1, <1>r, <2>2 DEF Dispatch
      <3>2. Carried(t)
        BY <3>1 DEF Orphan
      <3>. QED
        BY <1>1, <3>2, CarriedKept DEF Dispatch
    <2>. QED
      BY <2>1, <2>2
  <1>2. CASE Enqueue(u)
    <2>1. Carried(t)
      BY <1>2 DEF Enqueue, Orphan, taskVars
    <2>2. Publish(u, 0) /\ 0 \in 0 .. MaxRetries
      BY <1>2, GridAssumption DEF Enqueue
    <2>3. /\ \A m \in Messages : queue[m] > 0 => queue'[m] > 0
          /\ queue'[<<u, 0>>] > 0
      BY <2>2, PublishKept
    <2>4. CASE t = u
      BY <2>2, <2>3, <2>4 DEF Carried, Queued
    <2>5. CASE t # u
      <3>1. \A r \in 0 .. MaxRetries : queue[<<t, r>>] > 0 => queue'[<<t, r>>] > 0
        BY <2>3 DEF Messages
      <3>. QED
        BY <1>2, <2>1, <2>5, <3>1, CarriedKept DEF Enqueue
    <2>. QED
      BY <2>4, <2>5
  <1>3. CASE EnqueueFails(u)
    <2>1. Carried(t) /\ t # u
      BY <1>3 DEF EnqueueFails, Orphan, Drops, taskVars
    <2>. QED
      BY <1>3, <2>1, CarriedKept DEF EnqueueFails
  <1>4. ASSUME NEW s \in Status, UpdateStatus(u, s) PROVE Carried(t)'
    <2>1. s # "pending"
      BY <1>4 DEF UpdateStatus, Accepts, Transit, Terminal
    <2>2. db[t].status = "pending"
      BY <1>4, <2>1, <1>r DEF UpdateStatus, Row
    <2>. QED
      BY <1>4, <2>2, <1>k DEF UpdateStatus
  <1>5. CASE CancelRunning(u) \/ CancelQueued(u) \/ Destroy(u)
    <2>1. db[t].status = "pending"
      BY <1>5, <1>r DEF CancelRunning, CancelQueued, Finished, Destroy, NoRow, Row
    <2>. QED
      BY <1>5, <2>1, <1>k DEF CancelRunning, CancelQueued, Destroy
  <1>6. CASE PatchRead(u) \/ PatchSave(u)
    <2>1. db[t].status = "pending"
      BY <1>6, <1>r DEF PatchRead, PatchSave, Drops
    <2>. QED
      BY <1>6, <2>1, <1>k DEF PatchRead, PatchSave
  <1>. QED
    BY <1>1, <1>2, <1>3, <1>4, <1>5, <1>6 DEF Web, Create, RetryTask

LEMMA OrphanReceive ==
  ASSUME TypeOK, NEW p \in Workers, NEW m \in Messages, Receive(p, m),
         NEW t \in Tasks, ~Orphan(t)
  PROVE  ~Orphan(t)'
  <1>. SUFFICES ASSUME db'[t].status = "pending" PROVE Carried(t)'
    BY DEF Orphan
  <1>r. /\ queue \in [Messages -> Nat] /\ worker \in [Workers -> Worker]
        /\ m[1] \in Tasks /\ m[2] \in 0 .. MaxRetries /\ m = <<m[1], m[2]>>
    BY DEF TypeOK, Messages
  <1>1. Carried(t)
    BY DEF Receive, Orphan, taskVars
  <1>2. CASE m[1] = t
    <2>1. worker'[p].pc = "got" /\ worker'[p].task = t
      BY <1>r, <1>2 DEF Receive, Idle
    <2>. QED
      BY <2>1 DEF Carried
  <1>3. CASE m[1] # t
    <2>1. \A r \in 0 .. MaxRetries : queue'[<<t, r>>] = queue[<<t, r>>]
      BY <1>r, <1>3 DEF Receive, Messages
    <2>2. \A q \in Workers : worker[q].pc = "got" => worker'[q] = worker[q]
      BY <1>r DEF Receive
    <2>. QED
      BY <1>1, <2>1, <2>2, CarriedKept DEF Receive
  <1>. QED
    BY <1>2, <1>3

LEMMA OrphanRest ==
  ASSUME TypeOK,
         \/ Broker \/ NodesCheck \/ \E n \in Nodes : Node(n)
         \/ \E p \in Workers : Interrupt(p)
         \/ UNCHANGED vars,
         NEW t \in Tasks, ~Orphan(t), ~Drops(t)
  PROVE  ~Orphan(t)'
  <1>. SUFFICES ASSUME db'[t].status = "pending" PROVE Carried(t)'
    BY DEF Orphan
  <1>r. worker \in [Workers -> Worker] /\ queue \in [Messages -> Nat]
    BY DEF TypeOK
  <1>1. db' = db /\ dispatching' = dispatching /\ resched' = resched
    BY DEF Broker, DuplicateMessage, LoseMessage, NodesCheck, Node, Heartbeat, AdminOffline,
           NodeCrash, NodeRestart, Interrupt, SoftLimit, RetryFails, DbFault, HardLimit,
           taskVars, brokerVars, vars
  <1>2. Carried(t)
    BY <1>1 DEF Orphan
  <1>3. \A r \in 0 .. MaxRetries : queue[<<t, r>>] > 0 => queue'[<<t, r>>] > 0
    <2>1. ASSUME NEW m \in Messages, DuplicateMessage(m)
          PROVE  \A n \in Messages : queue[n] > 0 => queue'[n] > 0
      BY <2>1, <1>r DEF DuplicateMessage, Publish, Messages
    <2>2. ASSUME NEW m \in Messages, LoseMessage(m), NEW r \in 0 .. MaxRetries
          PROVE  queue'[<<t, r>>] = queue[<<t, r>>]
      <3>1. m # <<t, r>>
        BY <2>2 DEF Drops
      <3>. QED
        BY <2>2, <3>1, <1>r DEF LoseMessage, Messages
    <2>3. CASE UNCHANGED queue
      BY <2>3
    <2>. QED
      BY <2>1, <2>2, <2>3
      DEF Broker, NodesCheck, Node, Heartbeat, AdminOffline, NodeCrash, NodeRestart,
          Interrupt, SoftLimit, RetryFails, DbFault, HardLimit, Messages, brokerVars, vars
  <1>4. ASSUME NEW p \in Workers, worker[p].pc = "got", worker[p].task = t
        PROVE  worker'[p] = worker[p]
    <2>1. ~DbFault(p) /\ ~SoftLimit(p) /\ ~HardLimit(p) /\ ~NodeCrash(NodeOf[p])
      BY <1>4 DEF Drops
    <2>2. ~RetryFails(p)
      BY <1>4 DEF RetryFails
    <2>3. ASSUME NEW q \in Workers, q # p, Interrupt(q) PROVE worker'[p] = worker[p]
      BY <2>3, <1>r
      DEF Interrupt, SoftLimit, RetryFails, DbFault, HardLimit, LeaveHandler, Goto, Release
    <2>4. ASSUME NEW n \in Nodes, n # NodeOf[p], NodeCrash(n) PROVE worker'[p] = worker[p]
      BY <2>4 DEF NodeCrash
    <2>5. CASE UNCHANGED worker
      BY <2>5
    <2>. QED
      BY <2>1, <2>2, <2>3, <2>4, <2>5
      DEF Interrupt, Broker, DuplicateMessage, LoseMessage, NodesCheck, Node, Heartbeat,
          AdminOffline, NodeRestart, vars
  <1>. QED
    BY <1>1, <1>2, <1>3, <1>4, CarriedKept

LEMMA OrphanStep ==
  ASSUME TypeOK, [Next]_vars, NEW t \in Tasks, ~Orphan(t), ~Drops(t)
  PROVE  ~Orphan(t)'
  BY OrphanWeb, OrphanExecute, OrphanReceive, OrphanReschedule, OrphanRest
  DEF Next, Reschedule

(* Under every request and fault a pending task loses the last message,    *)
(* process or sender that would bring it to a worker only by one of the    *)
(* faults of Drops, and never by a step of execute_task.                   *)
THEOREM OrphansByFaultOnly == Spec => OrphanedByFault
  <1>1. TypeOK /\ [Next]_vars =>
          [\A t \in Tasks : ~Orphan(t) /\ Orphan(t)'
              => Drops(t) /\ \A p \in Workers : ~Execute(p)]_vars
    BY OrphanStep, OrphanExecute
  <1>. QED
    BY <1>1, TypeCorrect, PTL DEF Spec, OrphanedByFault

(* Nothing that holds a message stops before it has passed it on - no      *)
(* kill, crash, failing database or soft limit before the claim - and no   *)
(* PATCH puts a row back to pending.  The failover command may run, and    *)
(* every user request but PATCH.                                           *)
NoLoss == Env \cap {"patch", "broker", "db", "soft_limit_outside", "hard_limit",
                   "node_crash"} = {}

LossInv == TypeOK /\ snap = [t \in Tasks |-> NoRow] /\ PendingHasMessage

LEMMA SnapKept ==
  ASSUME "patch" \notin Env, snap = [t \in Tasks |-> NoRow], [Next]_vars
  PROVE  snap' = snap
  <1>1. ASSUME NEW t \in Tasks, Web(t) PROVE snap' = snap
    BY <1>1
    DEF Web, Create, RetryTask, Dispatch, Enqueue, EnqueueFails, UpdateStatus,
        CancelRunning, CancelQueued, Destroy, PatchRead, PatchSave, taskVars
  <1>2. ASSUME NEW p \in Workers, Execute(p) PROVE snap' = snap
    BY <1>2
    DEF Execute, Claim, Skip, Refresh, SandboxReturns, CancelPoll, SandboxRaises,
        SaveResult, IndexLog, HandlerRead, HandlerSave, Retry, taskVars
  <1>3. ASSUME NEW p \in Workers, Interrupt(p) PROVE snap' = snap
    BY <1>3 DEF Interrupt, SoftLimit, RetryFails, DbFault, HardLimit, taskVars
  <1>4. CASE Reschedule
    BY <1>4 DEF Reschedule, Proceed, ReschedDetect, ReschedQuery, ReschedSend, ReschedAbort, Reset,
                taskVars
  <1>. QED
    BY <1>1, <1>2, <1>3, <1>4
    DEF Next, Broker, DuplicateMessage, LoseMessage, Receive, NodesCheck, Node, Heartbeat,
        AdminOffline, NodeCrash, NodeRestart, taskVars, vars

LEMMA LossInvNext ==
  ASSUME NoLoss, LossInv, [Next]_vars
  PROVE  LossInv'
  <1>1. TypeOK'
    BY NextType DEF LossInv
  <1>2. snap' = [t \in Tasks |-> NoRow]
    BY SnapKept DEF LossInv, NoLoss
  <1>3. ASSUME NEW t \in Tasks PROVE ~Orphan(t)'
    <2>1. TypeOK /\ ~Orphan(t)
      BY DEF LossInv, PendingHasMessage, Orphan
    <2>2. ~Drops(t)
      BY DEF LossInv, NoLoss, Drops, EnqueueFails, PatchSave, ReschedAbort, LoseMessage,
             DbFault, SoftLimit, HardLimit, NodeCrash
    <2>. QED
      BY <2>1, <2>2, OrphanStep
  <1>. QED
    BY <1>1, <1>2, <1>3 DEF LossInv, PendingHasMessage, Orphan

(* A pending task is never forgotten: while brokers, databases and         *)
(* machines hold, no limit strikes a process that holds a message it has   *)
(* not claimed, and nobody saves a stale row through PATCH, there is       *)
(* always a message of it, or a process that holds or will send one,       *)
(* whatever cancellations, deletions, retries, duplicates and failover     *)
(* runs interleave.                                                        *)
THEOREM NeverForgotten == NoLoss => (Spec => []PendingHasMessage)
  <1>. SUFFICES ASSUME NoLoss PROVE Spec => []PendingHasMessage
    OBVIOUS
  <1>1. Init => LossInv
    BY TypeInit DEF Init, LossInv, PendingHasMessage, NoRow
  <1>2. LossInv /\ [Next]_vars => LossInv'
    BY LossInvNext
  <1>3. LossInv => PendingHasMessage
    BY DEF LossInv
  <1>. QED
    BY <1>1, <1>2, <1>3, PTL DEF Spec
=============================================================================
