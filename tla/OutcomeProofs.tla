--------------------------- MODULE OutcomeProofs ---------------------------
(***************************************************************************)
(* What the rows of TaskGrid say: the time stamps agree with the status, a *)
(* started task is cancelled only on request, and a running row has a      *)
(* process that will write its outcome.                                    *)
(***************************************************************************)
EXTENDS LifecycleProofs

(* Some process is about to save the outcome cancelled to the row of t.    *)
Cancelling(t) == \E p \in Workers : /\ worker[p].pc = "returned"
                                    /\ worker[p].out = "cancelled"
                                    /\ worker[p].task = t

(* What a step does to the row of t when no PATCH and no failover command  *)
(* runs.                                                                   *)
RowWrite(t) ==
  \/ db'[t] = db[t]
  \/ db'[t].status = "deleted"
  \/ /\ db[t].status = "none"
     /\ db'[t].status = "pending" /\ ~db'[t].started /\ ~db'[t].finished
  \/ db[t].status = "running" /\ db'[t] = [db[t] EXCEPT !.cancel = TRUE]
  \/ db[t].status = "pending" /\ db'[t] = Finished(db[t], "cancelled")
  \/ db[t].status = "pending" /\ db'[t] = Claimed(db[t])
  \/ \E s \in Status : UpdateStatus(t, s)
  \/ \E p \in Workers, s \in Terminal :
        /\ Executes(p, t) /\ worker[p].pc \in Holding /\ Exists(t)
        /\ db'[t] = Finished(db[t], s)
        /\ s = "cancelled" => worker[p].pc = "returned" /\ worker[p].out = "cancelled"

LEMMA WriteWeb ==
  ASSUME TypeOK, Quiet, NEW u \in Tasks, Web(u), NEW t \in Tasks
  PROVE  RowWrite(t)
  <1>r. db \in [Tasks -> Row]
    BY DEF TypeOK
  <1>1. CASE Dispatch(u)
    BY <1>1, <1>r DEF Dispatch, NoRow, RowWrite
  <1>2. CASE CancelRunning(u)
    BY <1>2, <1>r DEF CancelRunning, RowWrite
  <1>3. CASE CancelQueued(u)
    <2>1. db[u].status = "pending"
      BY <1>3 DEF CancelQueued, Accepts, Transit
    <2>. QED
      BY <1>3, <2>1, <1>r DEF CancelQueued, RowWrite
  <1>4. CASE Destroy(u)
    BY <1>4, <1>r DEF Destroy, NoRow, RowWrite
  <1>5. CASE UNCHANGED db
    BY <1>5 DEF RowWrite
  <1>6. ASSUME NEW s \in Status, UpdateStatus(u, s) PROVE RowWrite(t)
    <2>1. CASE t = u
      BY <1>6, <2>1 DEF RowWrite
    <2>2. CASE t # u
      BY <1>6, <2>2, <1>r DEF UpdateStatus, RowWrite
    <2>. QED
      BY <2>1, <2>2
  <1>7. ~PatchSave(u)
    BY DEF PatchSave, Quiet
  <1>. QED
    BY <1>1, <1>2, <1>3, <1>4, <1>5, <1>6, <1>7
    DEF Web, Create, RetryTask, Enqueue, EnqueueFails, PatchRead, taskVars

LEMMA WriteExecute ==
  ASSUME TypeOK, NEW p \in Workers, Execute(p), NEW t \in Tasks
  PROVE  RowWrite(t)
  <1>. DEFINE u == worker[p].task
  <1>r. db \in [Tasks -> Row] /\ worker \in [Workers -> Worker]
    BY DEF TypeOK
  <1>1. CASE t # u \/ UNCHANGED db
    BY <1>1, OwnRow DEF RowWrite
  <1>2. CASE t = u /\ Claim(p)
    BY <1>2, <1>r DEF Claim, Claimable, RowWrite
  <1>3. ASSUME t = u, db' # db, SaveResult(p) \/ HandlerSave(p)
        PROVE  RowWrite(t)
    <2>1. Exists(t) /\ worker[p].pc \in Holding /\ Executes(p, t)
      BY <1>3 DEF SaveResult, HandlerSave, Holding, Executes, PastClaim
    <2>2. CASE SaveResult(p)
      <3>1. db' = [db EXCEPT ![t] = Finished(@, worker[p].out)]
        BY <1>3, <2>2 DEF SaveResult
      <3>2. worker[p].out \in Transit(worker[p].mem) /\ worker[p].pc = "returned"
        BY <1>3, <2>2 DEF SaveResult
      <3>3. worker[p].out \in Terminal
        BY <3>2, <1>r DEF Transit, Terminal, Worker
      <3>4. db'[t] = Finished(db[t], worker[p].out)
        BY <3>1, <1>r
      <3>. QED
        BY <2>1, <3>2, <3>3, <3>4 DEF RowWrite
    <2>3. CASE HandlerSave(p)
      <3>1. db'[t] = Finished(db[t], Verdict(p))
        BY <1>3, <2>1, <2>3, <1>r DEF HandlerSave
      <3>2. Verdict(p) \in Terminal /\ Verdict(p) # "cancelled"
        BY DEF Verdict, Terminal
      <3>. QED
        BY <2>1, <3>1, <3>2 DEF RowWrite
    <2>. QED
      BY <1>3, <2>2, <2>3
  <1>. QED
    BY <1>1, <1>2, <1>3
    DEF Execute, Claim, Skip, Refresh, SandboxReturns, CancelPoll, SandboxRaises,
        IndexLog, HandlerRead, Retry, taskVars

LEMMA RowWritten ==
  ASSUME NoBypass, TypeOK, Quiet, [Next]_vars, NEW t \in Tasks
  PROVE  RowWrite(t)
  <1>1. CASE db' = db
    BY <1>1 DEF RowWrite
  <1>2. ~Reschedule
    BY DEF NoBypass, Quiet, NoResched, Reschedule, Proceed, ReschedDetect, ReschedQuery, ReschedSend,
           ReschedAbort, Reset
  <1>. QED
    BY <1>1, <1>2, WriteWeb, WriteExecute
    DEF Next, Broker, DuplicateMessage, LoseMessage, Interrupt, SoftLimit, RetryFails,
        DbFault, HardLimit, Receive, NodesCheck, Node, Heartbeat, AdminOffline, NodeCrash,
        NodeRestart, taskVars, vars

-----------------------------------------------------------------------------
(* Time stamps.  Whoever works on a row has stamped it in its claim, and   *)
(* no stamp is ever taken back: manual status updates set theirs as well.  *)
StampedByClaim ==
  \A p \in Workers : worker[p].pc \in PastClaim
      => db[worker[p].task].status = "deleted" \/ db[worker[p].task].started

StampInv == ExecInv /\ TimestampsAgree /\ StampedByClaim

(* The two stamps of an update.                                            *)
LEMMA StampedByUpdate ==
  ASSUME db \in [Tasks -> Row], NEW t \in Tasks, NEW s \in Status, UpdateStatus(t, s)
  PROVE  /\ s \in Transit(db[t].status) /\ db'[t].status = s
         /\ db[t].started \/ s = "running" => db'[t].started
         /\ s \in {"success", "failed", "timeout"} => db'[t].finished
         /\ ~db[t].finished /\ s = "running" => ~db'[t].finished
  <1>. DEFINE a == db[t].started \/ s = "running"
              b == db[t].finished \/ s \in {"success", "failed", "timeout"}
              row == [db[t] EXCEPT !.status = s, !.started = a, !.finished = b]
  <1>1. row.status = s /\ row.started = a /\ row.finished = b
    <2>1. db[t] \in Row
      OBVIOUS
    <2>. HIDE DEF a, b
    <2>. QED
      BY <2>1 DEF Row
  <1>2. db'[t] = row
    BY DEF UpdateStatus
  <1>3. s \in Transit(db[t].status)
    BY DEF UpdateStatus, Accepts
  <1>4. db'[t].status = s /\ db'[t].started = a /\ db'[t].finished = b
    <2>. HIDE DEF row, a, b
    <2>. QED
      BY <1>1, <1>2
  <1>. QED
    BY <1>3, <1>4, Zenon

LEMMA StampInvNext ==
  ASSUME NoBypass, StampInv, [Next]_vars
  PROVE  StampInv'
  <1>r. TypeOK /\ Quiet /\ db \in [Tasks -> Row] /\ worker \in [Workers -> Worker] /\ ExecInv
    BY DEF StampInv, ExecInv, TypeOK
  <1>1. ExecInv'
    BY <1>r, ExecInvNext
  <1>2. ASSUME NEW t \in Tasks
        PROVE  /\ db'[t].status = "pending" => ~db'[t].started /\ ~db'[t].finished
               /\ db'[t].status = "running" => db'[t].started /\ ~db'[t].finished
               /\ db'[t].status \in {"success", "failed", "timeout"}
                     => db'[t].started /\ db'[t].finished
               /\ db[t].started /\ db'[t].status # "deleted" /\ db[t].status # "none"
                     => db'[t].started
    <2>1. RowWrite(t) /\ db[t] \in Row
      BY <1>r, RowWritten
    <2>2. /\ db[t].status = "pending" => ~db[t].started /\ ~db[t].finished
          /\ db[t].status = "running" => db[t].started /\ ~db[t].finished
          /\ db[t].status \in {"success", "failed", "timeout"}
                => db[t].started /\ db[t].finished
      BY DEF StampInv, TimestampsAgree
    <2>3. ASSUME NEW p \in Workers, NEW s \in Terminal, Executes(p, t), Exists(t),
                 db'[t] = Finished(db[t], s)
          PROVE  db'[t].status = s /\ db'[t].started /\ db'[t].finished
      <3>1. db[t].started
        BY <2>3 DEF StampInv, StampedByClaim, Executes, Exists, Absent
      <3>. QED
        BY <2>1, <2>3, <3>1 DEF Finished, Row
    <2>4. ASSUME db[t].status = "pending",
                 db'[t] = Finished(db[t], "cancelled") \/ db'[t] = Claimed(db[t])
          PROVE  \/ db'[t].status = "cancelled" /\ ~db'[t].started
                 \/ db'[t].status = "running" /\ db'[t].started /\ ~db'[t].finished
      BY <2>1, <2>2, <2>4 DEF Finished, Claimed, Row
    <2>5. ASSUME db[t].status = "running", db'[t] = [db[t] EXCEPT !.cancel = TRUE]
          PROVE  db'[t].status = "running" /\ db'[t].started /\ ~db'[t].finished
      BY <2>1, <2>2, <2>5 DEF Row
    <2>6. ASSUME NEW s \in Status, UpdateStatus(t, s)
          PROVE  \/ s = "running" /\ db'[t].status = s /\ db'[t].started /\ ~db'[t].finished
                 \/ /\ s \in {"success", "failed", "timeout"} /\ db'[t].status = s
                    /\ db'[t].started /\ db'[t].finished
                 \/ /\ s = "cancelled" /\ db'[t].status = s
                    /\ db[t].started => db'[t].started
      <3>1. /\ s \in Transit(db[t].status) /\ db'[t].status = s
            /\ db[t].started \/ s = "running" => db'[t].started
            /\ s \in {"success", "failed", "timeout"} => db'[t].finished
            /\ ~db[t].finished /\ s = "running" => ~db'[t].finished
        BY <1>r, <2>6, StampedByUpdate
      <3>2. \/ db[t].status = "pending" /\ s \in {"running", "cancelled"}
            \/ db[t].status = "running" /\ s \in Terminal
        BY <3>1 DEF Transit
      <3>. QED
        BY <2>2, <3>1, <3>2 DEF Terminal
    <2>. QED
      BY <2>1, <2>2, <2>3, <2>4, <2>5, <2>6 DEF RowWrite, Terminal
  <1>3. ASSUME NEW p \in Workers, worker'[p].pc \in PastClaim
        PROVE  db'[worker'[p].task].status = "deleted" \/ db'[worker'[p].task].started
    <2>. DEFINE t == worker[p].task
    <2>1. \/ worker'[p] = worker[p]
          \/ Claim(p)
          \/ worker[p].pc \in PastClaim /\ worker'[p].task = worker[p].task
      BY <1>3, <1>r, WorkerStep DEF WorkerMove, PastClaim
    <2>2. CASE Claim(p)
      <3>1. t \in Tasks /\ worker'[p].task = t
        BY <1>r, <2>2, GotoPc DEF Claim, TypeOK
      <3>2. db'[t].started
        BY <1>r, <2>2, <3>1 DEF Claim, Claimed, Row
      <3>. QED
        BY <3>1, <3>2
    <2>3. CASE worker[p].pc \in PastClaim /\ worker'[p].task = t
      <3>1. t \in Tasks
        BY <1>r, <2>3 DEF TypeOK, PastClaim
      <3>2. db[t].status = "deleted" \/ db[t].started
        BY <2>3 DEF StampInv, StampedByClaim
      <3>3. db[t].status # "none"
        BY <1>r, <2>3 DEF ExecInv, ClaimedFirst
      <3>4. db[t].status = "deleted" => db'[t].status = "deleted"
        <4>1. RowWrite(t)
          BY <1>r, <3>1, RowWritten
        <4>2. ASSUME NEW s \in Status, UpdateStatus(t, s) PROVE db[t].status # "deleted"
          BY <4>2 DEF UpdateStatus, Accepts, Transit
        <4>. QED
          BY <4>1, <4>2 DEF RowWrite, Exists, Absent
      <3>. QED
        BY <1>2, <2>3, <3>1, <3>2, <3>3, <3>4
    <2>. QED
      BY <1>3, <2>1, <2>2, <2>3
  <1>. QED
    BY <1>1, <1>2, <1>3 DEF StampInv, TimestampsAgree, StampedByClaim

(* The time stamps say what the status says, through every fault and every *)
(* interleaving, manual status updates included, as long as PATCH and the  *)
(* failover command stay away.                                             *)
THEOREM StampsAgree == NoBypass => (Spec => []TimestampsAgree)
  <1>. SUFFICES ASSUME NoBypass PROVE Spec => []TimestampsAgree
    OBVIOUS
  <1>1. Init => StampInv
    BY ExecInvInit
    DEF Init, StampInv, TimestampsAgree, StampedByClaim, NoRow, Idle, PastClaim
  <1>2. StampInv /\ [Next]_vars => StampInv'
    BY StampInvNext
  <1>3. StampInv => TimestampsAgree
    BY DEF StampInv
  <1>. QED
    BY <1>1, <1>2, <1>3, PTL DEF Spec

-----------------------------------------------------------------------------
(* What a step does to the row of t when no manual update runs either.     *)
OutcomeMove(t) ==
  \/ db'[t] = db[t]
  \/ db'[t].status = "deleted"
  \/ db[t].status = "none" /\ db'[t].status = "pending"
  \/ db[t].status = "running" /\ db'[t] = [db[t] EXCEPT !.cancel = TRUE]
  \/ db[t].status = "pending" /\ db'[t] = Finished(db[t], "cancelled")
  \/ db[t].status = "pending" /\ db'[t] = Claimed(db[t])
  \/ /\ db[t].status = "running"
     /\ \E s \in Terminal : /\ db'[t] = Finished(db[t], s)
                            /\ s = "cancelled" => Cancelling(t)

LEMMA RowOutcome ==
  ASSUME Closed, LifeInv, [Next]_vars, NEW t \in Tasks
  PROVE  OutcomeMove(t)
  <1>1. RowWrite(t)
    BY RowWritten DEF Closed, LifeInv, ExecInv
  <1>2. \A s \in Status : ~UpdateStatus(t, s)
    BY DEF UpdateStatus, Closed
  <1>3. ASSUME NEW p \in Workers, Executes(p, t), worker[p].pc \in Holding, Exists(t)
        PROVE  db[t].status = "running"
    BY <1>3 DEF LifeInv, HoldsRow, Executes, Exists, Absent
  <1>. QED
    BY <1>1, <1>2, <1>3, Zenon DEF RowWrite, OutcomeMove, Cancelling, Executes

-----------------------------------------------------------------------------
(* A process that came back with cancelled found the marker on its row.    *)
Asked == \A p \in Workers :
           worker[p].pc = "returned" /\ worker[p].out = "cancelled"
             => \/ db[worker[p].task].status \in Absent
                \/ db[worker[p].task].cancel

OutcomeInv == LifeInv /\ Asked /\ CancelledOnRequest

(* A process that has an answer had it before, or has just got it.         *)
LEMMA ReturnedMove ==
  ASSUME TypeOK, [Next]_vars, NEW p \in Workers, worker'[p].pc = "returned"
  PROVE  worker'[p] = worker[p] \/ SandboxReturns(p) \/ CancelPoll(p)
  <1>w. worker \in [Workers -> Worker]
    BY DEF TypeOK
  <1>1. ASSUME NEW q \in Workers, Execute(q) \/ Interrupt(q), q # p
        PROVE  worker'[p] = worker[p]
    BY <1>1, OwnProcess
  <1>2. ASSUME Execute(p) \/ Interrupt(p) PROVE SandboxReturns(p) \/ CancelPoll(p)
    <2>1. \A l : l # "returned" => ~Goto(p, l)
      BY <1>w, GotoPc
    <2>2. ~Release(p) /\ (Refresh(p) => Release(p))
      BY ReleasePc, RefreshPc
    <2>. QED
      BY <1>2, <2>1, <2>2
      DEF Execute, Claim, Skip, SandboxRaises, SaveResult, IndexLog, HandlerRead, HandlerSave,
          LeaveHandler, Retry, Interrupt, SoftLimit, RetryFails, DbFault, HardLimit
  <1>3. ASSUME NEW q \in Workers, NEW m \in Messages, Receive(q, m)
        PROVE  worker'[p] = worker[p]
    BY <1>3, <1>w DEF Receive, Idle
  <1>4. ASSUME NEW n \in Nodes, NodeCrash(n) PROVE worker'[p] = worker[p]
    BY <1>4 DEF NodeCrash, Idle
  <1>5. CASE UNCHANGED worker
    BY <1>5
  <1>. QED
    BY <1>1, <1>2, <1>3, <1>4, <1>5
    DEF Next, Web, Create, RetryTask, Dispatch, Enqueue, EnqueueFails, UpdateStatus,
        CancelRunning, CancelQueued, Destroy, PatchRead, PatchSave, Broker,
        DuplicateMessage, LoseMessage, NodesCheck, Node, Heartbeat, AdminOffline,
        NodeRestart, Reschedule, Proceed, ReschedDetect, ReschedQuery, ReschedSend, ReschedAbort,
        Reset, vars

LEMMA AskedNext ==
  ASSUME Closed, OutcomeInv, [Next]_vars
  PROVE  Asked'
  <1>. SUFFICES ASSUME NEW p \in Workers, worker'[p].pc = "returned",
                       worker'[p].out = "cancelled",
                       db'[worker'[p].task].status \notin Absent
                PROVE  db'[worker'[p].task].cancel
    BY DEF Asked
  <1>. DEFINE t == worker[p].task
  <1>r. TypeOK /\ db \in [Tasks -> Row] /\ worker \in [Workers -> Worker] /\ LifeInv
    BY DEF OutcomeInv, LifeInv, ExecInv, TypeOK
  <1>1. CASE worker'[p] = worker[p]
    <2>1. t \in Tasks /\ db[t].status \in {"running", "deleted"} /\ db[t] \in Row
      BY <1>1, <1>r DEF TypeOK, LifeInv, HoldsRow, Holding
    <2>2. OutcomeMove(t)
      BY <1>r, <2>1, RowOutcome
    <2>3. db'[t].status \notin {"none", "deleted"}
      BY <1>1 DEF Absent
    <2>4. db[t].status = "running"
      BY <2>1, <2>2, <2>3 DEF OutcomeMove
    <2>5. db[t].cancel
      BY <1>1, <2>4 DEF OutcomeInv, Asked, Absent
    <2>. QED
      BY <1>1, <2>1, <2>2, <2>3, <2>4, <2>5 DEF OutcomeMove, Finished, Row
  <1>2. CASE SandboxReturns(p)
    BY <1>2, <1>r DEF SandboxReturns, SandboxAnswers, ResultStatus, Worker
  <1>3. CASE CancelPoll(p)
    <2>1. db[t].cancel /\ db' = db /\ worker'[p].task = t
      BY <1>3, <1>r, AnswerPc DEF CancelPoll, CancelMarked, taskVars
    <2>. QED
      BY <2>1
  <1>. QED
    BY <1>r, <1>1, <1>2, <1>3, ReturnedMove

LEMMA OutcomeInvNext ==
  ASSUME Closed, OutcomeInv, [Next]_vars
  PROVE  OutcomeInv'
  <1>r. TypeOK /\ db \in [Tasks -> Row] /\ worker \in [Workers -> Worker] /\ LifeInv
    BY DEF OutcomeInv, LifeInv, ExecInv, TypeOK
  <1>1. LifeInv'
    BY <1>r, ExecInvNext, HoldsRowNext DEF LifeInv, Closed
  <1>2. ASSUME NEW t \in Tasks, db'[t].status = "cancelled", db'[t].started
        PROVE  db'[t].cancel
    <2>1. OutcomeMove(t) /\ db[t] \in Row
      BY <1>r, RowOutcome
    <2>2. /\ db[t].status = "pending" => ~db[t].started
          /\ db[t].status = "cancelled" /\ db[t].started => db[t].cancel
      BY <1>r DEF LifeInv, ExecInv, UnstartedFirst, OutcomeInv, CancelledOnRequest
    <2>3. Cancelling(t) /\ db[t].status = "running" => db[t].cancel
      BY DEF OutcomeInv, Asked, Cancelling, Absent
    <2>. QED
      BY <1>2, <2>1, <2>2, <2>3 DEF OutcomeMove, Finished, Claimed, Row
  <1>. QED
    BY <1>1, <1>2, AskedNext DEF OutcomeInv, CancelledOnRequest

LEMMA OutcomeInvHolds == Closed => (Spec => []OutcomeInv)
  <1>. SUFFICES ASSUME Closed PROVE Spec => []OutcomeInv
    OBVIOUS
  <1>1. ASSUME Init PROVE OutcomeInv
    <2>1. LifeInv
      BY <1>1, ExecInvInit DEF Init, Idle, HoldsRow, Holding, LifeInv
    <2>. QED
      BY <1>1, <2>1
      DEF Init, NoRow, Idle, OutcomeInv, Asked, CancelledOnRequest
  <1>2. OutcomeInv /\ [Next]_vars => OutcomeInv'
    BY OutcomeInvNext
  <1>. QED
    BY <1>1, <1>2, PTL DEF Spec

(* A task that has started ends up cancelled only if its user asked, as    *)
(* long as the manual status update stays away too.                        *)
THEOREM CancelledWhenAsked == Closed => (Spec => []CancelledOnRequest)
  <1>1. OutcomeInv => CancelledOnRequest
    BY DEF OutcomeInv
  <1>. QED
    BY <1>1, OutcomeInvHolds, PTL

-----------------------------------------------------------------------------
(* Executors.  Process p still has to write the outcome of t.              *)
Owes(p, t) == Executes(p, t) /\ worker[p].pc \notin {"indexing", "retry"}

(* A process that goes on in execute_task goes on owing the outcome while  *)
(* the row is running.                                                     *)
LEMMA OwesExecute ==
  ASSUME TypeOK, NEW p \in Workers, Execute(p),
         NEW t \in Tasks, Owes(p, t), db'[t].status = "running"
  PROVE  Owes(p, t)'
  <1>r. /\ db \in [Tasks -> Row] /\ worker \in [Workers -> Worker]
        /\ worker[p].task = t /\ worker[p].pc \in PastClaim \ {"indexing", "retry"}
    BY DEF TypeOK, Owes, Executes
  <1>g. ASSUME NEW l \in PastClaim \ {"indexing", "retry"}, Goto(p, l)
        PROVE  Owes(p, t)'
    BY <1>g, <1>r, GotoPc DEF Owes, Executes
  <1>1. CASE Refresh(p)
    <2>1. Exists(t)
      BY <1>1 DEF Refresh, Exists, Absent, taskVars
    <2>2. worker'[p].pc = "running" /\ worker'[p].task = t
      BY <1>1, <1>r, <2>1 DEF Refresh, Worker
    <2>. QED
      BY <2>2 DEF Owes, Executes, PastClaim
  <1>2. CASE SandboxReturns(p) \/ CancelPoll(p)
    BY <1>2, <1>r, AnswerPc DEF SandboxReturns, CancelPoll, Owes, Executes, PastClaim
  <1>3. CASE SandboxRaises(p)
    BY <1>3, <1>g DEF SandboxRaises, PastClaim
  <1>4. CASE SaveResult(p)
    <2>1. CASE db' = [db EXCEPT ![t] = Finished(@, worker[p].out)]
               /\ worker[p].out \in Transit(worker[p].mem)
      <3>1. worker[p].out # "running"
        BY <2>1, <1>r DEF Worker, Terminal, Transit
      <3>. QED
        BY <2>1, <3>1, <1>r DEF Finished, Row
    <2>2. CASE Goto(p, "exc")
      BY <2>2, <1>g DEF PastClaim
    <2>. QED
      BY <1>4, <1>r, <2>1, <2>2 DEF SaveResult
  <1>5. CASE HandlerRead(p)
    <2>1. Accepts(t, Verdict(p))
      BY <1>5 DEF HandlerRead, Accepts, Verdict, Transit, Terminal, taskVars
    <2>2. Goto(p, "softsave") \/ Goto(p, "excsave")
      BY <1>5, <1>r, <2>1 DEF HandlerRead
    <2>. QED
      BY <2>2, <1>g DEF PastClaim
  <1>6. ~HandlerSave(p)
    <2>. SUFFICES ASSUME HandlerSave(p) PROVE FALSE
      OBVIOUS
    <2>1. CASE Exists(t)
      <3>1. db'[t].status = Verdict(p)
        BY <1>r, <2>1 DEF HandlerSave, Finished, Row
      <3>. QED
        BY <3>1 DEF Verdict
    <2>2. CASE ~Exists(t)
      BY <1>r, <2>2 DEF HandlerSave, Exists, Absent
    <2>. QED
      BY <2>1, <2>2
  <1>7. ~Claim(p) /\ ~Skip(p) /\ ~IndexLog(p) /\ ~Retry(p)
    BY <1>r DEF Claim, Skip, IndexLog, Retry, PastClaim
  <1>. QED
    BY <1>1, <1>2, <1>3, <1>4, <1>5, <1>6, <1>7 DEF Execute

(* An interrupt that is not one of Abandons leaves the debt to a handler.  *)
LEMMA OwesInterrupt ==
  ASSUME TypeOK, NEW p \in Workers, Interrupt(p),
         NEW t \in Tasks, Owes(p, t), ~Abandons(t)
  PROVE  Owes(p, t)'
  <1>r. /\ worker \in [Workers -> Worker] /\ p \in Executors(t)
        /\ worker[p].task = t /\ worker[p].pc \in PastClaim \ {"indexing", "retry"}
    BY DEF TypeOK, Owes, Executes, Executors
  <1>1. Goto(p, "soft") \/ Goto(p, "exc")
    <2>1. ~HardLimit(p) /\ (DbFault(p) => worker[p].pc = "returned")
          /\ (SoftLimit(p) => worker[p].pc \notin {"claimed", "exc", "excsave"})
      BY <1>r DEF Abandons
    <2>. QED
      BY <1>r, <2>1 DEF Interrupt, SoftLimit, RetryFails, DbFault, PastClaim
  <1>. QED
    BY <1>1, <1>r, GotoPc DEF Owes, Executes, PastClaim

(* The one step of execute_task that makes a row running is the claim ...  *)
LEMMA ExecuteRuns ==
  ASSUME TypeOK, NEW p \in Workers, Execute(p), NEW t \in Tasks,
         db[t].status # "running", db'[t].status = "running"
  PROVE  Owes(p, t)'
  <1>r. db \in [Tasks -> Row] /\ worker \in [Workers -> Worker]
    BY DEF TypeOK
  <1>1. ~SaveResult(p)
    <2>1. worker[p].out \in Transit(worker[p].mem) => worker[p].out # "running"
      BY <1>r DEF Worker, Terminal, Transit
    <2>. QED
      BY <1>r, <2>1 DEF SaveResult, Finished, Row
  <1>2. ~HandlerSave(p)
    BY <1>r DEF HandlerSave, Finished, Verdict, Row
  <1>3. Claim(p)
    BY <1>1, <1>2
    DEF Execute, Skip, Refresh, SandboxReturns, CancelPoll, SandboxRaises, IndexLog,
        HandlerRead, Retry, taskVars
  <1>4. worker[p].task = t
    BY <1>3, <1>r DEF Claim
  <1>. QED
    BY <1>3, <1>4, <1>r, GotoPc DEF Claim, Owes, Executes, PastClaim

(* ... and no other step does but two of Abandons.                         *)
LEMMA OthersDoNotRun ==
  ASSUME TypeOK, [Next]_vars, NEW t \in Tasks, db[t].status # "running",
         db'[t].status = "running", ~Abandons(t)
  PROVE  \E p \in Workers : Execute(p)
  <1>r. db \in [Tasks -> Row]
    BY DEF TypeOK
  <1>1. ASSUME NEW u \in Tasks, Web(u) PROVE FALSE
    <2>1. ~PatchSave(u)
      BY <1>r DEF PatchSave, Abandons
    <2>2. ASSUME NEW s \in Status, UpdateStatus(u, s) PROVE FALSE
      <3>1. CASE u = t
        <4>1. db'[t].status = s
          BY <2>2, <3>1, <1>r DEF UpdateStatus, Row
        <4>. QED
          BY <2>2, <3>1, <4>1 DEF Abandons
      <3>2. CASE u # t
        BY <2>2, <3>2, <1>r DEF UpdateStatus
      <3>. QED
        BY <3>1, <3>2
    <2>. QED
      BY <1>1, <1>r, <2>1, <2>2
      DEF Web, Create, RetryTask, Dispatch, Enqueue, EnqueueFails, CancelRunning,
          CancelQueued, Destroy, PatchRead, NoRow, Finished, Row, taskVars
  <1>2. ASSUME NEW k \in Commands, NEW u \in Tasks, Reset(k, u) PROVE FALSE
    BY <1>2, <1>r DEF Reset, ResetRow, Row
  <1>. QED
    BY <1>1, <1>2
    DEF Next, Broker, DuplicateMessage, LoseMessage, Interrupt, SoftLimit, RetryFails,
        DbFault, HardLimit, Receive, NodesCheck, Node, Heartbeat, AdminOffline, NodeCrash,
        NodeRestart, Reschedule, Proceed, ReschedDetect, ReschedQuery, ReschedSend, ReschedAbort,
        taskVars, vars

(* Nothing but its own steps, an interrupt or a crash moves a process past *)
(* its claim.                                                              *)
LEMMA OwesElsewhere ==
  ASSUME TypeOK, [Next]_vars, NEW p \in Workers, NEW t \in Tasks, Owes(p, t),
         ~Execute(p), ~Interrupt(p), ~NodeCrash(NodeOf[p])
  PROVE  Owes(p, t)'
  <1>r. worker \in [Workers -> Worker]
    BY DEF TypeOK
  <1>1. ASSUME NEW q \in Workers, Execute(q) \/ Interrupt(q) PROVE worker'[p] = worker[p]
    BY <1>1, OwnProcess
  <1>2. ASSUME NEW q \in Workers, NEW m \in Messages, Receive(q, m)
        PROVE  worker'[p] = worker[p]
    BY <1>2, <1>r DEF Receive, Owes, Executes, PastClaim
  <1>3. ASSUME NEW n \in Nodes, NodeCrash(n) PROVE worker'[p] = worker[p]
    BY <1>3 DEF NodeCrash
  <1>4. worker'[p] = worker[p]
    BY <1>1, <1>2, <1>3
    DEF Next, Web, Create, RetryTask, Dispatch, Enqueue, EnqueueFails, UpdateStatus,
        CancelRunning, CancelQueued, Destroy, PatchRead, PatchSave, Broker,
        DuplicateMessage, LoseMessage, NodesCheck, Node, Heartbeat, AdminOffline,
        NodeRestart, Reschedule, Proceed, ReschedDetect, ReschedQuery, ReschedSend,
        ReschedAbort, Reset, vars
  <1>. QED
    BY <1>4 DEF Owes, Executes

(* Abandoned, by the name of the debt.                                     *)
LEMMA AbandonedOwes ==
  ASSUME NEW t \in Tasks
  PROVE  Abandoned(t) <=> db[t].status = "running" /\ ~\E p \in Workers : Owes(p, t)
  BY DEF Abandoned, Owes, Executors

LEMMA AbandonExecute ==
  ASSUME TypeOK, NEW p \in Workers, Execute(p), NEW t \in Tasks, ~Abandoned(t)
  PROVE  ~Abandoned(t)'
  <1>. SUFFICES ASSUME db'[t].status = "running" PROVE \E q \in Workers : Owes(q, t)'
    BY DEF Abandoned, Owes, Executors
  <1>1. CASE db[t].status # "running"
    BY <1>1, ExecuteRuns
  <1>2. CASE db[t].status = "running"
    <2>1. PICK q \in Workers : Owes(q, t)
      BY <1>2, AbandonedOwes
    <2>2. CASE q = p
      BY <2>1, <2>2, OwesExecute
    <2>3. CASE q # p
      <3>1. worker'[q] = worker[q]
        BY <2>3, OwnProcess
      <3>. QED
        BY <2>1, <3>1 DEF Owes, Executes
    <2>. QED
      BY <2>2, <2>3
  <1>. QED
    BY <1>1, <1>2

LEMMA AbandonStep ==
  ASSUME TypeOK, [Next]_vars, NEW t \in Tasks, ~Abandoned(t), ~Abandons(t)
  PROVE  ~Abandoned(t)'
  <1>1. CASE \E p \in Workers : Execute(p)
    BY <1>1, AbandonExecute
  <1>2. CASE \A p \in Workers : ~Execute(p)
    <2>. SUFFICES ASSUME db'[t].status = "running" PROVE \E q \in Workers : Owes(q, t)'
      BY DEF Abandoned, Owes, Executors
    <2>1. db[t].status = "running"
      BY <1>2, OthersDoNotRun
    <2>2. PICK q \in Workers : Owes(q, t)
      BY <2>1, AbandonedOwes
    <2>3. ~NodeCrash(NodeOf[q])
      BY <2>2 DEF Abandons, Owes, Executors
    <2>. QED
      BY <1>2, <2>2, <2>3, OwesInterrupt, OwesElsewhere
  <1>. QED
    BY <1>1, <1>2

(* Under every request and fault a running row loses the last process that *)
(* would write its outcome only by one of the steps of Abandons, and never *)
(* by a step of execute_task.                                              *)
THEOREM AbandonedByFaultOnly == Spec => AbandonedByFault
  <1>1. TypeOK /\ [Next]_vars =>
          [\A t \in Tasks : ~Abandoned(t) /\ Abandoned(t)'
              => Abandons(t) /\ \A p \in Workers : ~Execute(p)]_vars
    BY AbandonStep, AbandonExecute
  <1>. QED
    BY <1>1, TypeCorrect, PTL DEF Spec, AbandonedByFault

(* Only a worker starts a task, and nothing stops a process before it has  *)
(* tried to write an outcome: no kill, no crash, no failing database, and  *)
(* no soft limit outside the try block of execute_task.  The broker may    *)
(* fail, tasks may be cancelled and deleted, and the failover command may  *)
(* run.                                                                    *)
NoAbandon == Env \cap {"status", "patch", "db", "soft_limit_outside", "hard_limit",
                      "node_crash"} = {}

OwedInv == TypeOK /\ snap = [t \in Tasks |-> NoRow] /\ RunningHasExecutor

LEMMA OwedNext ==
  ASSUME NoAbandon, OwedInv, [Next]_vars
  PROVE  OwedInv'
  <1>1. TypeOK' /\ snap' = [t \in Tasks |-> NoRow]
    BY NextType, SnapKept DEF OwedInv, NoAbandon
  <1>2. ASSUME NEW t \in Tasks PROVE ~Abandoned(t)'
    <2>1. TypeOK /\ ~Abandoned(t)
      BY DEF OwedInv, RunningHasExecutor, Abandoned
    <2>2. ~Abandons(t)
      BY DEF OwedInv, NoAbandon, Abandons, UpdateStatus, PatchSave, HardLimit, NodeCrash,
             DbFault, SoftLimit
    <2>. QED
      BY <2>1, <2>2, AbandonStep
  <1>. QED
    BY <1>1, <1>2 DEF OwedInv, RunningHasExecutor, Abandoned

(* A running row is never left without a process that still has to write   *)
(* its outcome, whatever cancels, deletions, sandbox failures, retries,    *)
(* broker faults and failover runs interleave, and soft limits in the try  *)
(* block, as long as no process is killed, no soft limit strikes before    *)
(* the try block or in a handler, the database answers, and neither PATCH  *)
(* nor the manual status update makes a row running.                       *)
THEOREM OutcomeOwed == NoAbandon => (Spec => []RunningHasExecutor)
  <1>. SUFFICES ASSUME NoAbandon PROVE Spec => []RunningHasExecutor
    OBVIOUS
  <1>1. Init => OwedInv
    BY TypeInit DEF Init, OwedInv, RunningHasExecutor, NoRow
  <1>2. OwedInv /\ [Next]_vars => OwedInv'
    BY OwedNext
  <1>3. OwedInv => RunningHasExecutor
    BY DEF OwedInv
  <1>. QED
    BY <1>1, <1>2, <1>3, PTL DEF Spec
=============================================================================
