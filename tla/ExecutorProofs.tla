--------------------------- MODULE ExecutorProofs --------------------------
(***************************************************************************)
(* What TaskGrid keeps when the failover command runs beside the workers:  *)
(* the processes at work on a task are bounded by the invocations of the   *)
(* command that overlap, and only a save of columns read earlier leaves a  *)
(* terminal status.                                                        *)
(***************************************************************************)
EXTENDS LifecycleProofs, FiniteSetTheorems

(* The writes that skip transit() and look at nothing but the primary key. *)
StaleSave(t) ==
  \/ snap[t] # NoRow /\ db'[t] = snap[t] /\ snap'[t] = NoRow
  \/ \E k \in Commands : /\ t \in resched[k].todo /\ resched'[k].cur = t
                         /\ db'[t].status = "pending"
  \/ \E p \in Executors(t) : /\ worker[p].pc \in {"returned", "softsave", "excsave"}
                             /\ worker'[p].pc # worker[p].pc

(* A started row is left by one of them, by a manual status update that    *)
(* transit() allows, or by deleting it.                                    *)
LEMMA StaleSaves ==
  ASSUME TypeOK, [Next]_vars, NEW t \in Tasks, db[t].status \in {"running"} \cup Terminal,
         db'[t].status \notin {db[t].status, "deleted"}
  PROVE  \/ StaleSave(t)
         \/ db[t].status = "running" /\ \E s \in Status : UpdateStatus(t, s)
  <1>. DEFINE Goal == \/ StaleSave(t)
                      \/ db[t].status = "running" /\ \E s \in Status : UpdateStatus(t, s)
  <1>r. db \in [Tasks -> Row] /\ worker \in [Workers -> Worker]
    BY DEF TypeOK
  <1>0. db'[t] # db[t]
    OBVIOUS
  <1>n. /\ db[t].status \notin {"none", "pending"} /\ Exists(t)
        /\ db[t].status = "running" \/ Transit(db[t].status) = {}
    BY DEF Terminal, Transit, Exists, Absent
  <1>1. ASSUME NEW u \in Tasks, Web(u) PROVE Goal
    <2>1. CASE PatchSave(u)
      BY <1>0, <2>1, <1>r DEF PatchSave, StaleSave, TypeOK
    <2>2. ~Dispatch(u)
      BY <1>0, <1>n, <1>r DEF Dispatch
    <2>3. ASSUME NEW s \in Status, UpdateStatus(u, s) PROVE Goal
      BY <1>0, <1>n, <1>r, <2>3 DEF UpdateStatus, Accepts
    <2>4. ~CancelRunning(u) /\ ~CancelQueued(u)
      <3>1. CASE CancelRunning(u)
        BY <3>1, <1>r DEF CancelRunning, Row
      <3>2. CASE CancelQueued(u)
        BY <1>0, <1>n, <1>r, <3>2 DEF CancelQueued, Accepts
      <3>. QED
        BY <3>1, <3>2
    <2>5. ~Destroy(u)
      BY <1>r DEF Destroy, NoRow
    <2>. QED
      BY <1>0, <1>1, <2>1, <2>2, <2>3, <2>4, <2>5
      DEF Web, Create, RetryTask, Enqueue, EnqueueFails, PatchRead, taskVars
  <1>2. ASSUME NEW p \in Workers, Execute(p) PROVE Goal
    <2>1. worker[p].task = t
      BY <1>0, <1>2, OwnRow
    <2>2. CASE SaveResult(p)
      <3>1. worker[p].pc = "returned" /\ worker'[p].pc # "returned"
        BY <1>r, <2>2, GotoPc DEF SaveResult
      <3>. QED
        BY <2>1, <3>1 DEF StaleSave, Executors, Executes, PastClaim
    <2>3. CASE HandlerSave(p)
      <3>1. /\ worker[p].pc \in {"softsave", "excsave"}
            /\ worker'[p].pc \in {"idle", "retry"}
        BY <1>r, <2>3, GotoPc, ReleasePc DEF HandlerSave, LeaveHandler
      <3>. QED
        BY <2>1, <3>1 DEF StaleSave, Executors, Executes, PastClaim
    <2>4. ~Claim(p)
      BY <1>n, <2>1 DEF Claim, Claimable
    <2>. QED
      BY <1>0, <1>2, <2>2, <2>3, <2>4
      DEF Execute, Skip, Refresh, SandboxReturns, CancelPoll, SandboxRaises, IndexLog,
          HandlerRead, Retry, taskVars
  <1>3. ASSUME NEW k \in Commands, NEW u \in Tasks, Reset(k, u) PROVE Goal
    <2>1. /\ u = t /\ t \in resched[k].todo /\ resched[k] \in Resched
          /\ resched'[k] = [resched[k] EXCEPT !.pc = "send", !.cur = t,
                                              !.todo = resched[k].todo \ {t}]
          /\ db' = [db EXCEPT ![t] = ResetRow(@)]
      BY <1>0, <1>3, <1>r DEF Reset, AfterReset, TypeOK
    <2>2. resched'[k].cur = t
      BY <2>1 DEF Resched
    <2>3. db'[t].status = "pending"
      BY <1>r, <2>1 DEF ResetRow, Row
    <2>. QED
      BY <2>1, <2>2, <2>3 DEF StaleSave
  <1>. QED
    BY <1>0, <1>1, <1>2, <1>3
    DEF Next, Broker, DuplicateMessage, LoseMessage, Interrupt, SoftLimit, RetryFails,
        DbFault, HardLimit, Receive, NodesCheck, Node, Heartbeat, AdminOffline, NodeCrash,
        NodeRestart, Reschedule, Proceed, ReschedDetect, ReschedQuery, ReschedSend, ReschedAbort,
        taskVars, vars

(* Whatever requests and faults there are, only a save of columns read     *)
(* earlier - by PATCH, the failover command or a worker - leaves a         *)
(* terminal status: the row locks of update_status and cancel and the      *)
(* conditional UPDATE of the workers never do.                             *)
THEOREM LocksKeepTerminal == Spec => OnlyStaleSavesLeaveTerminal
  <1>. DEFINE Keeps ==
         \A t \in Tasks :
           db[t].status \in Terminal /\ db'[t].status \notin {db[t].status, "deleted"} =>
             \/ snap[t] # NoRow /\ db'[t] = snap[t] /\ snap'[t] = NoRow
             \/ \E k \in Commands : t \in resched[k].todo /\ resched'[k].cur = t
             \/ \E p \in Executors(t) :
                  /\ worker[p].pc \in {"returned", "softsave", "excsave"}
                  /\ worker'[p].pc # worker[p].pc
  <1>1. ASSUME TypeOK, [Next]_vars, NEW t \in Tasks, db[t].status \in Terminal,
               db'[t].status \notin {db[t].status, "deleted"}
        PROVE  StaleSave(t)
    BY <1>1, StaleSaves DEF Terminal
  <1>2. TypeOK /\ [Next]_vars => [Keeps]_vars
    BY <1>1 DEF StaleSave
  <1>. QED
    BY <1>2, TypeCorrect, PTL DEF OnlyStaleSavesLeaveTerminal, Spec

-----------------------------------------------------------------------------
(* The bound on executors.  A reset wipes worker_id, so that a task that   *)
(* still names a node was never reset: only such a task is listed again,   *)
(* and at most one process works on it.                                    *)
Waits(t) == IF db[t].status = "pending" THEN 1 ELSE 0

Bounded(t) ==
  /\ db[t].status = "none" => Executors(t) = {} /\ Resetters(t) = {}
  /\ db[t].worker # NoNode => Cardinality(Executors(t)) + Waits(t) <= 1
  /\ Cardinality(Executors(t)) + Cardinality(Resetters(t)) + Waits(t)
        <= Cardinality(Commands) + 1

(* No PATCH is under way.                                                  *)
Patchless == TypeOK /\ snap = [t \in Tasks |-> NoRow]

BoundInv == Patchless /\ \A t \in Tasks : Bounded(t)

(* A process has yet to save an outcome of t it has decided on.            *)
Writing(t) == \E p \in Executors(t) : worker[p].pc \in {"returned", "softsave", "excsave"}

(* What a step does to the row of t when no stale PATCH is saved.          *)
BoundMove(t) ==
  \/ db'[t] = db[t]
  \/ db[t].status = "none" /\ db'[t].status = "pending"
  \/ db'[t].status = "deleted" /\ db'[t].worker = NoNode
  \/ /\ Exists(t) /\ db'[t].status \notin {"none", "pending"}
     /\ db'[t].worker = db[t].worker
     /\ db[t].status \notin Terminal \/ (Writing(t) /\ db'[t].status \in Terminal)
  \/ /\ \E k \in Resetters(t) : k \notin Resetters(t)'
     /\ Exists(t)
     /\ db'[t].status = "pending" /\ db'[t].worker = NoNode

LEMMA BoundRow ==
  ASSUME Patchless, [Next]_vars, NEW t \in Tasks
  PROVE  BoundMove(t)
  <1>r. /\ db \in [Tasks -> Row] /\ worker \in [Workers -> Worker]
        /\ resched \in [Commands -> Resched]
    BY DEF Patchless, TypeOK
  <1>0. CASE db'[t] = db[t]
    BY <1>0 DEF BoundMove
  <1>1. ASSUME NEW u \in Tasks, Web(u), db'[t] # db[t] PROVE BoundMove(t)
    <2>1. ~PatchSave(u)
      BY DEF Patchless, PatchSave
    <2>2. CASE Dispatch(u)
      BY <1>1, <2>2, <1>r DEF Dispatch, NoRow, BoundMove
    <2>3. ASSUME NEW s \in Status, UpdateStatus(u, s) PROVE BoundMove(t)
      <3>1. s \in Transit(db[u].status)
        BY <2>3 DEF UpdateStatus, Accepts
      <3>2. s \notin {"none", "pending"} /\ Exists(u) /\ db[u].status \notin Terminal
        BY <3>1 DEF Transit, Terminal, Exists, Absent
      <3>3. t = u /\ db'[t].status = s /\ db'[t].worker = db[t].worker
        BY <1>1, <2>3, <1>r DEF UpdateStatus, Row
      <3>. QED
        BY <3>2, <3>3 DEF BoundMove
    <2>4. CASE CancelRunning(u)
      BY <1>1, <2>4, <1>r DEF CancelRunning, BoundMove, Row, Exists, Absent, Terminal
    <2>5. CASE CancelQueued(u)
      <3>1. Exists(u) /\ db[u].status \notin Terminal
        BY <2>5 DEF CancelQueued, Accepts, Transit, Exists, Absent, Terminal
      <3>. QED
        BY <1>1, <2>5, <3>1, <1>r DEF CancelQueued, Finished, BoundMove, Row
    <2>6. CASE Destroy(u)
      BY <1>1, <2>6, <1>r DEF Destroy, NoRow, BoundMove
    <2>. QED
      BY <1>1, <2>1, <2>2, <2>3, <2>4, <2>5, <2>6
      DEF Web, Create, RetryTask, Enqueue, EnqueueFails, PatchRead, taskVars
  <1>2. ASSUME NEW p \in Workers, Execute(p), db'[t] # db[t] PROVE BoundMove(t)
    <2>1. worker[p].task = t
      BY <1>2, OwnRow DEF Patchless
    <2>2. CASE Claim(p)
      BY <2>1, <2>2, <1>r DEF Claim, Claimable, Claimed, Row, Exists, Absent, Terminal, BoundMove
    <2>3. CASE SaveResult(p)
      <3>1. /\ Exists(t) /\ worker[p].out \in Transit(worker[p].mem)
            /\ db' = [db EXCEPT ![t] = Finished(@, worker[p].out)]
        BY <1>2, <2>1, <2>3 DEF SaveResult
      <3>2. worker[p].out \notin {"none", "pending"} /\ worker[p].out \in Terminal
        BY <3>1, <1>r DEF Transit, Terminal, Worker
      <3>3. Writing(t)
        BY <2>1, <2>3 DEF SaveResult, Writing, Executors, Executes, PastClaim
      <3>. QED
        BY <3>1, <3>2, <3>3, <1>r DEF Finished, Row, BoundMove
    <2>4. CASE HandlerSave(p)
      <3>1. Exists(t) /\ db' = [db EXCEPT ![t] = Finished(@, Verdict(p))]
        BY <1>2, <2>1, <2>4 DEF HandlerSave
      <3>2. Verdict(p) \notin {"none", "pending"} /\ Verdict(p) \in Terminal
        BY DEF Verdict, Terminal
      <3>3. Writing(t)
        BY <2>1, <2>4 DEF HandlerSave, Writing, Executors, Executes, PastClaim
      <3>. QED
        BY <3>1, <3>2, <3>3, <1>r DEF Finished, Row, BoundMove
    <2>. QED
      BY <1>2, <2>2, <2>3, <2>4
      DEF Execute, Skip, Refresh, SandboxReturns, CancelPoll, SandboxRaises, IndexLog,
          HandlerRead, Retry, taskVars
  <1>3. ASSUME NEW k \in Commands, NEW u \in Tasks, Reset(k, u), db'[t] # db[t]
        PROVE  BoundMove(t)
    <2>1. /\ t = u /\ Exists(t) /\ t \in resched[k].todo
          /\ db' = [db EXCEPT ![t] = ResetRow(@)]
          /\ resched'[k] = [resched[k] EXCEPT !.pc = "send", !.cur = t,
                                              !.todo = resched[k].todo \ {t}]
      BY <1>3, <1>r DEF Reset, AfterReset
    <2>2. k \in Resetters(t) /\ k \notin Resetters(t)'
      <3>1. t \notin resched'[k].todo
        BY <2>1, <1>r DEF Resched
      <3>. QED
        BY <2>1, <3>1 DEF Resetters
    <2>3. db'[t].status = "pending" /\ db'[t].worker = NoNode
      BY <2>1, <1>r DEF ResetRow, Row
    <2>. QED
      BY <2>1, <2>2, <2>3 DEF BoundMove
  <1>. QED
    BY <1>0, <1>1, <1>2, <1>3
    DEF Next, Broker, DuplicateMessage, LoseMessage, Interrupt, SoftLimit, RetryFails,
        DbFault, HardLimit, Receive, NodesCheck, Node, Heartbeat, AdminOffline, NodeCrash,
        NodeRestart, Reschedule, Proceed, ReschedDetect, ReschedQuery, ReschedSend, ReschedAbort,
        taskVars, vars

(* The executors of t only get fewer, but for the process that claims it.  *)
LEMMA ExecutorsMove ==
  ASSUME TypeOK, [Next]_vars, NEW t \in Tasks
  PROVE  \/ Executors(t)' \subseteq Executors(t)
         \/ \E p \in Workers : /\ Claim(p) /\ worker[p].task = t
                               /\ Executors(t)' \subseteq Executors(t) \cup {p}
  <1>1. CASE \A p \in Workers : ~Claim(p)
    <2>1. Shrinks
      BY <1>1, OnlyClaimsStart
    <2>. QED
      BY <2>1 DEF Shrinks, Executors, Executes
  <1>2. ASSUME NEW p \in Workers, Claim(p) PROVE Executors(t)' \subseteq Executors(t) \cup {p}
    <2>1. \A q \in Workers : q # p => worker'[q] = worker[q]
      BY <1>2, OwnProcess DEF Execute
    <2>. QED
      BY <2>1 DEF Executors, Executes
  <1>3. ASSUME NEW p \in Workers, Claim(p), worker[p].task # t
        PROVE  Executors(t)' \subseteq Executors(t)
    <2>1. worker'[p].task # t
      BY <1>3, GotoPc DEF Claim
    <2>. QED
      BY <1>2, <1>3, <2>1 DEF Executors, Executes
  <1>. QED
    BY <1>1, <1>2, <1>3

(* Resetters of t are added only while t runs, and names a node.           *)
LEMMA ResettersMove ==
  ASSUME TypeOK, [Next]_vars, NEW t \in Tasks
  PROVE  \/ Resetters(t)' \subseteq Resetters(t)
         \/ UNCHANGED <<db, worker>> /\ db[t].status = "running" /\ db[t].worker # NoNode
  <1>r. /\ resched \in [Commands -> Resched] /\ db \in [Tasks -> Row]
        /\ \A k \in Commands : /\ resched[k] \in Resched
                                /\ resched[k].todo \subseteq Tasks
                                /\ resched[k].offline \subseteq Nodes
    BY DEF TypeOK, Resched
  <1>n. NoResched.todo = {}
    BY DEF NoResched
  <1>1. ASSUME NEW k \in Commands, ReschedDetect(k)
        PROVE  Resetters(t)' \subseteq Resetters(t)
    <2>1. [NoResched EXCEPT !.pc = "query",
                            !.offline = {n \in Nodes : node'[n] = "offline"}].todo = {}
      BY DEF NoResched
    <2>. QED
      BY <1>1, <1>r, <2>1 DEF ReschedDetect, Resetters
  <1>2. ASSUME NEW k \in Commands, ReschedSend(k)
        PROVE  Resetters(t)' \subseteq Resetters(t)
    <2>1. [resched[k] EXCEPT !.pc = "loop", !.cur = NoTask].todo = resched[k].todo
      BY <1>r DEF Resched
    <2>2. resched'[k].todo \subseteq resched[k].todo
      BY <1>2, <1>r, <1>n, <2>1 DEF ReschedSend
    <2>3. \A l \in Commands : l # k => resched'[l] = resched[l]
      BY <1>2, <1>r DEF ReschedSend
    <2>. QED
      BY <2>2, <2>3 DEF Resetters
  <1>3. ASSUME NEW k \in Commands, ReschedAbort(k)
        PROVE  Resetters(t)' \subseteq Resetters(t)
    BY <1>3, <1>r, <1>n DEF ReschedAbort, Resetters
  <1>4. ASSUME NEW k \in Commands, NEW u \in Tasks, Reset(k, u)
        PROVE  Resetters(t)' \subseteq Resetters(t)
    <2>1. AfterReset(resched[k], u).todo \subseteq resched[k].todo
      BY <1>r DEF AfterReset, Resched
    <2>2. resched'[k].todo \subseteq resched[k].todo
      BY <1>4, <1>r, <1>n, <2>1 DEF Reset
    <2>3. \A l \in Commands : l # k => resched'[l] = resched[l]
      BY <1>4, <1>r DEF Reset
    <2>. QED
      BY <2>2, <2>3 DEF Resetters
  <1>5. ASSUME NEW k \in Commands, ReschedQuery(k), db[t].status # "running" \/ db[t].worker = NoNode
        PROVE  Resetters(t)' \subseteq Resetters(t)
    <2>1. t \notin resched'[k].todo
      BY <1>5, <1>r, <1>n, GridAssumption DEF ReschedQuery, NoResched
    <2>2. \A l \in Commands : l # k => resched'[l] = resched[l]
      BY <1>5, <1>r DEF ReschedQuery
    <2>. QED
      BY <2>1, <2>2 DEF Resetters
  <1>6. ASSUME NEW k \in Commands, ReschedQuery(k) PROVE UNCHANGED <<db, worker>>
    BY <1>6 DEF ReschedQuery, taskVars
  <1>7. CASE UNCHANGED resched
    BY <1>7 DEF Resetters
  <1>. QED
    BY <1>1, <1>2, <1>3, <1>4, <1>5, <1>6, <1>7
    DEF Next, Web, Create, RetryTask, Dispatch, Enqueue, EnqueueFails, UpdateStatus,
        CancelRunning, CancelQueued, Destroy, PatchRead, PatchSave, Broker,
        DuplicateMessage, LoseMessage, Execute, Claim, Skip, Refresh, SandboxReturns,
        CancelPoll, SandboxRaises, SaveResult, IndexLog, HandlerRead, HandlerSave, Retry,
        Interrupt, SoftLimit, RetryFails, DbFault, HardLimit, Receive, NodesCheck, Node,
        Heartbeat, AdminOffline, NodeCrash, NodeRestart, Reschedule, Proceed, vars

(* What the size of a finite set becomes.                                  *)
LEMMA SizeAtMost ==
  ASSUME NEW A, NEW B, IsFiniteSet(B), A \subseteq B
  PROVE  IsFiniteSet(A) /\ Cardinality(A) \in Nat /\ Cardinality(B) \in Nat
         /\ Cardinality(A) <= Cardinality(B)
  BY FS_Subset, FS_CardinalityType

LEMMA SizeGains ==
  ASSUME NEW A, NEW B, NEW x, IsFiniteSet(B), A \subseteq B \cup {x}
  PROVE  Cardinality(A) <= Cardinality(B) + 1
  <1>1. /\ IsFiniteSet(B \cup {x})
        /\ Cardinality(B \cup {x}) = IF x \in B THEN Cardinality(B)
                                    ELSE Cardinality(B) + 1
    BY FS_AddElement
  <1>2. Cardinality(A) \in Nat /\ Cardinality(B) \in Nat
        /\ Cardinality(A) <= Cardinality(B \cup {x})
    BY <1>1, SizeAtMost, FS_CardinalityType
  <1>. QED
    BY <1>1, <1>2

LEMMA SizeLoses ==
  ASSUME NEW A, NEW B, NEW x \in B, IsFiniteSet(B), A \subseteq B, x \notin A
  PROVE  Cardinality(A) + 1 <= Cardinality(B)
  <1>1. IsFiniteSet(B \ {x}) /\ Cardinality(B \ {x}) = Cardinality(B) - 1
    BY FS_RemoveElement
  <1>. QED
    BY <1>1, SizeAtMost, FS_CardinalityType

LEMMA Sizes ==
  ASSUME NEW t \in Tasks
  PROVE  /\ IsFiniteSet(Executors(t)) /\ Cardinality(Executors(t)) \in Nat
         /\ IsFiniteSet(Resetters(t)) /\ Cardinality(Resetters(t)) \in Nat
         /\ Cardinality(Resetters(t)) <= Cardinality(Commands)
         /\ Cardinality(Commands) \in Nat
  BY SizeAtMost, GridAssumption DEF Executors, Resetters

LEMMA BoundedNext ==
  ASSUME BoundInv, [Next]_vars, NEW t \in Tasks
  PROVE  Bounded(t)'
  <1>. DEFINE e0 == Cardinality(Executors(t))
              e1 == Cardinality(Executors(t)')
              r0 == Cardinality(Resetters(t))
              r1 == Cardinality(Resetters(t)')
              c == Cardinality(Commands)
  <1>b. Bounded(t) /\ BoundMove(t)
    BY BoundRow DEF BoundInv
  <1>r. db \in [Tasks -> Row] /\ TypeOK
    BY DEF BoundInv, Patchless, TypeOK
  <1>c. /\ e0 \in Nat /\ r0 \in Nat /\ c \in Nat /\ e1 \in Nat /\ r1 \in Nat /\ r1 <= c
        /\ IsFiniteSet(Executors(t)) /\ IsFiniteSet(Resetters(t))
    <2>1. e1 \in Nat /\ r1 \in Nat /\ r1 <= c
      BY SizeAtMost, GridAssumption DEF Executors, Resetters
    <2>. QED
      BY <2>1, Sizes
  <1>w. Waits(t) \in {0, 1} /\ Waits(t)' \in {0, 1}
    BY DEF Waits
  <1>1. CASE UNCHANGED <<db, worker>> /\ db[t].status = "running" /\ db[t].worker # NoNode
    <2>1. Executors(t)' = Executors(t) /\ db'[t] = db[t] /\ Waits(t)' = Waits(t)
      BY <1>1 DEF Executors, Executes, Waits
    <2>. HIDE DEF e0, e1, r0, r1, c
    <2>2. e1 = e0
      BY <2>1 DEF e0, e1
    <2>3. e0 + Waits(t) <= 1
      BY <1>1, <1>b DEF Bounded, e0
    <2>4. e1 + r1 + Waits(t)' <= c + 1
      BY <1>c, <1>w, <2>1, <2>2, <2>3
    <2>. QED
      BY <1>1, <2>1, <2>2, <2>3, <2>4 DEF Bounded, e0, e1, r0, r1, c
  <1>2. CASE Resetters(t)' \subseteq Resetters(t)
    <2>r. r1 <= r0
      BY <1>2, <1>c, SizeAtMost
    <2>1. CASE Executors(t)' \subseteq Executors(t)
      <3>e. e1 <= e0
        BY <2>1, <1>c, SizeAtMost
      <3>. HIDE DEF e0, e1, r0, r1, c
      <3>1. CASE db'[t] = db[t]
        <4>1. Waits(t)' = Waits(t)
          BY <3>1 DEF Waits
        <4>2. /\ db[t].worker # NoNode => e0 + Waits(t) <= 1
              /\ e0 + r0 + Waits(t) <= c + 1
          BY <1>b DEF Bounded, e0, e1, r0, r1, c
        <4>3. /\ db'[t].worker # NoNode => e1 + Waits(t)' <= 1
              /\ e1 + r1 + Waits(t)' <= c + 1
          BY <1>c, <1>w, <2>r, <3>1, <3>e, <4>1, <4>2
        <4>4. db'[t].status = "none" => Executors(t)' = {} /\ Resetters(t)' = {}
          BY <1>b, <1>2, <2>1, <3>1 DEF Bounded
        <4>. QED
          BY <4>3, <4>4 DEF Bounded, e0, e1, r0, r1, c
      <3>2. CASE db[t].status = "none" /\ db'[t].status = "pending"
        <4>1. e1 = 0 /\ r1 = 0
          BY <1>b, <1>2, <2>1, <3>2, FS_EmptySet DEF Bounded, e0, e1, r0, r1
        <4>2. e1 + Waits(t)' <= 1 /\ e1 + r1 + Waits(t)' <= c + 1
          BY <1>c, <1>w, <4>1
        <4>. QED
          BY <3>2, <4>2 DEF Bounded, e0, e1, r0, r1, c
      <3>3. CASE /\ db'[t].status \notin {"none", "pending"}
                 /\ db'[t].worker \in {NoNode, db[t].worker}
        <4>1. Waits(t)' = 0
          BY <3>3 DEF Waits
        <4>2. /\ db[t].worker # NoNode => e0 + Waits(t) <= 1
              /\ e0 + r0 + Waits(t) <= c + 1
          BY <1>b DEF Bounded, e0, e1, r0, r1, c
        <4>3. /\ db'[t].worker # NoNode => e1 + Waits(t)' <= 1
              /\ e1 + r1 + Waits(t)' <= c + 1
          BY <1>c, <1>w, <2>r, <3>3, <3>e, <4>1, <4>2
        <4>. QED
          BY <3>3, <4>3 DEF Bounded, e0, e1, r0, r1, c
      <3>4. CASE /\ \E k \in Resetters(t) : k \notin Resetters(t)'
                 /\ db'[t].status = "pending" /\ db'[t].worker = NoNode
        <4>1. r1 + 1 <= r0
          BY <1>c, <1>2, <3>4, SizeLoses DEF r0, r1
        <4>2. e0 + r0 + Waits(t) <= c + 1
          BY <1>b DEF Bounded, e0, e1, r0, r1, c
        <4>3. e1 + r1 + Waits(t)' <= c + 1
          BY <1>c, <1>w, <3>e, <4>1, <4>2
        <4>. QED
          BY <3>4, <4>3 DEF Bounded, e0, e1, r0, r1, c
      <3>5. \/ db'[t] = db[t]
            \/ db[t].status = "none" /\ db'[t].status = "pending"
            \/ /\ db'[t].status \notin {"none", "pending"}
               /\ db'[t].worker \in {NoNode, db[t].worker}
            \/ /\ \E k \in Resetters(t) : k \notin Resetters(t)'
               /\ db'[t].status = "pending" /\ db'[t].worker = NoNode
        BY <1>b DEF BoundMove
      <3>. QED
        BY <3>1, <3>2, <3>3, <3>4, <3>5
    <2>2. ASSUME NEW p \in Workers, Claim(p), worker[p].task = t,
                 Executors(t)' \subseteq Executors(t) \cup {p}
          PROVE  Bounded(t)'
      <3>e. e1 <= e0 + 1
        BY <2>2, <1>c, SizeGains
      <3>. HIDE DEF e0, e1, r0, r1, c
      <3>1. /\ db[t].status = "pending"
            /\ db'[t].status = "running" /\ db'[t].worker = db[t].worker
        BY <2>2, <1>r DEF Claim, Claimable, Claimed, Row
      <3>2. Waits(t) = 1 /\ Waits(t)' = 0
        BY <3>1 DEF Waits
      <3>3. /\ db[t].worker # NoNode => e0 + Waits(t) <= 1
            /\ e0 + r0 + Waits(t) <= c + 1
        BY <1>b DEF Bounded, e0, e1, r0, r1, c
      <3>4. /\ db'[t].worker # NoNode => e1 + Waits(t)' <= 1
            /\ e1 + r1 + Waits(t)' <= c + 1
        BY <1>c, <2>r, <3>e, <3>1, <3>2, <3>3
      <3>. QED
        BY <3>1, <3>4 DEF Bounded, e0, e1, r0, r1, c
    <2>. QED
      BY <1>r, <2>1, <2>2, ExecutorsMove
  <1>. QED
    BY <1>1, <1>2, <1>r, ResettersMove

LEMMA PatchlessNext ==
  ASSUME "patch" \notin Env, Patchless, [Next]_vars
  PROVE  Patchless'
  BY NextType, SnapKept DEF Patchless

(* Whatever crashes, is duplicated, cancelled or retried, and however      *)
(* often the failover command runs, at most one process more than there    *)
(* are overlapping invocations of the command works on a task, as long as  *)
(* no stale PATCH puts a worker_id back.                                   *)
THEOREM ExecutorsStayBounded == "patch" \notin Env => (Spec => []ExecutorsBounded)
  <1>. SUFFICES ASSUME "patch" \notin Env PROVE Spec => []ExecutorsBounded
    OBVIOUS
  <1>1. Init => BoundInv
    <2>. SUFFICES ASSUME Init PROVE BoundInv
      OBVIOUS
    <2>1. Patchless
      BY TypeInit DEF Init, Patchless
    <2>2. ASSUME NEW t \in Tasks PROVE Bounded(t)
      <3>1. /\ Executors(t) = {} /\ Resetters(t) = {}
            /\ db[t].worker = NoNode /\ Waits(t) = 0
        BY DEF Init, NoRow, NoResched, Idle, Executors, Executes, PastClaim, Resetters, Waits
      <3>2. Cardinality({}) = 0
        BY FS_EmptySet
      <3>. QED
        BY <3>1, <3>2, Sizes DEF Bounded
    <2>. QED
      BY <2>1, <2>2 DEF BoundInv
  <1>2. BoundInv /\ [Next]_vars => BoundInv'
    BY BoundedNext, PatchlessNext DEF BoundInv
  <1>3. BoundInv => ExecutorsBounded
    BY DEF BoundInv, Bounded, Waits, ExecutorsBounded
  <1>. QED
    BY <1>1, <1>2, <1>3, PTL DEF Spec
=============================================================================
