--------------------------- MODULE RecordsProofs ---------------------------
(***************************************************************************)
(* What holds of TaskRecords for any number of tasks, processes, users and *)
(* invocations of the cleanup, under every request and fault but PATCH.    *)
(***************************************************************************)
EXTENDS TaskRecords, ExecutorProofs

RecordsStep == [RecordsNext]_allVars

-----------------------------------------------------------------------------
(* A step of this module is one of TaskGrid, or a batch of the cleanup.    *)
LEMMA GridOrClean ==
  ASSUME RecordsStep
  PROVE  [Next]_vars \/ \E c \in Cleaners : CleanBatch(c)
  <1>1. CASE Elsewhere
    BY <1>1 DEF Elsewhere, Next, Execute, Reschedule, Proceed
  <1>2. ASSUME NEW p \in Workers,
               \/ RefreshObject(p) \/ SaveOutcome(p) \/ SaveVerdict(p)
               \/ IndexDoc(p) \/ SoftLimitAfterIndex(p)
        PROVE  Next
    BY <1>2 DEF RefreshObject, SaveOutcome, SaveVerdict, IndexDoc, SoftLimitAfterIndex,
                Next, Execute, Interrupt
  <1>3. ASSUME NEW k \in Commands, NEW t \in Tasks, ResetWithMessage(k, t) PROVE Next
    BY <1>3 DEF ResetWithMessage, Next, Reschedule, Proceed
  <1>. QED
    BY <1>1, <1>2, <1>3
    DEF RecordsStep, RecordsNext, Age, EsRefresh, Cleanup, CleanCount, CleanList, CleanLogs,
        CleanFails, allVars

LEMMA CleanedRow ==
  ASSUME NEW c \in Cleaners, CleanBatch(c)
  PROVE  /\ \A t \in Tasks : db'[t] \in {db[t], Cleaned(db[t])}
         /\ db' = [t \in Tasks |-> db'[t]]
         /\ UNCHANGED <<snap, brokerVars, worker, nodeVars, resched>>
         /\ UNCHANGED <<err, obj, old, resets, logVars>>
  BY DEF CleanBatch

LEMMA CleanedType ==
  ASSUME NEW row \in Row
  PROVE  /\ Cleaned(row) \in Row /\ Cleaned(row).worker = NoNode
         /\ Cleaned(row).status = IF row.status = "none" THEN "none" ELSE "deleted"
  BY NullTypes DEF Cleaned, NoRow, Row, Absent

LEMMA PatchlessRec ==
  ASSUME Patchless, RecordsStep
  PROVE  Patchless'
  <1>1. CASE [Next]_vars
    BY <1>1, PatchlessNext, RecordsAssumption
  <1>2. ASSUME NEW c \in Cleaners, CleanBatch(c) PROVE Patchless'
    <2>1. /\ \A t \in Tasks : db'[t] \in {db[t], Cleaned(db[t])}
          /\ db' = [t \in Tasks |-> db'[t]]
          /\ UNCHANGED <<snap, dispatching, queue, worker, alive, node, resched>>
      BY <1>2, CleanedRow DEF brokerVars, nodeVars
    <2>2. \A t \in Tasks : db[t] \in Row
      BY DEF Patchless, TypeOK
    <2>3. db' \in [Tasks -> Row]
      BY <2>1, <2>2, CleanedType
    <2>. QED
      BY <2>1, <2>3 DEF Patchless, TypeOK
  <1>. QED
    BY <1>1, <1>2, GridOrClean

-----------------------------------------------------------------------------
(* Types.                                                                  *)

RecordsInv == Patchless /\ RecordsTypeOK /\ IsFiniteSet(old)

LEMMA ObjTypes == NoObj \in Obj /\ \A o \in Obj, b \in BOOLEAN : [o EXCEPT !.err = b] \in Obj
  BY DEF NoObj, Obj

LEMMA DocType ==
  ASSUME TypeOK, RecordsTypeOK, NEW p \in Workers, worker[p].pc = "indexing"
  PROVE  DocOf(p) \in Doc
  <1>1. worker[p].task \in Tasks /\ obj[p].status \in Terminal
    BY DEF TypeOK, RecordsTypeOK
  <1>2. stored[worker[p].task] + 1 \in Nat /\ OwnerOf[worker[p].task] \in Users
    BY <1>1, RecordsAssumption DEF RecordsTypeOK
  <1>. QED
    BY <1>1, <1>2 DEF DocOf, Doc

LEMMA StoreType ==
  ASSUME TypeOK, RecordsTypeOK, NEW p \in Workers, worker[p].pc = "indexing", Store(p)
  PROVE  /\ buffer' \subseteq Doc /\ index' \subseteq Doc /\ stored' \in [Tasks -> Nat]
  <1>1. buffer' \subseteq Doc /\ index' \subseteq Doc
    BY DocType DEF Store, RecordsTypeOK
  <1>2. stored' \in [Tasks -> Nat]
    <2>1. stored \in [Tasks -> Nat] /\ stored' = [stored EXCEPT ![worker[p].task] = @ + 1]
      BY DEF Store, RecordsTypeOK
    <2>2. worker[p].task \in Tasks
      BY DEF TypeOK
    <2>. QED
      BY <2>1, <2>2
  <1>. QED
    BY <1>1, <1>2

LEMMA CleanTypes ==
  ASSUME RecordsTypeOK, IsFiniteSet(old),
         NEW c \in Cleaners, Cleanup(c) \/ CleanFails(c)
  PROVE  clean' \in [Cleaners -> Clean]
  <1>1. /\ NoClean \in Clean /\ clean \in [Cleaners -> Clean] /\ clean[c] \in Clean
        /\ Eligible \subseteq Tasks /\ Eligible \subseteq old
    BY DEF NoClean, Clean, RecordsTypeOK, Eligible
  <1>2. CASE CleanCount(c)
    <2>1. Cardinality(Eligible) \in Nat
      BY <1>1, FS_Subset, FS_CardinalityType
    <2>2. [NoClean EXCEPT !.pc = "list", !.total = Cardinality(Eligible)] \in Clean
      BY <2>1 DEF NoClean, Clean
    <2>. QED
      BY <1>1, <1>2, <2>2 DEF CleanCount
  <1>3. CASE CleanList(c)
    <2>1. PICK L \in SUBSET Eligible :
             clean' = [clean EXCEPT ![c].pc = IF L = {} THEN "idle" ELSE "delete",
                          ![c].total = 0, ![c].ids = L, ![c].todo = L]
      BY <1>3 DEF CleanList
    <2>2. clean' = [clean EXCEPT ![c] =
                      [clean[c] EXCEPT !.pc = IF L = {} THEN "idle" ELSE "delete",
                                       !.total = 0, !.ids = L, !.todo = L]]
      BY <1>1, <2>1
    <2>3. [clean[c] EXCEPT !.pc = IF L = {} THEN "idle" ELSE "delete",
                           !.total = 0, !.ids = L, !.todo = L] \in Clean
      BY <1>1 DEF Clean
    <2>. QED
      BY <1>1, <2>2, <2>3
  <1>4. CASE CleanBatch(c)
    <2>1. PICK L \in SUBSET clean[c].todo : clean' = [clean EXCEPT ![c] = AfterBatch(c, L)]
      BY <1>4 DEF CleanBatch
    <2>2. AfterBatch(c, L) \in Clean
      BY <1>1 DEF Clean, AfterBatch
    <2>. QED
      BY <1>1, <2>1, <2>2
  <1>5. CASE CleanLogs(c) \/ CleanFails(c)
    BY <1>1, <1>5 DEF CleanLogs, CleanFails
  <1>. QED
    BY <1>2, <1>3, <1>4, <1>5 DEF Cleanup

(* What a step does to a process and the object it holds.                  *)
Early == {"claimed", "running", "returned", "indexing"}

ObjMove(p) ==
  \/ worker'[p].pc \notin Early
  \/ worker'[p] = worker[p] /\ (Holds(worker[p]) => obj'[p] = obj[p])
  \/ /\ worker'[p].task = worker[p].task
     /\ \/ Claim(p) /\ worker'[p].pc = "claimed"
        \/ RefreshObject(p) /\ worker'[p].pc = "running"
        \/ worker[p].pc = "running" /\ worker'[p].pc = "returned" /\ obj'[p] = obj[p]
        \/ SaveOutcome(p) /\ worker'[p].pc = "indexing"

LEMMA ObjElsewhere ==
  ASSUME TypeOK, RecordsTypeOK, Elsewhere, NEW p \in Workers
  PROVE  ObjMove(p)
  <1>t. worker \in [Workers -> Worker] /\ obj \in [Workers -> Obj]
    BY DEF TypeOK, RecordsTypeOK
  <1>o. Holds(worker'[p]) => obj'[p] = obj[p]
    BY DEF Elsewhere
  <1>1. CASE worker'[p] = worker[p]
    BY <1>o, <1>1 DEF ObjMove
  <1>2. ASSUME NEW q \in Workers,
               \/ Claim(q) \/ Skip(q) \/ SandboxReturns(q) \/ CancelPoll(q)
               \/ SandboxRaises(q) \/ HandlerRead(q) \/ Retry(q) \/ Interrupt(q)
        PROVE  ObjMove(p)
    <2>1. CASE q # p
      BY <1>t, <1>1, <1>2, <2>1, OwnProcess DEF Execute
    <2>2. CASE q = p
      <3>1. CASE Claim(p)
        BY <1>t, <3>1, GotoPc DEF Claim, ObjMove
      <3>2. CASE SandboxReturns(p) \/ CancelPoll(p)
        BY <1>t, <1>o, <3>2, AnswerPc DEF SandboxReturns, CancelPoll, Holds, ObjMove
      <3>3. \A l : l \notin Early /\ Goto(p, l) => ObjMove(p)
        BY <1>t, GotoPc DEF ObjMove
      <3>4. Release(p) => ObjMove(p)
        BY <1>t, ReleasePc DEF ObjMove, Early
      <3>. QED
        BY <1>2, <2>2, <3>1, <3>2, <3>3, <3>4
        DEF Skip, SandboxRaises, HandlerRead, Retry, Interrupt, SoftLimit, RetryFails, DbFault,
            HardLimit, LeaveHandler, Early
    <2>. QED
      BY <2>1, <2>2
  <1>3. ASSUME NEW q \in Workers, NEW m \in Messages, Receive(q, m)
        PROVE  ObjMove(p)
    BY <1>3, <1>1, <1>t DEF Receive, Idle, ObjMove, Early
  <1>4. ASSUME NEW n \in Nodes, NodeCrash(n)
        PROVE  ObjMove(p)
    BY <1>4, <1>1 DEF NodeCrash, Idle, ObjMove, Early
  <1>. QED
    BY <1>1, <1>2, <1>3, <1>4
    DEF Elsewhere, Web, Create, RetryTask, Dispatch, Enqueue, EnqueueFails, UpdateStatus,
        CancelRunning, CancelQueued, Destroy, PatchRead, PatchSave, Broker,
        DuplicateMessage, LoseMessage, NodesCheck, Node, Heartbeat, AdminOffline,
        NodeRestart, ReschedDetect, ReschedQuery, ReschedSend, ReschedAbort

LEMMA ObjStep ==
  ASSUME RecordsInv, RecordsStep, NEW p \in Workers
  PROVE  ObjMove(p)
  <1>t. /\ TypeOK /\ RecordsTypeOK
        /\ worker \in [Workers -> Worker] /\ obj \in [Workers -> Obj]
    BY DEF RecordsInv, Patchless, TypeOK, RecordsTypeOK
  <1>1. CASE Elsewhere
    BY <1>t, <1>1, ObjElsewhere
  <1>k. ASSUME worker'[p] = worker[p], obj'[p] = obj[p] PROVE ObjMove(p)
    BY <1>k DEF ObjMove
  <1>2. ASSUME NEW q \in Workers, q # p,
               \/ RefreshObject(q) \/ SaveOutcome(q) \/ SaveVerdict(q)
               \/ IndexDoc(q) \/ SoftLimitAfterIndex(q)
        PROVE  ObjMove(p)
    <2>1. Execute(q) \/ Interrupt(q)
      BY <1>2 DEF RefreshObject, SaveOutcome, SaveVerdict, IndexDoc, SoftLimitAfterIndex,
                  Execute, Interrupt
    <2>2. worker'[p] = worker[p]
      BY <1>t, <1>2, <2>1, OwnProcess
    <2>3. obj'[p] = obj[p]
      BY <1>t, <1>2
      DEF RefreshObject, SaveOutcome, SaveVerdict, IndexDoc, SoftLimitAfterIndex
    <2>. QED
      BY <1>k, <2>2, <2>3
  <1>3. CASE RefreshObject(p)
    BY <1>t, <1>3, RefreshPc, ReleasePc DEF RefreshObject, ObjMove, Early
  <1>4. CASE SaveOutcome(p)
    BY <1>t, <1>4, GotoPc DEF SaveOutcome, SaveResult, ObjMove, Early
  <1>5. CASE SaveVerdict(p)
    BY <1>t, <1>5, GotoPc, ReleasePc
    DEF SaveVerdict, HandlerSave, LeaveHandler, ObjMove, Early
  <1>6. CASE IndexDoc(p) \/ SoftLimitAfterIndex(p)
    BY <1>t, <1>6, GotoPc, ReleasePc
    DEF IndexDoc, SoftLimitAfterIndex, IndexLog, SoftLimit, ObjMove, Early
  <1>7. CASE UNCHANGED <<worker, obj>>
    BY <1>7, <1>k
  <1>. QED
    BY <1>1, <1>2, <1>3, <1>4, <1>5, <1>6, <1>7
    DEF RecordsStep, RecordsNext, ResetWithMessage, Reset, Age, EsRefresh, Cleanup, CleanCount,
        CleanList, CleanBatch, CleanLogs, CleanFails, allVars, recVars, vars

LEMMA ObjTypesNext ==
  ASSUME RecordsInv, RecordsStep
  PROVE  /\ obj' \in [Workers -> Obj] /\ err' \in [Tasks -> BOOLEAN]
         /\ \A p \in Workers : worker'[p].pc = "indexing" => obj'[p].status \in Terminal
  <1>t. /\ TypeOK /\ obj \in [Workers -> Obj] /\ err \in [Tasks -> BOOLEAN]
        /\ worker \in [Workers -> Worker] /\ NoObj \in Obj
        /\ \A p \in Workers : worker[p].pc = "indexing" => obj[p].status \in Terminal
    BY DEF RecordsInv, Patchless, TypeOK, RecordsTypeOK, NoObj, Obj
  <1>1. ASSUME Elsewhere
        PROVE  obj' \in [Workers -> Obj] /\ err' \in [Tasks -> BOOLEAN]
    <2>1. obj' = [p \in Workers |-> IF Holds(worker'[p]) THEN obj[p] ELSE NoObj]
      BY <1>1 DEF Elsewhere
    <2>2. \A p \in Workers : (IF Holds(worker'[p]) THEN obj[p] ELSE NoObj) \in Obj
      BY <1>t
    <2>3. err' = err
      BY <1>1 DEF Elsewhere
    <2>. QED
      BY <1>t, <2>1, <2>2, <2>3
  <1>2. ASSUME NEW p \in Workers, RefreshObject(p)
        PROVE  obj' \in [Workers -> Obj] /\ err' \in [Tasks -> BOOLEAN]
    <2>1. worker[p].task \in Tasks
      BY <1>2, <1>t DEF RefreshObject, Refresh, TypeOK
    <2>2. [NoObj EXCEPT !.err = err[worker[p].task]] \in Obj
      BY <1>t, <2>1 DEF NoObj, Obj
    <2>. QED
      BY <1>2, <1>t, <2>2 DEF RefreshObject
  <1>3. ASSUME NEW p \in Workers, SaveOutcome(p)
        PROVE  /\ obj' \in [Workers -> Obj] /\ err' \in [Tasks -> BOOLEAN]
               /\ worker'[p].pc = "indexing" => obj'[p].status \in Terminal
    <2>1. CASE worker'[p].pc = "indexing"
      <3>1. worker[p].out \in Transit(worker[p].mem)
        BY <1>3, <1>t, <2>1, GotoPc DEF SaveOutcome, SaveResult
      <3>2. worker[p].out \in Terminal
        BY <3>1, <1>t DEF Worker, Transit, Terminal
      <3>3. Outcome(obj[p], worker[p].out) \in Obj
        BY <3>2, <1>t DEF Outcome, Obj
      <3>4. Outcome(obj[p], worker[p].out).err \in BOOLEAN
        BY <3>3 DEF Obj
      <3>5. Outcome(obj[p], worker[p].out).status \in Terminal
        BY <3>2 DEF Outcome
      <3>. QED
        BY <1>3, <1>t, <2>1, <3>3, <3>4, <3>5 DEF SaveOutcome
    <2>2. CASE worker'[p].pc # "indexing"
      BY <1>3, <1>t, <2>2 DEF SaveOutcome
    <2>. QED
      BY <2>1, <2>2
  <1>4. ASSUME NEW p \in Workers, SaveVerdict(p) \/ IndexDoc(p) \/ SoftLimitAfterIndex(p)
        PROVE  obj' \in [Workers -> Obj] /\ err' \in [Tasks -> BOOLEAN]
    BY <1>4, <1>t DEF SaveVerdict, IndexDoc, SoftLimitAfterIndex, Exists
  <1>5. ASSUME NEW k \in Commands, NEW t \in Tasks, ResetWithMessage(k, t)
        PROVE  obj' \in [Workers -> Obj] /\ err' \in [Tasks -> BOOLEAN]
    BY <1>5, <1>t DEF ResetWithMessage, Exists
  <1>6. obj' \in [Workers -> Obj] /\ err' \in [Tasks -> BOOLEAN]
    BY <1>t, <1>1, <1>2, <1>3, <1>4, <1>5
    DEF RecordsStep, RecordsNext, Age, EsRefresh, Cleanup, CleanCount, CleanList, CleanBatch,
        CleanLogs, CleanFails, allVars, recVars
  <1>7. ASSUME NEW p \in Workers, worker'[p].pc = "indexing"
        PROVE  obj'[p].status \in Terminal
    BY <1>t, <1>3, <1>7, ObjStep DEF ObjMove, Early, Holds
  <1>. QED
    BY <1>6, <1>7

LEMMA LogTypesNext ==
  ASSUME RecordsInv, RecordsStep
  PROVE  buffer' \subseteq Doc /\ index' \subseteq Doc /\ stored' \in [Tasks -> Nat]
  <1>t. /\ TypeOK /\ RecordsTypeOK
        /\ buffer \subseteq Doc /\ index \subseteq Doc /\ stored \in [Tasks -> Nat]
    BY DEF RecordsInv, Patchless, RecordsTypeOK
  <1>1. ASSUME NEW p \in Workers, IndexDoc(p) \/ SoftLimitAfterIndex(p)
        PROVE  buffer' \subseteq Doc /\ index' \subseteq Doc /\ stored' \in [Tasks -> Nat]
    <2>1. worker[p].pc = "indexing"
      BY <1>1 DEF IndexDoc, SoftLimitAfterIndex, IndexLog
    <2>2. Store(p) \/ UNCHANGED logVars
      BY <1>1 DEF IndexDoc, SoftLimitAfterIndex
    <2>. QED
      BY <1>t, <2>1, <2>2, StoreType DEF logVars
  <1>2. CASE UNCHANGED logVars
    BY <1>t, <1>2 DEF logVars
  <1>3. CASE EsRefresh
    BY <1>t, <1>3 DEF EsRefresh
  <1>4. ASSUME NEW c \in Cleaners, CleanLogs(c)
        PROVE  buffer' \subseteq Doc /\ index' \subseteq Doc /\ stored' \in [Tasks -> Nat]
    BY <1>t, <1>4 DEF CleanLogs
  <1>. QED
    BY <1>1, <1>2, <1>3, <1>4
    DEF RecordsStep, RecordsNext, Elsewhere, RefreshObject, SaveOutcome, SaveVerdict,
        ResetWithMessage, Age, Cleanup, CleanCount, CleanList, CleanBatch, CleanFails, allVars,
        recVars

LEMMA RecordsInvNext ==
  ASSUME RecordsInv, RecordsStep
  PROVE  RecordsInv'
  <1>t. /\ RecordsTypeOK /\ Patchless /\ IsFiniteSet(old)
        /\ old \subseteq Tasks /\ resets \in [Tasks -> Nat] /\ clean \in [Cleaners -> Clean]
    BY DEF RecordsInv, RecordsTypeOK
  <1>1. resets' \in [Tasks -> Nat]
    <2>1. \/ resets' = resets
          \/ \E t \in Tasks : resets' = [resets EXCEPT ![t] = @ + 1]
      BY DEF RecordsStep, RecordsNext, Elsewhere, RefreshObject, SaveOutcome, SaveVerdict,
             IndexDoc, SoftLimitAfterIndex, ResetWithMessage, Age, EsRefresh, Cleanup,
             CleanCount, CleanList, CleanBatch, CleanLogs, CleanFails, allVars, recVars
    <2>. QED
      BY <1>t, <2>1
  <1>2. old' \subseteq Tasks /\ IsFiniteSet(old')
    <2>1. old' = old \/ \E t \in Tasks : old' = old \cup {t}
      BY DEF RecordsStep, RecordsNext, Elsewhere, RefreshObject, SaveOutcome, SaveVerdict,
             IndexDoc, SoftLimitAfterIndex, ResetWithMessage, Age, EsRefresh, Cleanup,
             CleanCount, CleanList, CleanBatch, CleanLogs, CleanFails, allVars, recVars
    <2>. QED
      BY <1>t, <2>1, FS_AddElement
  <1>3. clean' \in [Cleaners -> Clean]
    <2>1. clean' = clean \/ \E c \in Cleaners : Cleanup(c) \/ CleanFails(c)
      BY DEF RecordsStep, RecordsNext, Elsewhere, RefreshObject, SaveOutcome, SaveVerdict,
             IndexDoc, SoftLimitAfterIndex, ResetWithMessage, Age, EsRefresh, allVars, recVars
    <2>. QED
      BY <1>t, <2>1, CleanTypes
  <1>4. Patchless'
    BY <1>t, PatchlessRec
  <1>. QED
    BY <1>1, <1>2, <1>3, <1>4, ObjTypesNext, LogTypesNext DEF RecordsInv, RecordsTypeOK

LEMMA RecordsInvInit == RecordsInit => RecordsInv
  <1>. SUFFICES ASSUME RecordsInit PROVE RecordsInv
    OBVIOUS
  <1>1. Patchless
    BY TypeInit DEF RecordsInit, Init, Patchless
  <1>2. NoClean \in Clean /\ NoObj \in Obj
    BY DEF NoClean, Clean, NoObj, Obj
  <1>3. RecordsTypeOK
    BY <1>2 DEF RecordsInit, Init, Idle, RecordsTypeOK
  <1>4. IsFiniteSet(old)
    BY FS_EmptySet DEF RecordsInit
  <1>. QED
    BY <1>1, <1>3, <1>4 DEF RecordsInv

LEMMA RecordsInvHolds == RecordsSpec => []RecordsInv
  <1>1. RecordsInv /\ [RecordsNext]_allVars => RecordsInv'
    BY RecordsInvNext DEF RecordsStep
  <1>. QED
    BY RecordsInvInit, <1>1, PTL DEF RecordsSpec

(* Type correctness of the records.                                        *)
THEOREM RecordsTypeCorrect == RecordsSpec => []RecordsTypeOK
  <1>1. RecordsInv => RecordsTypeOK
    BY DEF RecordsInv
  <1>. QED
    BY <1>1, RecordsInvHolds, PTL

-----------------------------------------------------------------------------
(* Rows and resets.                                                        *)

(* What a step does to the row of t.                                       *)
RecRow(t) ==
  \/ db'[t] = db[t]
  \/ db[t].status = "none" /\ db'[t].status \in {"none", "pending"}
  \/ db'[t].status = "deleted" /\ db'[t].worker = NoNode
  \/ /\ Exists(t) /\ db'[t].status \notin {"none", "pending"}
     /\ db'[t].worker = db[t].worker
     /\ db[t].status \notin Terminal \/ (Writing(t) /\ db'[t].status \in Terminal)
  \/ /\ \E k \in Resetters(t) : k \notin Resetters(t)'
     /\ Exists(t) /\ resets'[t] = resets[t] + 1
     /\ db'[t].status = "pending" /\ db'[t].worker = NoNode

(* A command changes a row in one step of this module only.                *)
LEMMA ResetOnly ==
  ASSUME RecordsInv, RecordsStep, NEW t \in Tasks, db'[t] # db[t], resched' # resched
  PROVE  Exists(t) /\ \E k \in Commands : ResetWithMessage(k, t)
  <1>0. db' # db /\ db \in [Tasks -> Row]
    BY DEF RecordsInv, Patchless, TypeOK
  <1>1. \A k \in Commands : /\ ~ReschedDetect(k) /\ ~ReschedQuery(k)
                            /\ ~ReschedSend(k) /\ ~ReschedAbort(k)
    BY <1>0 DEF ReschedDetect, ReschedQuery, ReschedSend, ReschedAbort, taskVars
  <1>2. PICK k \in Commands, u \in Tasks : ResetWithMessage(k, u)
    BY <1>1
    DEF RecordsStep, RecordsNext, Elsewhere, RefreshObject, SaveOutcome, SaveVerdict, IndexDoc,
        SoftLimitAfterIndex, Age, EsRefresh, Cleanup, CleanCount, CleanList, CleanBatch,
        CleanLogs, CleanFails, allVars, vars, Web, Create, RetryTask, Dispatch, Enqueue,
        EnqueueFails, UpdateStatus, CancelRunning, CancelQueued, Destroy, PatchRead, PatchSave,
        Broker, DuplicateMessage, LoseMessage, NodesCheck, Node, Heartbeat, AdminOffline,
        NodeCrash, NodeRestart, Receive, Claim, Skip, Refresh, SandboxReturns, CancelPoll,
        SandboxRaises, SaveResult, IndexLog, HandlerRead, HandlerSave, Retry, Interrupt,
        SoftLimit, RetryFails, DbFault, HardLimit
  <1>3. u = t /\ Exists(t)
    BY <1>0, <1>2 DEF ResetWithMessage, Reset
  <1>. QED
    BY <1>2, <1>3

LEMMA RowStepRec ==
  ASSUME RecordsInv, RecordsStep, NEW t \in Tasks
  PROVE  RecRow(t)
  <1>1. CASE db'[t] = db[t]
    BY <1>1 DEF RecRow
  <1>2. CASE [Next]_vars /\ db'[t] # db[t]
    <2>1. BoundMove(t)
      BY <1>2, BoundRow DEF RecordsInv
    <2>2. ASSUME NEW k \in Resetters(t), k \notin Resetters(t)'
          PROVE  resets'[t] = resets[t] + 1
      <3>1. resched' # resched
        BY <2>2 DEF Resetters
      <3>2. PICK l \in Commands : ResetWithMessage(l, t)
        BY <1>2, <3>1, ResetOnly
      <3>3. Exists(t) /\ resets \in [Tasks -> Nat]
        BY <1>2, <3>1, ResetOnly DEF RecordsInv, RecordsTypeOK
      <3>. QED
        BY <3>2, <3>3 DEF ResetWithMessage
    <2>. QED
      BY <1>2, <2>1, <2>2 DEF BoundMove, RecRow
  <1>3. ASSUME NEW c \in Cleaners, CleanBatch(c) PROVE RecRow(t)
    <2>1. db'[t] \in {db[t], Cleaned(db[t])} /\ db[t] \in Row
      BY <1>3, CleanedRow DEF RecordsInv, Patchless, TypeOK
    <2>. QED
      BY <2>1, CleanedType DEF RecRow
  <1>. QED
    BY <1>1, <1>2, <1>3, GridOrClean

(* ... and to the number of its resets.                                    *)
LEMMA ResetStep ==
  ASSUME RecordsInv, RecordsStep, NEW t \in Tasks
  PROVE  /\ resets[t] \in Nat
         /\ \/ resets'[t] = resets[t]
            \/ /\ resets'[t] = resets[t] + 1 /\ Exists(t)
               /\ \E k \in Resetters(t) : k \notin Resetters(t)'
               /\ Resetters(t)' \subseteq Resetters(t)
               /\ db'[t].status = "pending" /\ db'[t].worker = NoNode
               /\ UNCHANGED <<worker, buffer, index, stored>>
  <1>t. /\ resets \in [Tasks -> Nat] /\ db \in [Tasks -> Row]
        /\ resched \in [Commands -> Resched]
    BY DEF RecordsInv, RecordsTypeOK, Patchless, TypeOK
  <1>1. CASE resets' = resets
    BY <1>1, <1>t
  <1>2. ASSUME NEW k \in Commands, NEW u \in Tasks, ResetWithMessage(k, u),
               resets'[t] # resets[t]
        PROVE  /\ resets'[t] = resets[t] + 1 /\ Exists(t)
               /\ \E l \in Resetters(t) : l \notin Resetters(t)'
               /\ Resetters(t)' \subseteq Resetters(t)
               /\ db'[t].status = "pending" /\ db'[t].worker = NoNode
               /\ UNCHANGED <<worker, buffer, index, stored>>
    <2>1. /\ u = t /\ Exists(t) /\ resets'[t] = resets[t] + 1
          /\ UNCHANGED <<worker, buffer, index, stored>>
      BY <1>2, <1>t DEF ResetWithMessage, Reset, logVars
    <2>2. /\ t \in resched[k].todo
          /\ resched' = [resched EXCEPT ![k] = AfterReset(@, t)]
          /\ db' = [db EXCEPT ![t] = ResetRow(@)]
      BY <1>2, <2>1 DEF ResetWithMessage, Reset
    <2>3. db'[t].status = "pending" /\ db'[t].worker = NoNode
      BY <1>t, <2>2 DEF ResetRow, Row
    <2>4. resched'[k].todo = resched[k].todo \ {t}
      <3>1. resched[k] \in Resched
        BY <1>t
      <3>2. AfterReset(resched[k], t).todo = resched[k].todo \ {t}
        BY <3>1 DEF AfterReset, Resched
      <3>. QED
        BY <1>t, <2>2, <3>2
    <2>5. \A l \in Commands : l # k => resched'[l] = resched[l]
      BY <1>t, <2>2
    <2>6. k \in Resetters(t) /\ k \notin Resetters(t)' /\ Resetters(t)' \subseteq Resetters(t)
      BY <2>2, <2>4, <2>5 DEF Resetters
    <2>. QED
      BY <2>1, <2>3, <2>6
  <1>. QED
    BY <1>1, <1>2, <1>t
    DEF RecordsStep, RecordsNext, Elsewhere, RefreshObject, SaveOutcome, SaveVerdict, IndexDoc,
        SoftLimitAfterIndex, Age, EsRefresh, Cleanup, CleanCount, CleanList, CleanBatch,
        CleanLogs, CleanFails, allVars, recVars

LEMMA Spares ==
  ASSUME RecordsInv, RecordsStep, NEW t \in Tasks, resets'[t] = 0
  PROVE  resets[t] = 0
  BY ResetStep

-----------------------------------------------------------------------------
(* The cleanup.                                                            *)

(* What an invocation is about to delete has an outcome, is gone, or was   *)
(* revived by the failover command.                                        *)
CleanInv ==
  \A c \in Cleaners : \A t \in clean[c].todo :
     db[t].status \in Terminal \cup {"deleted"} \/ resets[t] > 0

(* Only the query of an invocation gives it tasks to delete.               *)
LEMMA OnlyListAdds ==
  ASSUME RecordsInv, RecordsStep, NEW c \in Cleaners, NEW t,
         t \in clean'[c].todo, t \notin clean[c].todo
  PROVE  CleanList(c)
  <1>t. clean \in [Cleaners -> Clean]
    BY DEF RecordsInv, RecordsTypeOK
  <1>0. clean' # clean /\ NoClean.todo = {}
    BY DEF NoClean
  <1>1. ASSUME NEW d \in Cleaners, CleanCount(d) PROVE clean'[c].todo \subseteq clean[c].todo
    <2>1. [NoClean EXCEPT !.pc = "list", !.total = Cardinality(Eligible)].todo = {}
      BY DEF NoClean
    <2>. QED
      BY <1>1, <1>t, <2>1 DEF CleanCount
  <1>2. ASSUME NEW d \in Cleaners, CleanList(d), d # c PROVE clean'[c] = clean[c]
    BY <1>2, <1>t DEF CleanList
  <1>3. ASSUME NEW d \in Cleaners, CleanBatch(d) PROVE clean'[c].todo \subseteq clean[c].todo
    <2>1. clean[c].todo \subseteq Tasks /\ clean[d] \in Clean
      BY <1>t DEF Clean
    <2>2. \E B \in SUBSET clean[d].todo : clean' = [clean EXCEPT ![d] = AfterBatch(d, B)]
      BY <1>3 DEF CleanBatch
    <2>. QED
      BY <1>t, <2>1, <2>2 DEF Clean, AfterBatch
  <1>4. ASSUME NEW d \in Cleaners, CleanLogs(d) \/ CleanFails(d)
        PROVE  clean'[c].todo \subseteq clean[c].todo
    BY <1>0, <1>4, <1>t DEF CleanLogs, CleanFails
  <1>. QED
    BY <1>0, <1>1, <1>2, <1>3, <1>4
    DEF RecordsStep, RecordsNext, Elsewhere, RefreshObject, SaveOutcome, SaveVerdict,
        ResetWithMessage, IndexDoc, SoftLimitAfterIndex, Age, EsRefresh, Cleanup, allVars,
        recVars

LEMMA CleanInvNext ==
  ASSUME RecordsInv, CleanInv, RecordsStep
  PROVE  CleanInv'
  <1>. SUFFICES ASSUME NEW c \in Cleaners, NEW t, t \in clean'[c].todo
                PROVE  db'[t].status \in Terminal \cup {"deleted"} \/ resets'[t] > 0
    BY DEF CleanInv
  <1>t. clean \in [Cleaners -> Clean] /\ clean[c].todo \subseteq Tasks /\ old \subseteq Tasks
    BY DEF RecordsInv, RecordsTypeOK, Clean
  <1>1. CASE t \in clean[c].todo
    <2>1. t \in Tasks /\ (db[t].status \in Terminal \cup {"deleted"} \/ resets[t] > 0)
      BY <1>t, <1>1 DEF CleanInv
    <2>2. RecRow(t) /\ resets[t] \in Nat /\ resets'[t] \in {resets[t], resets[t] + 1}
      BY <2>1, RowStepRec, ResetStep
    <2>3. CASE resets'[t] > 0
      BY <2>3
    <2>4. CASE resets'[t] = 0
      BY <2>1, <2>2, <2>4 DEF RecRow, Exists, Absent, Terminal
    <2>. QED
      BY <2>2, <2>3, <2>4
  <1>2. CASE t \notin clean[c].todo
    <2>1. CleanList(c)
      BY <1>2, OnlyListAdds
    <2>2. t \in Eligible /\ db' = db
      <3>1. PICK L \in SUBSET Eligible :
               clean' = [clean EXCEPT ![c].pc = IF L = {} THEN "idle" ELSE "delete",
                            ![c].total = 0, ![c].ids = L, ![c].todo = L]
        BY <2>1 DEF CleanList
      <3>2. clean'[c].todo = L
        BY <1>t, <3>1 DEF Clean
      <3>. QED
        BY <2>1, <3>2 DEF CleanList, vars, taskVars
    <2>. QED
      BY <2>2 DEF Eligible
  <1>. QED
    BY <1>1, <1>2

(* Whatever the size of a batch, the number of invocations and the moments *)
(* they run at, the cleanup deletes tasks with an outcome, and a revived   *)
(* one only if failover has reset it.                                      *)
THEOREM CleanupSafe == RecordsSpec => CleanupDeletesFinished
  <1>. DEFINE Safe ==
         \A c \in Cleaners : \A t \in clean[c].todo :
            t \notin clean'[c].todo /\ clean'[c].pc # "idle"
                => db[t].status \in Terminal \cup {"deleted"} \/ resets[t] > 0
  <1>1. RecordsInit => CleanInv
    BY DEF RecordsInit, CleanInv, NoClean
  <1>2. RecordsInv /\ CleanInv /\ [RecordsNext]_allVars => CleanInv'
    BY CleanInvNext DEF RecordsStep
  <1>3. CleanInv /\ [RecordsNext]_allVars => [Safe]_allVars
    BY DEF CleanInv
  <1>. QED
    BY <1>1, <1>2, <1>3, RecordsInvHolds, PTL DEF RecordsSpec, CleanupDeletesFinished

-----------------------------------------------------------------------------
(* How often an execution can be logged.                                   *)

(* The executors of t that may still log.                                  *)
Act(t) == {p \in Executors(t) : worker[p].pc \in Early}

(* What bounds the processes of t, its logs and the processes that may     *)
(* still write one: the claims its row allowed, one and one more for each  *)
(* reset.  A reset wipes worker_id, so that a row that names a node was    *)
(* never reset, and only such a row gets on the list of a command.         *)
Account(t) ==
  /\ db[t].worker # NoNode => resets[t] = 0
  /\ db[t].status = "none" =>
        Cardinality(Executors(t)) + Cardinality(Resetters(t)) + resets[t] + stored[t] = 0
  /\ db[t].status = "pending" => Cardinality(Resetters(t)) = 0 \/ resets[t] > 0
  /\ Cardinality(Executors(t)) + Waits(t) <= resets[t] + 1
  /\ stored[t] + Cardinality(Act(t)) + Waits(t) <= resets[t] + 1
  /\ resets[t] + Cardinality(Resetters(t)) <= Cardinality(Commands)

AccountInv == \A t \in Tasks : Account(t)

(* A task that was not reset has at most one process, and none before its  *)
(* claim.                                                                  *)
LEMMA OneProcess ==
  ASSUME RecordsInv, NEW t \in Tasks, Account(t), resets[t] = 0
  PROVE  /\ \A p, q \in Executors(t) : p = q
         /\ db[t].status \in {"none", "pending"} => Executors(t) = {}
  <1>1. /\ IsFiniteSet(Executors(t)) /\ Cardinality(Executors(t)) \in Nat
        /\ Cardinality(Resetters(t)) \in Nat /\ stored[t] \in Nat
    BY Sizes DEF RecordsInv, RecordsTypeOK
  <1>2. Cardinality(Executors(t)) <= 1
    BY <1>1 DEF Account, Waits
  <1>3. ASSUME NEW p \in Executors(t), NEW q \in Executors(t), p # q PROVE FALSE
    <2>1. Cardinality({p}) + 1 <= Cardinality(Executors(t)) /\ Cardinality({p}) = 1
      BY <1>1, <1>3, SizeLoses, FS_Singleton
    <2>. QED
      BY <1>1, <1>2, <2>1
  <1>4. ASSUME db[t].status \in {"none", "pending"}, NEW p \in Executors(t) PROVE FALSE
    <2>1. Cardinality({}) + 1 <= Cardinality(Executors(t)) /\ Cardinality({}) = 0
      BY <1>1, <1>4, SizeLoses, FS_EmptySet
    <2>2. Cardinality(Executors(t)) = 0
      BY <1>1, <1>4 DEF Account, Waits
    <2>. QED
      BY <2>1, <2>2
  <1>. QED
    BY <1>3, <1>4

(* p writes the log and is past it.                                        *)
Late == Early \cup {"softsave", "excsave"}
Logs(p) == /\ worker[p].pc = "indexing" /\ Store(p) /\ worker'[p].pc \notin Late
           /\ UNCHANGED <<db, err, resets>>

LEMMA LogMove ==
  ASSUME RecordsInv, RecordsStep
  PROVE  \/ Docs' \subseteq Docs /\ stored' = stored
         \/ \E p \in Workers : Logs(p)
  <1>1. ASSUME NEW p \in Workers, IndexDoc(p)
        PROVE  UNCHANGED logVars \/ Logs(p)
    <2>1. worker'[p].pc = "idle" /\ worker[p].pc = "indexing" /\ db' = db
      BY <1>1, ReleasePc DEF RecordsInv, Patchless, IndexDoc, IndexLog, taskVars
    <2>. QED
      BY <1>1, <2>1 DEF IndexDoc, Logs, Late, Early
  <1>2. ASSUME NEW p \in Workers, SoftLimitAfterIndex(p)
        PROVE  Logs(p)
    <2>1. worker'[p].pc = "soft" /\ worker[p].pc = "indexing" /\ db' = db
      BY <1>2, GotoPc DEF RecordsInv, Patchless, SoftLimitAfterIndex, SoftLimit, taskVars
    <2>. QED
      BY <1>2, <2>1 DEF SoftLimitAfterIndex, Logs, Late, Early
  <1>3. CASE UNCHANGED logVars
    BY <1>3 DEF logVars, Docs
  <1>4. CASE EsRefresh
    BY <1>4 DEF EsRefresh, Docs
  <1>5. ASSUME NEW c \in Cleaners, CleanLogs(c)
        PROVE  Docs' \subseteq Docs /\ stored' = stored
    BY <1>5 DEF CleanLogs, Docs
  <1>. QED
    BY <1>1, <1>2, <1>3, <1>4, <1>5
    DEF RecordsStep, RecordsNext, Elsewhere, RefreshObject, SaveOutcome, SaveVerdict,
        ResetWithMessage, Age, Cleanup, CleanCount, CleanList, CleanBatch, CleanFails, allVars,
        recVars

LEMMA ExecutorsRec ==
  ASSUME RecordsInv, RecordsStep, NEW t \in Tasks
  PROVE  \/ Executors(t)' \subseteq Executors(t)
         \/ \E p \in Workers : /\ Claim(p) /\ worker[p].task = t
                               /\ Executors(t)' \subseteq Executors(t) \cup {p}
  <1>1. CASE [Next]_vars
    BY <1>1, ExecutorsMove DEF RecordsInv, Patchless
  <1>2. CASE worker' = worker
    BY <1>2 DEF Executors, Executes
  <1>. QED
    BY <1>1, <1>2, GridOrClean DEF CleanBatch

(* A process starts to work on t only by claiming its pending row.         *)
LEMMA ActMove ==
  ASSUME RecordsInv, RecordsStep, NEW t \in Tasks
  PROVE  \/ Executors(t)' \subseteq Executors(t) /\ Act(t)' \subseteq Act(t)
         \/ /\ db[t].status = "pending" /\ db'[t].status = "running"
            /\ \E p \in Workers : /\ Executors(t)' \subseteq Executors(t) \cup {p}
                                  /\ Act(t)' \subseteq Act(t) \cup {p}
  <1>t. db \in [Tasks -> Row]
    BY DEF RecordsInv, Patchless, TypeOK
  <1>1. ASSUME NEW p \in Workers, p \in Act(t)', ~(Claim(p) /\ worker[p].task = t)
        PROVE  p \in Act(t)
    <2>1. ObjMove(p) /\ worker'[p].pc \in Early /\ worker'[p].task = t
      BY <1>1, ObjStep DEF Act, Executors, Executes
    <2>2. worker[p].pc \in Early /\ worker[p].task = t
      BY <1>1, <2>1
      DEF ObjMove, Early, RefreshObject, Refresh, SaveOutcome, SaveResult
    <2>. QED
      BY <2>2 DEF Act, Executors, Executes, Early, PastClaim
  <1>2. Act(t)' \subseteq Workers
    BY DEF Act, Executors
  <1>3. ASSUME NEW p \in Workers, Claim(p), worker[p].task = t
        PROVE  /\ db[t].status = "pending" /\ db'[t].status = "running"
               /\ Executors(t)' \subseteq Executors(t) \cup {p}
               /\ Act(t)' \subseteq Act(t) \cup {p}
    <2>1. db[t].status = "pending" /\ db'[t].status = "running"
      BY <1>3, <1>t DEF Claim, Claimable, Claimed, Row
    <2>2. \A q \in Workers : q # p => worker'[q] = worker[q]
      BY <1>3, OwnProcess DEF Execute, RecordsInv, Patchless
    <2>. QED
      BY <2>1, <2>2 DEF Act, Executors, Executes
  <1>. QED
    BY <1>1, <1>2, <1>3, ExecutorsRec

LEMMA ResettersRec ==
  ASSUME RecordsInv, RecordsStep, NEW t \in Tasks
  PROVE  \/ Resetters(t)' \subseteq Resetters(t)
         \/ UNCHANGED <<db, worker>> /\ db[t].status = "running" /\ db[t].worker # NoNode
  <1>1. CASE [Next]_vars
    BY <1>1, ResettersMove DEF RecordsInv, Patchless
  <1>2. CASE resched' = resched
    BY <1>2 DEF Resetters
  <1>. QED
    BY <1>1, <1>2, GridOrClean DEF CleanBatch

(* The sizes before a step, and after it.                                  *)
LEMMA ActSizes ==
  ASSUME RecordsInv, NEW t \in Tasks
  PROVE  /\ IsFiniteSet(Act(t)) /\ Cardinality(Act(t)) \in Nat
         /\ Cardinality(Act(t)) <= Cardinality(Executors(t))
         /\ stored[t] \in Nat /\ resets[t] \in Nat
  BY Sizes, SizeAtMost DEF Act, RecordsInv, RecordsTypeOK

LEMMA SizesNext ==
  ASSUME RecordsInv, RecordsStep, NEW t \in Tasks
  PROVE  /\ Cardinality(Executors(t)') \in Nat /\ Cardinality(Act(t)') \in Nat
         /\ Cardinality(Resetters(t)') \in Nat
         /\ Cardinality(Resetters(t)') <= Cardinality(Commands)
         /\ stored'[t] \in Nat /\ resets'[t] \in Nat
  <1>1. /\ Executors(t)' \subseteq Workers /\ Act(t)' \subseteq Workers
        /\ Resetters(t)' \subseteq Commands
    BY DEF Executors, Act, Resetters
  <1>2. RecordsTypeOK'
    BY RecordsInvNext DEF RecordsInv
  <1>. QED
    BY <1>1, <1>2, SizeAtMost, GridAssumption DEF RecordsTypeOK

(* A claim adds to the processes of t, a log takes the place of one.       *)
LEMMA CountMove ==
  ASSUME RecordsInv, RecordsStep, NEW t \in Tasks
  PROVE  \/ /\ Cardinality(Executors(t)') <= Cardinality(Executors(t))
            /\ stored'[t] + Cardinality(Act(t)') <= stored[t] + Cardinality(Act(t))
         \/ /\ db[t].status = "pending" /\ db'[t].status = "running"
            /\ Cardinality(Executors(t)') <= Cardinality(Executors(t)) + 1
            /\ stored'[t] + Cardinality(Act(t)') <= stored[t] + Cardinality(Act(t)) + 1
  <1>s. /\ stored \in [Tasks -> Nat] /\ stored[t] \in Nat /\ stored'[t] \in Nat
        /\ IsFiniteSet(Executors(t)) /\ IsFiniteSet(Act(t))
        /\ Cardinality(Act(t)) \in Nat /\ Cardinality(Act(t)') \in Nat
    BY Sizes, ActSizes, SizesNext DEF RecordsInv, RecordsTypeOK
  <1>1. ASSUME NEW p \in Workers, Logs(p), worker[p].task = t
        PROVE  /\ Cardinality(Executors(t)') <= Cardinality(Executors(t))
               /\ stored'[t] + Cardinality(Act(t)') <= stored[t] + Cardinality(Act(t))
    <2>1. p \in Act(t)
      BY <1>1 DEF Logs, Act, Executors, Executes, Early, PastClaim
    <2>2. db' = db /\ stored'[t] = stored[t] + 1 /\ p \notin Act(t)'
      BY <1>1, <1>s DEF Logs, Store, Late, Act
    <2>3. Executors(t)' \subseteq Executors(t) /\ Act(t)' \subseteq Act(t)
      BY <2>2, ActMove
    <2>4. Cardinality(Act(t)') + 1 <= Cardinality(Act(t))
      BY <1>s, <2>1, <2>2, <2>3, SizeLoses
    <2>5. Cardinality(Executors(t)') <= Cardinality(Executors(t))
      BY <1>s, <2>3, SizeAtMost
    <2>. QED
      BY <1>s, <2>2, <2>4, <2>5
  <1>2. CASE /\ stored'[t] = stored[t]
             /\ Executors(t)' \subseteq Executors(t) /\ Act(t)' \subseteq Act(t)
    <2>1. /\ Cardinality(Executors(t)') <= Cardinality(Executors(t))
          /\ Cardinality(Act(t)') <= Cardinality(Act(t))
      BY <1>s, <1>2, SizeAtMost
    <2>. QED
      BY <1>s, <1>2, <2>1
  <1>3. ASSUME stored'[t] = stored[t], db[t].status = "pending", db'[t].status = "running",
               NEW p \in Workers, Executors(t)' \subseteq Executors(t) \cup {p},
               Act(t)' \subseteq Act(t) \cup {p}
        PROVE  /\ Cardinality(Executors(t)') <= Cardinality(Executors(t)) + 1
               /\ stored'[t] + Cardinality(Act(t)') <= stored[t] + Cardinality(Act(t)) + 1
    <2>1. /\ Cardinality(Executors(t)') <= Cardinality(Executors(t)) + 1
          /\ Cardinality(Act(t)') <= Cardinality(Act(t)) + 1
      BY <1>s, <1>3, SizeGains
    <2>. QED
      BY <1>s, <1>3, <2>1
  <1>4. ASSUME NEW p \in Workers, Logs(p), worker[p].task # t PROVE stored'[t] = stored[t]
    BY <1>4, <1>s DEF Logs, Store
  <1>5. stored'[t] = stored[t] \/ \E p \in Workers : Logs(p) /\ worker[p].task = t
    BY <1>4, LogMove
  <1>6. CASE stored'[t] = stored[t]
    BY <1>2, <1>3, <1>6, ActMove
  <1>. QED
    BY <1>1, <1>5, <1>6

LEMMA AccountNext ==
  ASSUME RecordsInv, RecordsStep, NEW t \in Tasks, Account(t)
  PROVE  Account(t)'
  <1>. DEFINE e0 == Cardinality(Executors(t))
              e1 == Cardinality(Executors(t)')
              a0 == Cardinality(Act(t))
              a1 == Cardinality(Act(t)')
              r0 == Cardinality(Resetters(t))
              r1 == Cardinality(Resetters(t)')
              c == Cardinality(Commands)
              n0 == resets[t]
              n1 == resets'[t]
              s0 == stored[t]
              s1 == stored'[t]
  <1>c. /\ e0 \in Nat /\ e1 \in Nat /\ a0 \in Nat /\ a1 \in Nat /\ r0 \in Nat /\ r1 \in Nat
        /\ c \in Nat /\ n0 \in Nat /\ n1 \in Nat /\ s0 \in Nat /\ s1 \in Nat
        /\ a0 <= e0 /\ r1 <= c
    BY Sizes, ActSizes, SizesNext
  <1>a. /\ db[t].worker # NoNode => n0 = 0
        /\ db[t].status = "none" => e0 + r0 + n0 + s0 = 0
        /\ db[t].status = "pending" => r0 = 0 \/ n0 > 0
        /\ e0 + Waits(t) <= n0 + 1
        /\ s0 + a0 + Waits(t) <= n0 + 1
        /\ n0 + r0 <= c
    BY DEF Account
  <1>w. /\ Waits(t) = IF db[t].status = "pending" THEN 1 ELSE 0
        /\ Waits(t)' = IF db'[t].status = "pending" THEN 1 ELSE 0
    BY DEF Waits
  <1>s. \/ e1 <= e0 /\ s1 + a1 <= s0 + a0
        \/ /\ db[t].status = "pending" /\ db'[t].status = "running"
           /\ e1 <= e0 + 1 /\ s1 + a1 <= s0 + a0 + 1
    BY CountMove
  <1>r. \/ r1 <= r0
        \/ db'[t] = db[t] /\ db[t].status = "running" /\ db[t].worker # NoNode
    BY ResettersRec, Sizes, SizeAtMost
  <1>n. \/ n1 = n0
        \/ /\ n1 = n0 + 1 /\ r1 + 1 <= r0 /\ e1 <= e0 /\ s1 + a1 <= s0 + a0
           /\ db[t].status # "none"
           /\ db'[t].status = "pending" /\ db'[t].worker = NoNode
    <2>1. CASE resets'[t] = resets[t]
      BY <2>1
    <2>2. CASE resets'[t] # resets[t]
      <3>1. /\ resets'[t] = resets[t] + 1 /\ Exists(t)
            /\ \E k \in Resetters(t) : k \notin Resetters(t)'
            /\ Resetters(t)' \subseteq Resetters(t)
            /\ db'[t].status = "pending" /\ db'[t].worker = NoNode
        BY <2>2, ResetStep
      <3>2. r1 + 1 <= r0
        BY <3>1, Sizes, SizeLoses
      <3>3. db[t].status # "none"
        BY <3>1 DEF Exists, Absent
      <3>. QED
        BY <1>s, <3>1, <3>2, <3>3
    <2>. QED
      BY <2>1, <2>2
  <1>m. RecRow(t)
    BY RowStepRec
  <1>m1. \/ db'[t] = db[t]
         \/ db[t].status = "none" /\ db'[t].status \in {"none", "pending"}
         \/ /\ db'[t].status \notin {"none", "pending"}
            /\ db'[t].worker \in {NoNode, db[t].worker}
         \/ n1 = n0 + 1
    BY <1>m DEF RecRow
  <1>. HIDE DEF e0, e1, a0, a1, r0, r1, c, n0, n1, s0, s1
  <1>1. CASE n1 # n0
    <2>1. /\ db'[t].worker = NoNode /\ db'[t].status = "pending" /\ n1 > 0
          /\ e1 + 1 <= n1 + 1 /\ s1 + a1 + 1 <= n1 + 1 /\ n1 + r1 <= c
      BY <1>1, <1>c, <1>a, <1>w, <1>n
    <2>. QED
      BY <2>1, <1>w DEF Account, e1, a1, r1, c, n1, s1
  <1>2. CASE n1 = n0 /\ db'[t] = db[t]
    <2>1. /\ db'[t].worker # NoNode => n1 = 0
          /\ db'[t].status = "none" => e1 + r1 + n1 + s1 = 0
          /\ db'[t].status = "pending" => r1 = 0 \/ n1 > 0
      BY <1>2, <1>c, <1>a, <1>s, <1>r
    <2>2. e1 + Waits(t)' <= n1 + 1 /\ s1 + a1 + Waits(t)' <= n1 + 1
      BY <1>2, <1>c, <1>a, <1>w, <1>s
    <2>3. n1 + r1 <= c
      BY <1>2, <1>c, <1>a, <1>r
    <2>. QED
      BY <2>1, <2>2, <2>3 DEF Account, e1, a1, r1, c, n1, s1
  <1>3. CASE n1 = n0 /\ db[t].status = "none" /\ db'[t].status \in {"none", "pending"}
    <2>1. /\ e0 = 0 /\ r0 = 0 /\ n0 = 0 /\ s0 = 0 /\ a0 = 0
      BY <1>3, <1>c, <1>a
    <2>2. e1 = 0 /\ r1 = 0 /\ n1 = 0 /\ s1 = 0 /\ a1 = 0
      BY <1>3, <1>c, <1>s, <1>r, <2>1
    <2>3. Waits(t)' \in {0, 1}
      BY <1>w
    <2>. QED
      BY <1>c, <2>2, <2>3 DEF Account, e1, a1, r1, c, n1, s1
  <1>4. CASE /\ n1 = n0 /\ db'[t] # db[t] /\ db'[t].status \notin {"none", "pending"}
             /\ db'[t].worker \in {NoNode, db[t].worker}
    <2>1. db'[t].worker # NoNode => n1 = 0
      BY <1>4, <1>a
    <2>2. e1 + Waits(t)' <= n1 + 1 /\ s1 + a1 + Waits(t)' <= n1 + 1
      BY <1>4, <1>c, <1>a, <1>w, <1>s
    <2>3. n1 + r1 <= c
      BY <1>4, <1>c, <1>a, <1>r
    <2>. QED
      BY <1>4, <2>1, <2>2, <2>3 DEF Account, e1, a1, r1, c, n1, s1
  <1>. QED
    BY <1>1, <1>2, <1>3, <1>4, <1>c, <1>m1

LEMMA AccountInvHolds == RecordsSpec => []AccountInv
  <1>1. RecordsInit => AccountInv
    <2>. SUFFICES ASSUME RecordsInit, NEW t \in Tasks PROVE Account(t)
      BY DEF AccountInv
    <2>1. /\ Executors(t) = {} /\ Resetters(t) = {} /\ Act(t) = {}
          /\ db[t].worker = NoNode /\ Waits(t) = 0 /\ resets[t] = 0 /\ stored[t] = 0
      BY DEF RecordsInit, Init, NoRow, NoResched, Idle, Executors, Executes, PastClaim,
             Resetters, Act, Waits
    <2>2. Cardinality({}) = 0
      BY FS_EmptySet
    <2>. QED
      BY <2>1, <2>2, Sizes DEF Account
  <1>2. RecordsInv /\ AccountInv /\ [RecordsNext]_allVars => AccountInv'
    BY AccountNext DEF RecordsStep, AccountInv
  <1>. QED
    BY <1>1, <1>2, RecordsInvHolds, PTL DEF RecordsSpec

(* However often messages are duplicated and processes interrupted, an     *)
(* execution is logged once, and every further log takes another reset,    *)
(* however many invocations of the failover command overlap.               *)
THEOREM LoggedAtMostOnce == RecordsSpec => []LoggedOnce
  <1>1. ASSUME RecordsInv, AccountInv PROVE LoggedOnce
    <2>. SUFFICES ASSUME NEW t \in Tasks PROVE stored[t] <= 1 + resets[t]
      BY DEF LoggedOnce
    <2>1. stored[t] + Cardinality(Act(t)) + Waits(t) <= resets[t] + 1
      BY <1>1 DEF AccountInv, Account
    <2>2. Waits(t) \in {0, 1}
      BY DEF Waits
    <2>. QED
      BY <1>1, <2>1, <2>2, ActSizes
  <1>. QED
    BY <1>1, RecordsInvHolds, AccountInvHolds, PTL

-----------------------------------------------------------------------------
(* What the logs say.                                                      *)

(* An error message comes with a failure or a cancellation.                *)
Tells(s, e) == e <=> s \in {"failed", "cancelled"}

(* A task that was not reset has no message before its outcome; a process  *)
(* that logs and the documents say what the row says, and once there is a  *)
(* document nobody is left to change the row.                              *)
Told(t) ==
  /\ db[t].status \in {"none", "pending"} => ~err[t]
  /\ \A p \in Act(t) :
       /\ worker[p].pc # "indexing" => ~err[t]
       /\ worker[p].pc \in {"running", "returned"} => ~obj[p].err
       /\ worker[p].pc = "indexing" => /\ db[t].status \in {obj[p].status, "deleted"}
                                       /\ Tells(obj[p].status, obj[p].err)
  /\ \A d \in Docs : d.task = t =>
       /\ db[t].status \in {d.status, "deleted"}
       /\ Tells(d.status, d.type = "error")
       /\ \A p \in Executors(t) : worker[p].pc \notin Late

ToldInv == \A t \in Tasks : resets[t] = 0 => Told(t)

LEMMA RowKept ==
  ASSUME RecordsInv, RecordsStep, NEW t \in Tasks, resets'[t] = 0,
         db[t].status \in Terminal \cup {"deleted"}, ~Writing(t)
  PROVE  db'[t].status \in {db[t].status, "deleted"}
  BY RowStepRec, ResetStep DEF RecRow, Exists, Absent, Terminal

(* error_message of t changes with its outcome.                            *)
LEMMA ErrMove ==
  ASSUME RecordsInv, RecordsStep, NEW t \in Tasks, resets'[t] = 0
  PROVE  \/ err'[t] = err[t]
         \/ \E p \in Executors(t) :
              /\ worker'[p].pc # worker[p].pc
              /\ \/ worker[p].pc = "returned" /\ worker'[p].pc = "indexing"
                 \/ worker[p].pc \in {"softsave", "excsave"} /\ worker'[p].pc \notin Early
  <1>t. err \in [Tasks -> BOOLEAN] /\ worker \in [Workers -> Worker] /\ TypeOK
    BY DEF RecordsInv, RecordsTypeOK, Patchless, TypeOK
  <1>1. ASSUME NEW p \in Workers, SaveOutcome(p), err'[t] # err[t]
        PROVE  /\ p \in Executors(t)
               /\ worker[p].pc = "returned" /\ worker'[p].pc = "indexing"
    <2>1. worker[p].pc = "returned" /\ worker'[p].pc = "indexing" /\ worker[p].task = t
      BY <1>1, <1>t DEF SaveOutcome, SaveResult
    <2>. QED
      BY <2>1 DEF Executors, Executes, PastClaim
  <1>2. ASSUME NEW p \in Workers, SaveVerdict(p), err'[t] # err[t]
        PROVE  /\ p \in Executors(t)
               /\ worker[p].pc \in {"softsave", "excsave"} /\ worker'[p].pc \notin Late
    <2>1. worker[p].pc \in {"softsave", "excsave"} /\ worker[p].task = t
      BY <1>2, <1>t DEF SaveVerdict, HandlerSave
    <2>2. worker'[p].pc \in {"idle", "retry"}
      BY <1>2, <1>t, GotoPc, ReleasePc DEF SaveVerdict, HandlerSave, LeaveHandler
    <2>. QED
      BY <2>1, <2>2 DEF Executors, Executes, PastClaim, Late, Early
  <1>3. ASSUME NEW k \in Commands, NEW u \in Tasks, ResetWithMessage(k, u) PROVE err'[t] = err[t]
    <2>1. resets \in [Tasks -> Nat]
      BY DEF RecordsInv, RecordsTypeOK
    <2>2. u = t => ~Exists(t)
      BY <1>3, <2>1 DEF ResetWithMessage
    <2>3. CASE u = t
      BY <1>3, <1>t, <2>2, <2>3 DEF ResetWithMessage
    <2>4. CASE u # t
      BY <1>3, <1>t, <2>4 DEF ResetWithMessage
    <2>. QED
      BY <2>3, <2>4
  <1>. QED
    BY <1>1, <1>2, <1>3
    DEF RecordsStep, RecordsNext, Elsewhere, RefreshObject, IndexDoc, SoftLimitAfterIndex, Age,
        EsRefresh, Cleanup, CleanCount, CleanList, CleanBatch, CleanLogs, CleanFails, allVars,
        recVars, Late

(* A handler gets to its save only from a row transit() lets it move.      *)
LEMMA HandlerMove ==
  ASSUME RecordsInv, RecordsStep, NEW p \in Workers,
         worker'[p].pc \in {"softsave", "excsave"}, worker'[p] # worker[p]
  PROVE  /\ HandlerRead(p) /\ worker'[p].task = worker[p].task
         /\ db[worker'[p].task].status \in {"pending", "running"}
  <1>t. worker \in [Workers -> Worker] /\ TypeOK
    BY DEF RecordsInv, Patchless, TypeOK
  <1>0. worker' # worker
    OBVIOUS
  <1>1. [Next]_vars
    BY <1>0, GridOrClean DEF CleanBatch
  <1>2. ASSUME NEW q \in Workers, Execute(q) \/ Interrupt(q)
        PROVE  q = p
    BY <1>t, <1>2, OwnProcess
  <1>3. ASSUME HandlerRead(p)
        PROVE  /\ worker'[p].task = worker[p].task
               /\ db[worker'[p].task].status \in {"pending", "running"}
    <2>1. Transit(db[worker[p].task].status) # {} /\ worker'[p].task = worker[p].task
      <3>1. CASE Accepts(worker[p].task, Verdict(p))
        BY <1>3, <3>1, <1>t, GotoPc DEF HandlerRead, Accepts
      <3>2. CASE LeaveHandler(p)
        BY <3>2, <1>t, GotoPc, ReleasePc DEF LeaveHandler
      <3>. QED
        BY <1>3, <3>1, <3>2 DEF HandlerRead
    <2>. QED
      BY <2>1 DEF Transit
  <1>4. ASSUME NEW l, Goto(p, l) PROVE l \in {"softsave", "excsave"}
    BY <1>4, <1>t, GotoPc
  <1>5. ~Release(p)
    BY <1>t, ReleasePc
  <1>6. \A result : ~SandboxAnswers(p, result)
    BY <1>t, AnswerPc
  <1>7. ~Refresh(p)
    BY <1>t, <1>5, RefreshPc
  <1>8. Execute(p) => HandlerRead(p)
    BY <1>4, <1>5, <1>6, <1>7
    DEF Execute, Claim, Skip, SandboxReturns, CancelPoll, SandboxRaises, SaveResult, IndexLog,
        HandlerSave, LeaveHandler, Retry
  <1>9. ~Interrupt(p)
    BY <1>4, <1>5
    DEF Interrupt, SoftLimit, RetryFails, DbFault, HardLimit, LeaveHandler
  <1>10. \A q \in Workers, m \in Messages : ~Receive(q, m)
    BY <1>t DEF Receive, Idle
  <1>11. \A n \in Nodes : ~NodeCrash(n)
    BY <1>t DEF NodeCrash, Idle
  <1>. QED
    BY <1>0, <1>1, <1>2, <1>3, <1>8, <1>9, <1>10, <1>11
    DEF Next, Web, Create, RetryTask, Dispatch, Enqueue, EnqueueFails, UpdateStatus,
        CancelRunning, CancelQueued, Destroy, PatchRead, PatchSave, Broker, DuplicateMessage,
        LoseMessage, NodesCheck, Node, Heartbeat, AdminOffline, NodeRestart, Reschedule, Proceed,
        ReschedDetect, ReschedQuery, Reset, ReschedSend, ReschedAbort, vars

(* Once t has an outcome, nobody gets to log or to save another.           *)
LEMMA LateMove ==
  ASSUME RecordsInv, RecordsStep, NEW t \in Tasks,
         db[t].status \in Terminal \cup {"deleted"},
         NEW p, p \in Executors(t)', worker'[p].pc \in Late
  PROVE  p \in Executors(t) /\ worker[p].pc \in Late
  <1>p. p \in Workers /\ worker'[p].task = t
    BY DEF Executors, Executes
  <1>n. db[t].status \notin {"pending", "running"}
    BY DEF Terminal
  <1>1. CASE worker'[p].pc \in Early
    <2>1. p \in Act(t)'
      BY <1>1 DEF Act
    <2>. QED
      BY <1>n, <2>1, ActMove DEF Act, Late
  <1>2. CASE worker'[p].pc \in {"softsave", "excsave"}
    <2>1. worker'[p] = worker[p]
      BY <1>p, <1>n, <1>2, HandlerMove
    <2>. QED
      BY <1>p, <1>2, <2>1 DEF Executors, Executes, Late, PastClaim
  <1>. QED
    BY <1>1, <1>2 DEF Late

(* The processes of a task that was not reset.                             *)
LEMMA ToldAct ==
  ASSUME RecordsInv, RecordsStep, NEW t \in Tasks, resets'[t] = 0, Account(t), Told(t),
         NEW p, p \in Act(t)'
  PROVE  /\ worker'[p].pc # "indexing" => ~err'[t]
         /\ worker'[p].pc \in {"running", "returned"} => ~obj'[p].err
         /\ worker'[p].pc = "indexing" => /\ db'[t].status \in {obj'[p].status, "deleted"}
                                          /\ Tells(obj'[p].status, obj'[p].err)
  <1>t. /\ err \in [Tasks -> BOOLEAN] /\ worker \in [Workers -> Worker] /\ TypeOK
        /\ obj \in [Workers -> Obj] /\ db \in [Tasks -> Row]
        /\ \A q \in Workers : worker[q].pc = "indexing" => obj[q].status \in Terminal
    BY DEF RecordsInv, RecordsTypeOK, Patchless, TypeOK
  <1>p. p \in Workers /\ worker'[p].task = t /\ worker'[p].pc \in Early
    BY DEF Act, Executors, Executes
  <1>r. resets[t] = 0 /\ RecRow(t) /\ ObjMove(p)
    BY <1>p, Spares, RowStepRec, ObjStep
  <1>i. /\ \A q \in Executors(t) : \A r \in Executors(t) : q = r
        /\ db[t].status \in {"none", "pending"} => Executors(t) = {} /\ ~err[t]
    BY <1>r, OneProcess DEF Told
  <1>w. ASSUME p \in Act(t)
        PROVE  /\ worker[p].pc # "indexing" => ~err[t]
               /\ worker[p].pc \in {"running", "returned"} => ~obj[p].err
               /\ worker[p].pc = "indexing" => /\ db[t].status \in {obj[p].status, "deleted"}
                                               /\ Tells(obj[p].status, obj[p].err)
    BY <1>w DEF Told
  <1>1. ASSUME worker'[p] = worker[p], Holds(worker[p]) => obj'[p] = obj[p]
        PROVE  /\ worker'[p].pc # "indexing" => ~err'[t]
               /\ worker'[p].pc \in {"running", "returned"} => ~obj'[p].err
               /\ worker'[p].pc = "indexing" =>
                    /\ db'[t].status \in {obj'[p].status, "deleted"}
                    /\ Tells(obj'[p].status, obj'[p].err)
    <2>1. p \in Act(t) /\ p \in Executors(t)
      BY <1>p, <1>1 DEF Act, Executors, Executes, Early, PastClaim
    <2>2. err'[t] = err[t]
      BY <1>i, <1>1, <2>1, ErrMove
    <2>3. CASE worker[p].pc = "indexing"
      <3>1. ~Writing(t)
        BY <1>i, <2>1, <2>3 DEF Writing
      <3>2. db'[t].status \in {db[t].status, "deleted"}
        BY <1>p, <1>t, <1>w, <2>1, <2>3, <3>1, RowKept
      <3>3. obj'[p] = obj[p]
        BY <1>1, <2>3 DEF Holds
      <3>. QED
        BY <1>1, <1>w, <2>1, <2>3, <3>2, <3>3
    <2>4. CASE worker[p].pc # "indexing"
      <3>1. worker[p].pc \in {"running", "returned"} => obj'[p] = obj[p]
        BY <1>1 DEF Holds
      <3>. QED
        BY <1>1, <1>w, <2>1, <2>2, <2>4, <3>1
    <2>. QED
      BY <2>3, <2>4
  <1>2. CASE Claim(p) /\ worker'[p].pc = "claimed"
    <2>1. worker[p].task = t
      BY <1>p, <1>t, <1>2, GotoPc DEF Claim
    <2>2. db[t].status = "pending"
      BY <1>2, <2>1 DEF Claim, Claimable
    <2>3. err'[t] = err[t] /\ ~err[t]
      BY <1>i, <2>2, ErrMove
    <2>. QED
      BY <1>2, <2>3
  <1>3. CASE RefreshObject(p) /\ worker'[p].pc = "running" /\ worker'[p].task = worker[p].task
    <2>1. worker[p].pc = "claimed" /\ p \in Act(t)
      BY <1>3, <1>p
      DEF RefreshObject, Refresh, Act, Executors, Executes, Early, PastClaim
    <2>2. ~err[t]
      BY <1>w, <2>1
    <2>3. err' = err /\ obj'[p] \in {NoObj, [NoObj EXCEPT !.err = err[t]]}
      BY <1>3, <1>p, <1>t DEF RefreshObject
    <2>4. ~obj'[p].err
      <3>1. NoObj.err = FALSE /\ [NoObj EXCEPT !.err = err[t]].err = err[t]
        BY DEF NoObj
      <3>. QED
        BY <2>2, <2>3, <3>1
    <2>. QED
      BY <1>3, <2>2, <2>3, <2>4
  <1>4. CASE /\ worker[p].pc = "running" /\ worker'[p].pc = "returned"
             /\ worker'[p].task = worker[p].task /\ obj'[p] = obj[p]
    <2>1. p \in Act(t) /\ p \in Executors(t)
      BY <1>4, <1>p DEF Act, Executors, Executes, Early, PastClaim
    <2>2. err'[t] = err[t]
      BY <1>i, <1>4, <2>1, ErrMove
    <2>. QED
      BY <1>4, <1>w, <2>1, <2>2
  <1>5. CASE SaveOutcome(p) /\ worker'[p].pc = "indexing" /\ worker'[p].task = worker[p].task
    <2>1. worker[p].pc = "returned" /\ p \in Act(t)
      BY <1>5, <1>p
      DEF SaveOutcome, SaveResult, Act, Executors, Executes, Early, PastClaim
    <2>2. ~obj[p].err
      BY <1>w, <2>1
    <2>3. obj'[p] = Outcome(obj[p], worker[p].out)
      BY <1>5, <1>p, <1>t DEF SaveOutcome
    <2>4. obj'[p].status = worker[p].out /\ Tells(obj'[p].status, obj'[p].err)
      <3>1. CASE worker[p].out \in {"failed", "cancelled"}
        <4>1. obj'[p] = [status |-> worker[p].out, err |-> TRUE]
          BY <2>3, <3>1 DEF Outcome
        <4>. QED
          BY <3>1, <4>1 DEF Tells
      <3>2. CASE worker[p].out \notin {"failed", "cancelled"}
        <4>1. obj'[p] = [status |-> worker[p].out, err |-> FALSE]
          BY <2>2, <2>3, <3>2 DEF Outcome
        <4>. QED
          BY <3>2, <4>1 DEF Tells
      <3>. QED
        BY <3>1, <3>2
    <2>5. db'[t].status = worker[p].out
      <3>1. ~Goto(p, "exc")
        BY <1>5, <1>p, <1>t, GotoPc
      <3>2. db' = [db EXCEPT ![t] = Finished(@, worker[p].out)]
        BY <1>5, <1>p, <3>1 DEF SaveOutcome, SaveResult
      <3>3. db'[t] = Finished(db[t], worker[p].out)
        BY <1>t, <3>2
      <3>. QED
        BY <1>t, <3>3 DEF Finished, Row
    <2>. QED
      BY <1>5, <2>4, <2>5
  <1>. QED
    BY <1>p, <1>r, <1>1, <1>2, <1>3, <1>4, <1>5 DEF ObjMove

(* ... and its documents.                                                  *)
LEMMA ToldDocs ==
  ASSUME RecordsInv, RecordsStep, NEW t \in Tasks, resets'[t] = 0, Account(t), Told(t),
         NEW d, d \in Docs', d.task = t
  PROVE  /\ db'[t].status \in {d.status, "deleted"}
         /\ Tells(d.status, d.type = "error")
         /\ \A p \in Executors(t)' : worker'[p].pc \notin Late
  <1>t. /\ Docs \subseteq Doc /\ worker \in [Workers -> Worker]
        /\ \A q \in Workers : worker[q].pc = "indexing" => obj[q].status \in Terminal
    BY DEF RecordsInv, RecordsTypeOK, Patchless, TypeOK, Docs
  <1>r. resets[t] = 0
    BY Spares
  <1>1. CASE d \in Docs
    <2>1. /\ db[t].status \in {d.status, "deleted"}
          /\ Tells(d.status, d.type = "error")
          /\ \A p \in Executors(t) : worker[p].pc \notin Late
      BY <1>1 DEF Told
    <2>2. d.status \in Terminal
      BY <1>t, <1>1 DEF Doc
    <2>3. ~Writing(t)
      BY <2>1 DEF Writing, Late, Early
    <2>4. db'[t].status \in {db[t].status, "deleted"}
      BY <2>1, <2>2, <2>3, RowKept
    <2>5. \A p \in Executors(t)' : worker'[p].pc \notin Late
      BY <2>1, <2>2, LateMove
    <2>. QED
      BY <2>1, <2>4, <2>5
  <1>2. ASSUME NEW p \in Workers, Logs(p), d \notin Docs
        PROVE  /\ db'[t].status \in {d.status, "deleted"}
               /\ Tells(d.status, d.type = "error")
               /\ \A q \in Executors(t)' : worker'[q].pc \notin Late
    <2>1. d = DocOf(p)
      BY <1>2 DEF Logs, Store, Docs
    <2>2. /\ worker[p].task = t /\ d.status = obj[p].status
          /\ d.type = IF obj[p].err THEN "error" ELSE "run"
      BY <2>1 DEF DocOf
    <2>3. p \in Act(t) /\ p \in Executors(t) /\ worker[p].pc = "indexing"
      BY <1>2, <2>2 DEF Logs, Act, Executors, Executes, Early, PastClaim
    <2>4. db[t].status \in {obj[p].status, "deleted"} /\ Tells(obj[p].status, obj[p].err)
      BY <2>3 DEF Told
    <2>5. db' = db /\ worker'[p].pc \notin Late
      BY <1>2 DEF Logs
    <2>6. \A q \in Executors(t) : q = p
      BY <1>r, <2>3, OneProcess
    <2>7. db[t].status \in Terminal \cup {"deleted"}
      BY <1>t, <2>3, <2>4
    <2>8. \A q \in Executors(t)' : worker'[q].pc \notin Late
      BY <2>5, <2>6, <2>7, LateMove
    <2>9. Tells(d.status, d.type = "error")
      BY <2>2, <2>4 DEF Tells
    <2>. QED
      BY <2>2, <2>4, <2>5, <2>8, <2>9
  <1>. QED
    BY <1>1, <1>2, LogMove

LEMMA ToldNext ==
  ASSUME RecordsInv, RecordsStep, NEW t \in Tasks, resets'[t] = 0, Account(t),
         resets[t] = 0 => Told(t)
  PROVE  Told(t)'
  <1>1. resets[t] = 0 /\ RecRow(t) /\ Told(t)
    BY Spares, RowStepRec
  <1>2. ASSUME db'[t].status \in {"none", "pending"} PROVE ~err'[t]
    <2>1. db[t].status \in {"none", "pending"}
      BY <1>1, <1>2 DEF RecRow
    <2>2. Executors(t) = {} /\ ~err[t]
      BY <1>1, <2>1, OneProcess DEF Told
    <2>. QED
      BY <2>2, ErrMove
  <1>. QED
    BY <1>1, <1>2, ToldAct, ToldDocs DEF Told

LEMMA ToldInvHolds == RecordsSpec => []ToldInv
  <1>1. RecordsInit => ToldInv
    BY DEF RecordsInit, Init, Idle, NoRow, ToldInv, Told, Act, Executors, Executes, PastClaim, Docs
  <1>2. RecordsInv /\ AccountInv /\ ToldInv /\ [RecordsNext]_allVars => ToldInv'
    BY ToldNext DEF RecordsStep, ToldInv, AccountInv
  <1>. QED
    BY <1>1, <1>2, RecordsInvHolds, AccountInvHolds, PTL DEF RecordsSpec

(* A document keeps the owner of its task.                                 *)
OwnersOK == \A d \in Docs : d.owner = OwnerOf[d.task]

LEMMA OwnersHold == RecordsSpec => []OwnersOK
  <1>1. RecordsInit => OwnersOK
    BY DEF RecordsInit, OwnersOK, Docs
  <1>2. ASSUME RecordsInv, OwnersOK, [RecordsNext]_allVars
        PROVE  OwnersOK'
    <2>1. ASSUME NEW p \in Workers, Logs(p) PROVE Docs' \subseteq Docs \cup {DocOf(p)}
      BY <2>1 DEF Logs, Store, Docs
    <2>2. \A p \in Workers : DocOf(p).owner = OwnerOf[DocOf(p).task]
      BY DEF DocOf
    <2>. QED
      BY <1>2, <2>1, <2>2, LogMove DEF RecordsStep, OwnersOK
  <1>. QED
    BY <1>1, <1>2, RecordsInvHolds, PTL DEF RecordsSpec

(* Search and list agree, for every user, status and task.                 *)
THEOREM SearchAgrees == RecordsSpec => []SearchMatchesList
  <1>1. RecordsInv /\ OwnersOK /\ ToldInv => SearchMatchesList
    <2>. SUFFICES ASSUME RecordsInv, OwnersOK, ToldInv,
                         NEW u \in Users, NEW s \in Terminal, NEW d \in Hits(u, s),
                         Exists(d.task), resets[d.task] = 0
                  PROVE  d.task \in Listed(u, s)
      BY DEF SearchMatchesList
    <2>1. d \in Docs /\ d \in Doc /\ d.status = s /\ d.owner \in OwnersFor(u)
      BY DEF Hits, Docs, RecordsInv, RecordsTypeOK
    <2>2. d.task \in Tasks /\ d.owner = OwnerOf[d.task]
      BY <2>1 DEF Doc, OwnersOK
    <2>3. db[d.task].status = s
      BY <2>1, <2>2 DEF ToldInv, Told, Exists, Absent
    <2>4. IsAdmin(u) \/ OwnerOf[d.task] = u
      BY <2>1, <2>2 DEF OwnersFor
    <2>. QED
      BY <2>2, <2>3, <2>4 DEF Listed
  <1>. QED
    BY <1>1, RecordsInvHolds, OwnersHold, ToldInvHolds, PTL

(* The log type tells failures and cancellations from the rest.            *)
THEOREM TypeTells == RecordsSpec => []TypeTellsOutcome
  <1>1. RecordsInv /\ ToldInv => TypeTellsOutcome
    BY DEF RecordsInv, RecordsTypeOK, ToldInv, Told, Tells, TypeTellsOutcome, Docs, Doc
  <1>. QED
    BY <1>1, RecordsInvHolds, ToldInvHolds, PTL

-----------------------------------------------------------------------------
(* The refinement of TaskAttempts.                                         *)

(* As long as nobody sets a status by hand, a task that was not reset      *)
(* keeps the row its process relies on.                                    *)
Spared(t) == \A p \in Executors(t) : worker[p].pc \in Holding
                => db[t].status \in {"running", "deleted"}

AttemptInv == "status" \notin Env => \A t \in Tasks : resets[t] = 0 => Spared(t)

(* The row of a task that was not reset leaves running by its process.     *)
LEMMA RowHeld ==
  ASSUME RecordsInv, RecordsStep, "status" \notin Env, NEW t \in Tasks, resets'[t] = 0,
         db[t].status \in {"running", "deleted"},
         \A p \in Executors(t) : worker'[p].pc = worker[p].pc
                                 \/ worker[p].pc \notin {"returned", "softsave", "excsave"}
  PROVE  db'[t].status \in {"running", "deleted"}
  <1>1. CASE db[t].status = "deleted"
    BY <1>1, RowStepRec DEF RecRow, Exists, Absent
  <1>2. CASE db[t].status = "running" /\ [Next]_vars
    <2>0. Patchless /\ TypeOK
      BY DEF RecordsInv, Patchless
    <2>1. snap[t] = NoRow
      BY DEF RecordsInv, Patchless
    <2>2. \A s : ~UpdateStatus(t, s)
      BY DEF UpdateStatus
    <2>3. RecRow(t) /\ resets[t] \in Nat
      BY RowStepRec, ResetStep
    <2>4. db'[t].status # "pending"
      BY <1>2, <2>3 DEF RecRow
    <2>. QED
      BY <1>2, <2>0, <2>1, <2>2, <2>4, StaleSaves DEF StaleSave
  <1>3. ASSUME db[t].status = "running", NEW c \in Cleaners, CleanBatch(c)
        PROVE  db'[t].status \in {"running", "deleted"}
    <2>1. db'[t] \in {db[t], Cleaned(db[t])} /\ db[t] \in Row
      BY <1>3, CleanedRow DEF RecordsInv, Patchless, TypeOK
    <2>. QED
      BY <1>3, <2>1, CleanedType
  <1>. QED
    BY <1>1, <1>2, <1>3, GridOrClean

LEMMA SparedNext ==
  ASSUME RecordsInv, RecordsStep, "status" \notin Env, NEW t \in Tasks, resets'[t] = 0,
         Account(t), Spared(t)
  PROVE  Spared(t)'
  <1>. SUFFICES ASSUME NEW p, p \in Executors(t)', worker'[p].pc \in Holding
                PROVE  db'[t].status \in {"running", "deleted"}
    BY DEF Spared
  <1>t. /\ worker \in [Workers -> Worker] /\ TypeOK /\ db \in [Tasks -> Row]
        /\ p \in Workers /\ worker'[p].task = t /\ resets[t] = 0
    BY Spares DEF RecordsInv, Patchless, TypeOK, Executors, Executes
  <1>s. /\ \A q \in Executors(t) : \A r \in Executors(t) : q = r
        /\ db[t].status = "pending" => Executors(t) = {}
    BY <1>t, OneProcess
  <1>k. ASSUME p \in Executors(t), worker[p].pc \in Holding,
               \/ worker'[p].pc = worker[p].pc
               \/ worker[p].pc \notin {"returned", "softsave", "excsave"}
        PROVE  db'[t].status \in {"running", "deleted"}
    BY <1>s, <1>k, RowHeld DEF Spared
  <1>1. CASE worker'[p] = worker[p]
    BY <1>1, <1>k DEF Executors, Executes
  <1>2. CASE worker'[p].pc \in {"softsave", "excsave"} /\ worker'[p] # worker[p]
    <2>1. HandlerRead(p) /\ worker[p].task = t /\ db[t].status \in {"pending", "running"}
      BY <1>t, <1>2, HandlerMove
    <2>2. p \in Executors(t) /\ db' = db
      BY <1>t, <2>1 DEF HandlerRead, Executors, Executes, PastClaim, taskVars
    <2>. QED
      BY <1>s, <2>1, <2>2
  <1>3. CASE worker'[p].pc \in {"claimed", "running", "returned"} /\ worker'[p] # worker[p]
    <2>1. /\ worker'[p].task = worker[p].task
          /\ \/ Claim(p) /\ worker'[p].pc = "claimed"
             \/ RefreshObject(p) /\ worker'[p].pc = "running"
             \/ worker[p].pc = "running" /\ worker'[p].pc = "returned"
      BY <1>t, <1>3, ObjStep DEF ObjMove, Early
    <2>2. CASE Claim(p)
      BY <1>t, <2>1, <2>2 DEF Claim, Claimed, Row
    <2>3. CASE RefreshObject(p) \/ worker[p].pc = "running"
      <3>1. worker[p].pc \in {"claimed", "running"} /\ worker[p].task = t
        BY <1>t, <2>1, <2>3 DEF RefreshObject, Refresh
      <3>2. p \in Executors(t)
        BY <1>t, <3>1 DEF Executors, Executes, PastClaim
      <3>. QED
        BY <1>k, <3>1, <3>2 DEF Holding
    <2>. QED
      BY <2>1, <2>2, <2>3
  <1>. QED
    BY <1>1, <1>2, <1>3 DEF Holding

LEMMA AttemptInvNext ==
  ASSUME RecordsInv, AccountInv, AttemptInv, RecordsStep
  PROVE  AttemptInv'
  <1>1. ASSUME "status" \notin Env, NEW t \in Tasks, resets'[t] = 0 PROVE Spared(t)'
    <2>1. resets[t] = 0
      BY <1>1, Spares
    <2>. QED
      BY <1>1, <2>1, SparedNext DEF AttemptInv, AccountInv
  <1>. QED
    BY <1>1 DEF AttemptInv

LEMMA AttemptInvInit == RecordsInit => AttemptInv
  BY DEF RecordsInit, Init, Idle, Executors, Executes, PastClaim, AttemptInv, Spared

(* The tables of the two specifications are the same.                      *)
LEMMA AttemptTables ==
  /\ Attempts!Terminal = Terminal /\ Attempts!Absent = Absent
  /\ \A s : Attempts!Transit(s) = Transit(s)
  BY DEF Attempts!Terminal, Terminal, Attempts!Absent, Absent, Attempts!Transit, Transit

LEMMA AttemptSizes == ASSUME NEW X PROVE Attempts!Cardinality(X) = Cardinality(X)
  BY DEF Attempts!Cardinality, Cardinality

(* A step that leaves the table alone.                                     *)
LEMMA AttemptStop ==
  ASSUME RecordsInv, Shrinks, db' = db, resets' = resets
  PROVE  Attempts!AttemptsNext
  <1>. DEFINE P == {p \in Workers : \E t \in Tasks : Executes(p, t) /\ ~Executes(p, t)'}
  <1>1. ASSUME NEW t \in Tasks PROVE Executors(t)' = Executors(t) \ P
    <2>1. \A p \in Workers : Executes(p, t)' => Executes(p, t)
      BY DEF Shrinks, Executes
    <2>2. \A p \in Workers, u \in Tasks : Executes(p, t) /\ Executes(p, u) => u = t
      BY DEF Executes
    <2>. QED
      BY <2>1, <2>2 DEF Executors
  <1>2. E' = [t \in Tasks |-> E[t] \ P]
    BY <1>1 DEF E
  <1>3. S' = S
    BY DEF S
  <1>4. Attempts!Stop(P)
    BY <1>2, <1>3 DEF Attempts!Stop, S, E
  <1>5. P \in SUBSET Workers
    OBVIOUS
  <1>. QED
    BY <1>4, <1>5 DEF Attempts!AttemptsNext

LEMMA AttemptStart ==
  ASSUME RecordsInv, AccountInv, AttemptInv, NEW p \in Workers, Claim(p), resets' = resets
  PROVE  Attempts!AttemptsNext
  <1>. DEFINE u == worker[p].task
  <1>1. /\ u \in Tasks /\ db \in [Tasks -> Row] /\ worker \in [Workers -> Worker] /\ TypeOK
        /\ db[u].status = "pending" /\ worker[p].pc = "got"
    BY DEF Claim, Claimable, RecordsInv, Patchless, TypeOK
  <1>2. p \notin Executors(u)
    BY <1>1 DEF Executors, Executes, PastClaim
  <1>3. Cardinality(Executors(u)) <= resets[u]
    <2>1. Account(u) /\ Waits(u) = 1
      BY <1>1 DEF AccountInv, Waits
    <2>2. Cardinality(Executors(u)) \in Nat /\ resets[u] \in Nat
      BY <1>1, ActSizes, Sizes
    <2>. HIDE DEF u
    <2>. QED
      BY <2>1, <2>2 DEF Account
  <1>4. S' = [S EXCEPT ![u] = "running"]
    BY <1>1 DEF Claim, Claimed, S, Row
  <1>5. worker' = [worker EXCEPT ![p] = worker'[p]]
        /\ worker'[p].pc = "claimed" /\ worker'[p].task = u
    BY <1>1 DEF Claim, Goto, Worker
  <1>6. ASSUME NEW t \in Tasks
        PROVE  Executors(t)' = IF t = u THEN Executors(t) \cup {p} ELSE Executors(t)
    <2>1. \A q \in Workers : Executes(q, t)' <=> IF q = p THEN t = u ELSE Executes(q, t)
      BY <1>1, <1>5 DEF Executes, PastClaim
    <2>2. ~Executes(p, t)
      BY <1>1 DEF Executes, PastClaim
    <2>. QED
      BY <2>1, <2>2 DEF Executors
  <1>7. E' = [E EXCEPT ![u] = @ \cup {p}]
    BY <1>1, <1>6 DEF E
  <1>8. S[u] = "pending" /\ E[u] = Executors(u)
    BY <1>1 DEF S, E
  <1>9. Attempts!Start(u, p)
    <2>. HIDE DEF u
    <2>. QED
      BY <1>2, <1>3, <1>4, <1>7, <1>8, AttemptSizes, Zenon DEF Attempts!Start, S, E
  <1>. QED
    BY <1>1, <1>9 DEF Attempts!AttemptsNext

LEMMA AttemptDelete ==
  ASSUME NEW L \in SUBSET Tasks, \A t \in L : S[t] \notin Absent,
         S' = [t \in Tasks |-> IF t \in L THEN "deleted" ELSE S[t]],
         E' = E, resets' = resets
  PROVE  Attempts!AttemptsNext
  <1>1. \A t \in L : S[t] \notin Attempts!Absent
    BY AttemptTables
  <1>2. Attempts!Delete(L)
    BY <1>1, Zenon DEF Attempts!Delete, S, E
  <1>. QED
    BY <1>2 DEF Attempts!AttemptsNext

(* The process that writes an outcome may stop in the same step.           *)
LEMMA AttemptDecide ==
  ASSUME NEW u \in Tasks, NEW s \in Terminal, s \in Transit(S[u]),
         S' = [S EXCEPT ![u] = s], resets' = resets,
         E' = E \/ \E p \in E[u] : E' = [E EXCEPT ![u] = @ \ {p}]
  PROVE  Attempts!AttemptsNext
  <1>1. s \in Attempts!Transit(S[u]) \cap Attempts!Terminal
    BY AttemptTables
  <1>2. Attempts!MayStop(u)
    <2>1. CASE E' = E
      BY <2>1 DEF Attempts!MayStop, E
    <2>2. ASSUME NEW p \in E[u], E' = [E EXCEPT ![u] = @ \ {p}] PROVE Attempts!MayStop(u)
      BY <2>2 DEF Attempts!MayStop, E
    <2>. QED
      BY <2>1, <2>2
  <1>3. Attempts!Decide(u, s)
    BY <1>1, <1>2, Zenon DEF Attempts!Decide, S
  <1>. QED
    BY <1>1, <1>3, Zenon DEF Attempts!AttemptsNext

LEMMA AttemptOverwrite ==
  ASSUME NEW u \in Tasks, NEW s \in Terminal, S[u] \notin Absent,
         resets[u] > 0 \/ "status" \in Env,
         S' = [S EXCEPT ![u] = s], resets' = resets,
         E[u] # {},
         E' = E \/ \E p \in E[u] : E' = [E EXCEPT ![u] = @ \ {p}]
  PROVE  Attempts!AttemptsNext
  <1>1. S[u] \notin Attempts!Absent /\ s \in Attempts!Terminal
    BY AttemptTables
  <1>2. Attempts!MayStop(u)
    <2>1. CASE E' = E
      BY <2>1 DEF Attempts!MayStop, E
    <2>2. ASSUME NEW p \in E[u], E' = [E EXCEPT ![u] = @ \ {p}] PROVE Attempts!MayStop(u)
      BY <2>2 DEF Attempts!MayStop, E
    <2>. QED
      BY <2>1, <2>2
  <1>3. Attempts!Overwrite(u, s)
    BY <1>1, <1>2, Zenon DEF Attempts!Overwrite, S, E
  <1>. QED
    BY <1>1, <1>3, Zenon DEF Attempts!AttemptsNext

(* A process writes the outcome of a task it executes.                     *)
LEMMA AttemptSave ==
  ASSUME RecordsInv, AttemptInv, Shrinks, NEW p \in Workers,
         SaveResult(p) \/ HandlerSave(p), db' # db, resets' = resets
  PROVE  Attempts!AttemptsNext
  <1>1. TypeOK /\ db \in [Tasks -> Row] /\ worker \in [Workers -> Worker]
    BY DEF RecordsInv, Patchless, TypeOK
  <1>u. PICK u \in Tasks : worker[p].task = u
    BY <1>1 DEF SaveResult, HandlerSave, TypeOK
  <1>2. worker[p].pc \in Holding /\ worker[p].pc \in PastClaim
    BY DEF SaveResult, HandlerSave, Holding, PastClaim
  <1>3. Exists(u) /\ \E s \in Terminal : db' = [db EXCEPT ![u] = Finished(@, s)]
    <2>1. CASE SaveResult(p)
      <3>1. /\ Exists(u) /\ db' = [db EXCEPT ![u] = Finished(@, worker[p].out)]
            /\ worker[p].out \in Transit(worker[p].mem)
        BY <1>u, <2>1 DEF SaveResult
      <3>2. worker[p].out \in Terminal
        BY <1>1, <3>1 DEF Worker, Transit, Terminal
      <3>. QED
        BY <3>1, <3>2
    <2>2. CASE HandlerSave(p)
      <3>1. Exists(u) /\ db' = [db EXCEPT ![u] = Finished(@, Verdict(p))]
        BY <1>u, <2>2 DEF HandlerSave
      <3>2. Verdict(p) \in Terminal
        BY DEF Verdict, Terminal
      <3>. QED
        BY <3>1, <3>2
    <2>. QED
      BY <2>1, <2>2
  <1>4. PICK s \in Terminal : db' = [db EXCEPT ![u] = Finished(@, s)]
    BY <1>3
  <1>5. S[u] = db[u].status /\ S' = [S EXCEPT ![u] = s] /\ S[u] \notin Absent
    BY <1>1, <1>3, <1>4 DEF Finished, S, Row, Exists
  <1>6. p \in Executors(u) /\ E[u] = Executors(u)
    BY <1>u, <1>2 DEF Executors, Executes, E
  <1>7. E' = E \/ E' = [E EXCEPT ![u] = @ \ {p}]
    <2>1. \A q \in Workers : q # p => worker'[q] = worker[q]
      BY <1>1, OwnProcess DEF Execute
    <2>2. ASSUME NEW t \in Tasks, t # u PROVE Executors(t)' = Executors(t)
      <3>1. ~Executes(p, t) /\ ~Executes(p, t)'
        BY <1>u, <1>2, <2>2 DEF Shrinks, Executes
      <3>. QED
        BY <2>1, <3>1 DEF Executors, Executes
    <2>3. Executors(u)' \in {Executors(u), Executors(u) \ {p}}
      <3>1. \A q \in Workers : q # p => (Executes(q, u)' <=> Executes(q, u))
        BY <2>1 DEF Executes
      <3>. QED
        BY <1>6, <3>1 DEF Executors
    <2>. QED
      BY <2>2, <2>3 DEF E
  <1>8. CASE resets[u] > 0 \/ "status" \in Env
    BY <1>5, <1>6, <1>7, <1>8, AttemptOverwrite
  <1>n. resets[u] \in Nat
    BY ActSizes
  <1>9. CASE resets[u] = 0 /\ "status" \notin Env
    <2>1. db[u].status = "running"
      BY <1>2, <1>3, <1>6, <1>9 DEF AttemptInv, Spared, Exists, Absent
    <2>2. s \in Transit(S[u])
      BY <1>5, <2>1 DEF Transit
    <2>. QED
      BY <1>5, <1>6, <1>7, <2>2, AttemptDecide
  <1>. QED
    BY <1>8, <1>9, <1>n

(* A request changes a row.                                                *)
LEMMA AttemptWeb ==
  ASSUME RecordsInv, NEW u \in Tasks, Web(u), db' # db, resets' = resets
  PROVE  [Attempts!AttemptsNext]_<<S, E, resets>>
  <1>1. db \in [Tasks -> Row] /\ \A t \in Tasks : snap[t] = NoRow
    BY DEF RecordsInv, Patchless, TypeOK
  <1>2. E' = E
    BY DEF Web, Create, RetryTask, Dispatch, Enqueue, EnqueueFails, UpdateStatus,
           CancelRunning, CancelQueued, Destroy, PatchRead, PatchSave, E, Executors, Executes
  <1>3. CASE Dispatch(u)
    <2>1. S[u] = "none" /\ S' = [S EXCEPT ![u] = "pending"]
      BY <1>1, <1>3 DEF Dispatch, NoRow, S
    <2>2. Attempts!Submit(u)
      BY <1>2, <2>1, Zenon DEF Attempts!Submit, S, E
    <2>. QED
      BY <2>2 DEF Attempts!AttemptsNext
  <1>4. CASE CancelRunning(u)
    <2>1. S' = S
      BY <1>1, <1>4 DEF CancelRunning, S, Row
    <2>. QED
      BY <1>2, <2>1
  <1>5. CASE CancelQueued(u)
    <2>1. "cancelled" \in Transit(S[u]) /\ S' = [S EXCEPT ![u] = "cancelled"]
      BY <1>1, <1>5 DEF CancelQueued, Accepts, Finished, S, Row
    <2>2. "cancelled" \in Terminal
      BY DEF Terminal
    <2>. QED
      BY <1>2, <2>1, <2>2, AttemptDecide
  <1>6. CASE Destroy(u)
    <2>1. S[u] \notin Absent /\ S' = [t \in Tasks |-> IF t \in {u} THEN "deleted" ELSE S[t]]
      BY <1>1, <1>6 DEF Destroy, Exists, NoRow, S
    <2>. QED
      BY <1>2, <2>1, AttemptDelete
  <1>7. ASSUME NEW s \in Status, UpdateStatus(u, s)
        PROVE  Attempts!AttemptsNext
    <2>1. s \in Transit(S[u]) /\ S' = [S EXCEPT ![u] = s] /\ "status" \in Env
      BY <1>1, <1>7 DEF UpdateStatus, Accepts, S, Row
    <2>2. CASE s \in Terminal
      BY <1>2, <2>1, <2>2, AttemptDecide
    <2>3. CASE s \notin Terminal
      <3>1. s = "running" /\ S[u] = "pending"
        BY <2>1, <2>3 DEF Transit, Terminal
      <3>2. Attempts!Declare(u)
        BY <1>2, <2>1, <3>1, Zenon DEF Attempts!Declare, S, E
      <3>. QED
        BY <3>2 DEF Attempts!AttemptsNext
    <2>. QED
      BY <2>2, <2>3
  <1>8. ~PatchSave(u)
    BY <1>1 DEF PatchSave
  <1>. QED
    BY <1>3, <1>4, <1>5, <1>6, <1>7, <1>8
    DEF Web, Create, RetryTask, Enqueue, EnqueueFails, PatchRead, taskVars

(* The cleanup deletes a batch of rows.                                    *)
LEMMA AttemptClean ==
  ASSUME RecordsInv, NEW c \in Cleaners, CleanBatch(c)
  PROVE  Attempts!AttemptsNext
  <1>. DEFINE L == {t \in Tasks : db'[t].status # db[t].status}
  <1>1. /\ \A t \in Tasks : db'[t] \in {db[t], Cleaned(db[t])} /\ db[t] \in Row
        /\ worker' = worker /\ resets' = resets
    BY CleanedRow DEF RecordsInv, Patchless, TypeOK
  <1>2. ASSUME NEW t \in L PROVE db[t].status \notin Absent /\ db'[t].status = "deleted"
    BY <1>1, CleanedType DEF Absent
  <1>3. S' = [t \in Tasks |-> IF t \in L THEN "deleted" ELSE S[t]]
    BY <1>2 DEF S
  <1>4. \A t \in L : S[t] \notin Absent
    BY <1>2 DEF S
  <1>5. E' = E
    BY <1>1 DEF E, Executors, Executes
  <1>6. L \in SUBSET Tasks
    OBVIOUS
  <1>. HIDE DEF L
  <1>. QED
    BY <1>1, <1>3, <1>4, <1>5, <1>6, AttemptDelete

(* A command sends a task back to the queue.                               *)
LEMMA AttemptRevive ==
  ASSUME RecordsInv, AccountInv, NEW k \in Commands, NEW u \in Tasks,
         ResetWithMessage(k, u), resets' # resets
  PROVE  Attempts!AttemptsNext
  <1>1. /\ db \in [Tasks -> Row] /\ Exists(u) /\ k \in Resetters(u) /\ Account(u)
    BY DEF RecordsInv, Patchless, TypeOK, ResetWithMessage, Reset, Resetters, AccountInv
  <1>2. /\ db' = [db EXCEPT ![u] = ResetRow(@)] /\ worker' = worker
        /\ resets' = [resets EXCEPT ![u] = @ + 1]
    BY <1>1 DEF ResetWithMessage, Reset
  <1>3. /\ Cardinality(Resetters(u)) \in Nat /\ Cardinality(Resetters(u)) # 0
        /\ Cardinality(Commands) \in Nat /\ resets[u] \in Nat
    <2>1. Cardinality({}) + 1 <= Cardinality(Resetters(u)) /\ Cardinality({}) = 0
      BY <1>1, Sizes, SizeLoses, FS_EmptySet
    <2>. QED
      BY <2>1, Sizes, ActSizes
  <1>4. /\ resets[u] < Cardinality(Commands)
        /\ db[u].status = "pending" => resets[u] > 0
    BY <1>1, <1>3 DEF Account
  <1>5. /\ S[u] \notin Attempts!Absent /\ S[u] = db[u].status
        /\ S' = [S EXCEPT ![u] = "pending"]
    BY <1>1, <1>2, AttemptTables DEF S, ResetRow, Row, Exists
  <1>6. E' = E
    BY <1>2 DEF E, Executors, Executes
  <1>7. Attempts!Revive(u)
    BY <1>2, <1>4, <1>5, <1>6, Zenon DEF Attempts!Revive, S, E
  <1>. QED
    BY <1>7 DEF Attempts!AttemptsNext

LEMMA AttemptStep ==
  ASSUME RecordsInv, AccountInv, AttemptInv, RecordsStep
  PROVE  [Attempts!AttemptsNext]_<<S, E, resets>>
  <1>1. CASE resets' # resets
    <2>1. PICK k \in Commands, u \in Tasks : ResetWithMessage(k, u)
      BY <1>1
      DEF RecordsStep, RecordsNext, Elsewhere, RefreshObject, SaveOutcome, SaveVerdict, IndexDoc,
          SoftLimitAfterIndex, Age, EsRefresh, Cleanup, CleanCount, CleanList, CleanBatch,
          CleanLogs, CleanFails, allVars, recVars
    <2>. QED
      BY <1>1, <2>1, AttemptRevive
  <1>2. ASSUME NEW c \in Cleaners, CleanBatch(c) PROVE Attempts!AttemptsNext
    BY <1>2, AttemptClean
  <1>3. CASE resets' = resets /\ [Next]_vars
    <2>1. TypeOK /\ resched \in [Commands -> Resched]
      BY DEF RecordsInv, Patchless, TypeOK
    <2>2. ASSUME NEW p \in Workers, Claim(p) PROVE Attempts!AttemptsNext
      BY <1>3, <2>2, AttemptStart
    <2>3. CASE \A p \in Workers : ~Claim(p)
      <3>1. Shrinks
        BY <1>3, <2>1, <2>3, OnlyClaimsStart
      <3>2. CASE db' = db
        BY <1>3, <3>1, <3>2, AttemptStop
      <3>3. ASSUME NEW u \in Tasks, Web(u), db' # db
            PROVE  [Attempts!AttemptsNext]_<<S, E, resets>>
        BY <1>3, <3>3, AttemptWeb
      <3>4. ASSUME NEW p \in Workers, SaveResult(p) \/ HandlerSave(p), db' # db
            PROVE  Attempts!AttemptsNext
        BY <1>3, <3>1, <3>4, AttemptSave
      <3>5. ASSUME NEW k \in Commands, NEW u \in Tasks, Reset(k, u), db' # db
            PROVE  FALSE
        <4>1. /\ db' = [db EXCEPT ![u] = ResetRow(@)] /\ u \in resched[k].todo
              /\ resched' = [resched EXCEPT ![k] = AfterReset(@, u)]
          BY <3>5 DEF Reset
        <4>2. db'[u] # db[u]
          BY <2>1, <3>5, <4>1 DEF TypeOK
        <4>3. AfterReset(resched[k], u).todo = resched[k].todo \ {u}
          BY <2>1 DEF AfterReset, Resched
        <4>4. resched' # resched
          BY <2>1, <4>1, <4>3
        <4>5. PICK l \in Commands : Exists(u) /\ ResetWithMessage(l, u)
          BY <4>2, <4>4, ResetOnly
        <4>6. resets'[u] = resets[u] + 1 /\ resets[u] \in Nat
          BY <4>5, ActSizes DEF ResetWithMessage, RecordsInv, RecordsTypeOK
        <4>. QED
          BY <1>3, <4>6
      <3>. QED
        BY <1>3, <2>3, <3>2, <3>3, <3>4, <3>5
        DEF Next, Broker, DuplicateMessage, LoseMessage, Execute, Skip, Refresh, SandboxReturns,
            CancelPoll, SandboxRaises, IndexLog, HandlerRead, Retry, Interrupt, SoftLimit,
            RetryFails, DbFault, HardLimit, Receive, NodesCheck, Node, Heartbeat, AdminOffline,
            NodeCrash, NodeRestart, Reschedule, Proceed, ReschedDetect, ReschedQuery, ReschedSend,
            ReschedAbort, taskVars, vars
    <2>. QED
      BY <2>2, <2>3
  <1>. QED
    BY <1>1, <1>2, <1>3, GridOrClean

(* Whatever else happens, a task is sent back to the queue at most as      *)
(* often as invocations of the failover command overlap, and only after it *)
(* has started.  Without that it is attempted once, by one process, and    *)
(* gets one outcome; each time allows one process and one attempt more.    *)
THEOREM RecordsImplementAttempts == RecordsSpec => ImplementsAttempts
  <1>1. RecordsInit => Attempts!AttemptsInit
    BY DEF RecordsInit, Init, NoRow, Idle, PastClaim, Executors, Executes, Attempts!AttemptsInit
  <1>2. RecordsInv /\ AccountInv /\ AttemptInv /\ [RecordsNext]_allVars => AttemptInv'
    BY AttemptInvNext DEF RecordsStep
  <1>3. RecordsInv /\ AccountInv /\ AttemptInv /\ [RecordsNext]_allVars
           => [Attempts!AttemptsNext]_(Attempts!attemptVars)
    BY AttemptStep DEF RecordsStep, Attempts!attemptVars, S, E
  <1>. QED
    BY <1>1, <1>2, <1>3, AttemptInvInit, RecordsInvHolds, AccountInvHolds, PTL
    DEF RecordsSpec, ImplementsAttempts, Attempts!AttemptsSpec

-----------------------------------------------------------------------------
(* What the cleanup leaves in the index.                                   *)

(* An invocation keeps the ids of the rows it deletes until it is done.    *)
KeepsIds ==
  \A c \in Cleaners : /\ clean[c].todo \subseteq clean[c].ids
                      /\ clean[c].pc \in {"idle", "list"} => clean[c].ids = {}

(* What a step does to the invocations.                                    *)
CleanMove(c) ==
  \/ CleanCount(c) /\ clean'[c].ids = {} /\ clean'[c].todo = {}
  \/ CleanList(c) /\ clean'[c].todo = clean'[c].ids
       /\ (clean'[c].pc \in {"idle", "list"} => clean'[c].ids = {})
  \/ CleanBatch(c) /\ clean'[c].ids = clean[c].ids /\ clean'[c].todo \subseteq clean[c].todo
       /\ clean'[c].pc \in {"delete", "logs"}
  \/ (CleanLogs(c) \/ CleanFails(c)) /\ clean'[c].ids = {} /\ clean'[c].todo = {}

LEMMA CleanMoves ==
  ASSUME RecordsTypeOK, NEW c \in Cleaners, Cleanup(c) \/ CleanFails(c)
  PROVE  CleanMove(c) /\ \A d \in Cleaners : d # c => clean'[d] = clean[d]
  <1>t. clean \in [Cleaners -> Clean] /\ NoClean.ids = {} /\ NoClean.todo = {}
    BY DEF RecordsTypeOK, NoClean
  <1>1. CASE CleanCount(c)
    <2>1. /\ [NoClean EXCEPT !.pc = "list", !.total = Cardinality(Eligible)].ids = {}
          /\ [NoClean EXCEPT !.pc = "list", !.total = Cardinality(Eligible)].todo = {}
      BY DEF NoClean
    <2>. QED
      BY <1>t, <1>1, <2>1 DEF CleanCount, CleanMove
  <1>2. CASE CleanList(c)
    <2>1. PICK L \in SUBSET Eligible :
             clean' = [clean EXCEPT ![c].pc = IF L = {} THEN "idle" ELSE "delete",
                          ![c].total = 0, ![c].ids = L, ![c].todo = L]
      BY <1>2 DEF CleanList
    <2>2. clean' = [clean EXCEPT ![c] =
                      [clean[c] EXCEPT !.pc = IF L = {} THEN "idle" ELSE "delete",
                                       !.total = 0, !.ids = L, !.todo = L]]
      BY <1>t, <2>1
    <2>3. /\ clean'[c].ids = L /\ clean'[c].todo = L
          /\ clean'[c].pc = IF L = {} THEN "idle" ELSE "delete"
      BY <1>t, <2>2 DEF Clean
    <2>. QED
      BY <1>t, <1>2, <2>2, <2>3 DEF CleanMove
  <1>3. CASE CleanBatch(c)
    <2>1. PICK L \in SUBSET clean[c].todo : clean' = [clean EXCEPT ![c] = AfterBatch(c, L)]
      BY <1>3 DEF CleanBatch
    <2>2. /\ AfterBatch(c, L).ids = clean[c].ids /\ AfterBatch(c, L).todo = clean[c].todo \ L
          /\ AfterBatch(c, L).pc \in {"delete", "logs"}
      BY <1>t DEF AfterBatch, Clean
    <2>. QED
      BY <1>t, <1>3, <2>1, <2>2 DEF CleanMove
  <1>4. CASE CleanLogs(c) \/ CleanFails(c)
    BY <1>t, <1>4 DEF CleanLogs, CleanFails, CleanMove
  <1>. QED
    BY <1>1, <1>2, <1>3, <1>4 DEF Cleanup

(* A step that is not the cleanup's leaves its invocations alone.          *)
LEMMA CleanOrNot ==
  ASSUME RecordsStep
  PROVE  clean' = clean \/ \E c \in Cleaners : Cleanup(c) \/ CleanFails(c)
  BY DEF RecordsStep, RecordsNext, Elsewhere, RefreshObject, SaveOutcome, SaveVerdict,
         IndexDoc, SoftLimitAfterIndex, ResetWithMessage, Age, EsRefresh, allVars, recVars

LEMMA KeepsIdsNext ==
  ASSUME RecordsTypeOK, KeepsIds, RecordsStep
  PROVE  KeepsIds'
  <1>1. ASSUME NEW c \in Cleaners, Cleanup(c) \/ CleanFails(c) PROVE KeepsIds'
    <2>1. CleanMove(c) /\ \A d \in Cleaners : d # c => clean'[d] = clean[d]
      BY <1>1, CleanMoves
    <2>2. /\ clean'[c].todo \subseteq clean'[c].ids
          /\ clean'[c].pc \in {"idle", "list"} => clean'[c].ids = {}
      BY <2>1 DEF CleanMove, KeepsIds
    <2>. QED
      BY <2>1, <2>2 DEF KeepsIds
  <1>2. CASE clean' = clean
    BY <1>2 DEF KeepsIds
  <1>. QED
    BY <1>1, <1>2, CleanOrNot

(* A row is deleted by a request or by the cleanup.                        *)
LEMMA DestroyOnly ==
  ASSUME Patchless, [Next]_vars, NEW t \in Tasks,
         db[t].status # "deleted", db'[t].status = "deleted"
  PROVE  Destroy(t)
  <1>r. db \in [Tasks -> Row] /\ worker \in [Workers -> Worker]
    BY DEF Patchless, TypeOK
  <1>0. db'[t] # db[t]
    OBVIOUS
  <1>1. ASSUME NEW u \in Tasks, Web(u) PROVE Destroy(t)
    <2>1. ~PatchSave(u)
      BY DEF Patchless, PatchSave
    <2>2. ~Dispatch(u)
      BY <1>0, <1>r DEF Dispatch, NoRow
    <2>3. \A s \in Status : ~UpdateStatus(u, s)
      <3>1. ASSUME NEW s \in Status, UpdateStatus(u, s) PROVE db'[t].status \in {db[t].status, s}
        BY <1>r, <3>1 DEF UpdateStatus, Row
      <3>. QED
        BY <3>1 DEF Status
    <2>4. ~CancelRunning(u) /\ ~CancelQueued(u)
      BY <1>0, <1>r DEF CancelRunning, CancelQueued, Finished, Row
    <2>5. Destroy(u) => t = u
      BY <1>0, <1>r DEF Destroy
    <2>. QED
      BY <1>0, <1>1, <2>1, <2>2, <2>3, <2>4, <2>5
      DEF Web, Create, RetryTask, Enqueue, EnqueueFails, PatchRead, taskVars
  <1>2. ASSUME NEW p \in Workers, Execute(p) PROVE FALSE
    <2>1. ~Claim(p)
      BY <1>0, <1>r DEF Claim, Claimed, Row
    <2>2. ~SaveResult(p)
      <3>1. SaveResult(p) => \E u : db' = [db EXCEPT ![u] = Finished(@, worker[p].out)]
        BY <1>0 DEF SaveResult
      <3>2. worker[p].out # "deleted"
        BY <1>r DEF Worker, Terminal
      <3>. QED
        BY <1>0, <1>r, <3>1, <3>2 DEF Finished, Row
    <2>3. ~HandlerSave(p)
      <3>1. HandlerSave(p) => \E u : db' = [db EXCEPT ![u] = Finished(@, Verdict(p))]
        BY <1>0 DEF HandlerSave
      <3>2. Verdict(p) # "deleted"
        BY DEF Verdict
      <3>. QED
        BY <1>0, <1>r, <3>1, <3>2 DEF Finished, Row
    <2>. QED
      BY <1>0, <1>2, <2>1, <2>2, <2>3
      DEF Execute, Skip, Refresh, SandboxReturns, CancelPoll, SandboxRaises, IndexLog,
          HandlerRead, Retry, taskVars
  <1>3. \A k \in Commands, u \in Tasks : ~Reset(k, u)
    BY <1>0, <1>r DEF Reset, ResetRow, Row
  <1>. QED
    BY <1>0, <1>1, <1>2, <1>3
    DEF Next, Broker, DuplicateMessage, LoseMessage, Interrupt, SoftLimit, RetryFails,
        DbFault, HardLimit, Receive, NodesCheck, Node, Heartbeat, AdminOffline, NodeCrash,
        NodeRestart, Reschedule, Proceed, ReschedDetect, ReschedQuery, ReschedSend, ReschedAbort,
        taskVars, vars

LEMMA LeftoverStep ==
  ASSUME RecordsInv, KeepsIds, RecordsStep, NEW t \in Tasks, ~Leftover(t), Leftover(t)'
  PROVE  Leaves(t)
  <1>t. /\ RecordsTypeOK /\ Patchless
        /\ clean \in [Cleaners -> Clean] /\ old \subseteq Tasks
    BY DEF RecordsInv, RecordsTypeOK
  <1>l. /\ db'[t].status = "deleted" /\ \E d \in Docs' : d.task = t
        /\ \A c \in Cleaners : t \notin clean'[c].ids
    BY DEF Leftover
  <1>n. \/ db[t].status # "deleted" \/ ~\E d \in Docs : d.task = t
        \/ \E c \in Cleaners : t \in clean[c].ids
    BY DEF Leftover
  <1>1. ASSUME NEW c \in Cleaners, Cleanup(c) \/ CleanFails(c) PROVE Leaves(t)
    <2>1. CleanMove(c) /\ \A d \in Cleaners : d # c => clean'[d] = clean[d]
      BY <1>t, <1>1, CleanMoves
    <2>2. \A d \in Cleaners : t \in clean[d].ids => d = c
      BY <1>l, <2>1
    <2>3. CASE CleanCount(c) \/ CleanList(c)
      <3>1. db' = db /\ Docs' = Docs /\ clean[c].ids = {}
        BY <2>3 DEF CleanCount, CleanList, vars, taskVars, logVars, Docs, KeepsIds
      <3>. QED
        BY <1>l, <1>n, <2>2, <3>1
    <2>4. CASE CleanBatch(c)
      <3>1. PICK L \in SUBSET clean[c].todo :
               /\ db' = [u \in Tasks |-> IF u \in L THEN Cleaned(db[u]) ELSE db[u]]
               /\ clean' = [clean EXCEPT ![c] = AfterBatch(c, L)]
        BY <2>4 DEF CleanBatch
      <3>2. AfterBatch(c, L).ids = clean[c].ids
        BY <1>t DEF AfterBatch, Clean
      <3>3. clean'[c].ids = clean[c].ids /\ t \notin clean[c].ids
        BY <1>t, <1>l, <3>1, <3>2
      <3>4. t \notin L
        BY <3>3 DEF KeepsIds
      <3>5. db'[t] = db[t]
        BY <3>1, <3>4
      <3>6. Docs' = Docs
        BY <2>4 DEF CleanBatch, logVars, Docs
      <3>. QED
        BY <1>l, <1>n, <2>2, <3>3, <3>5, <3>6
    <2>5. CASE CleanLogs(c)
      <3>1. db' = db /\ buffer' = buffer
        BY <2>5 DEF CleanLogs, vars, taskVars
      <3>2. CASE index' = {d \in index : d.task \notin clean[c].ids}
        <4>1. t \in clean[c].ids
          BY <1>l, <1>n, <2>2, <3>1, <3>2 DEF Docs
        <4>2. \E d \in buffer : d.task = t
          BY <1>l, <3>1, <3>2, <4>1 DEF Docs
        <4>. QED
          BY <2>5, <4>1, <4>2 DEF Leaves
      <3>3. CASE EsFails /\ index' = index
        <4>1. t \in clean[c].ids
          BY <1>l, <1>n, <2>2, <3>1, <3>3 DEF Docs
        <4>. QED
          BY <2>5, <3>3, <4>1 DEF Leaves
      <3>. QED
        BY <2>5, <3>2, <3>3 DEF CleanLogs
    <2>6. CASE CleanFails(c)
      <3>1. db' = db /\ Docs' = Docs
        BY <2>6 DEF CleanFails, vars, taskVars, logVars, Docs
      <3>2. t \in clean[c].ids
        BY <1>l, <1>n, <2>2, <3>1
      <3>. QED
        BY <2>6, <3>2 DEF Leaves
    <2>. QED
      BY <1>1, <2>3, <2>4, <2>5, <2>6 DEF Cleanup
  <1>2. CASE clean' = clean
    <2>1. CASE db[t].status # "deleted"
      <3>1. CASE [Next]_vars
        <4>1. Destroy(t)
          BY <1>t, <1>l, <2>1, <3>1, DestroyOnly
        <4>. QED
          BY <4>1 DEF Leaves
      <3>2. ASSUME NEW c \in Cleaners, CleanBatch(c) PROVE Leaves(t)
        BY <1>1, <3>2 DEF Cleanup
      <3>. QED
        BY <3>1, <3>2, GridOrClean
    <2>2. CASE ~\E d \in Docs : d.task = t
      <3>1. ASSUME NEW p \in Workers, IndexDoc(p) \/ SoftLimitAfterIndex(p) PROVE Leaves(t)
        <4>1. Store(p)
          BY <1>l, <2>2, <3>1 DEF IndexDoc, SoftLimitAfterIndex, logVars, Docs
        <4>2. PICK d \in Docs' : d.task = t
          BY <1>l
        <4>3. d = DocOf(p)
          BY <2>2, <4>1, <4>2 DEF Store, Docs
        <4>4. worker[p].task = t
          BY <4>2, <4>3 DEF DocOf
        <4>. QED
          BY <3>1, <4>4 DEF Leaves
      <3>2. CASE Docs' = Docs
        BY <1>l, <2>2, <3>2
      <3>3. Docs' = Docs \/ \E p \in Workers : IndexDoc(p) \/ SoftLimitAfterIndex(p)
        <4>1. CASE EsRefresh
          BY <4>1 DEF EsRefresh, Docs
        <4>2. CASE \E c \in Cleaners : Cleanup(c) \/ CleanFails(c)
          BY <1>l, <2>2, <4>2
          DEF Cleanup, CleanCount, CleanList, CleanBatch, CleanLogs, CleanFails, logVars, Docs
        <4>. QED
          BY <4>1, <4>2
          DEF RecordsStep, RecordsNext, Elsewhere, RefreshObject, SaveOutcome, SaveVerdict,
              ResetWithMessage, Age, allVars, recVars, logVars, Docs
      <3>. QED
        BY <3>1, <3>2, <3>3
    <2>. QED
      BY <1>n, <1>l, <1>2, <2>1, <2>2
  <1>. QED
    BY <1>1, <1>2, CleanOrNot

(* However many invocations of the cleanup run among requests and workers, *)
(* a document whose row is deleted is left behind by one of the named      *)
(* steps only: the batches forget no id, and no request but DELETE takes a *)
(* row from its logs.                                                      *)
THEOREM LogsOutliveTaskByFault == RecordsSpec => LogsOutliveTask
  <1>. DEFINE Outlive == \A t \in Tasks : ~Leftover(t) /\ Leftover(t)' => Leaves(t)
  <1>1. RecordsInit => KeepsIds
    BY DEF RecordsInit, KeepsIds, NoClean
  <1>2. RecordsInv /\ KeepsIds /\ [RecordsNext]_allVars => KeepsIds'
    BY KeepsIdsNext DEF RecordsStep, RecordsInv
  <1>3. RecordsInv /\ KeepsIds /\ [RecordsNext]_allVars => [Outlive]_allVars
    BY LeftoverStep DEF RecordsStep
  <1>. QED
    BY <1>1, <1>2, <1>3, RecordsInvHolds, PTL DEF RecordsSpec, LogsOutliveTask
=============================================================================
