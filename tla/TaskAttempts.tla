---------------------------- MODULE TaskAttempts ----------------------------
(***************************************************************************)
(* What remains of TaskLifecycle when the failover command runs beside     *)
(* workers that are alive.  Each invocation of the command that overlaps   *)
(* with others may send a task back to the queue, once.  Only a task that  *)
(* was sent back is attempted again, worked on by several processes, or    *)
(* given an outcome in place of another.                                   *)
(***************************************************************************)
EXTENDS TaskStatus, Naturals, FiniteSets

CONSTANTS Tasks, Workers,
          Limit,     \* how often a task may be sent back
          Manual     \* may users set a status by hand?

VARIABLES status,    \* the status of each task
          executors, \* the processes at work on each task
          revived    \* how often each task was sent back to the queue

attemptVars == <<status, executors, revived>>

AttemptsTypeOK == /\ status \in [Tasks -> Status \cup Absent]
                  /\ executors \in [Tasks -> SUBSET Workers]
                  /\ revived \in [Tasks -> 0 .. Limit]

AttemptsInit == /\ status = [t \in Tasks |-> "none"]
                /\ executors = [t \in Tasks |-> {}]
                /\ revived = [t \in Tasks |-> 0]

Submit(t) ==
    /\ status[t] = "none"
    /\ status' = [status EXCEPT ![t] = "pending"]
    /\ UNCHANGED <<executors, revived>>

(* A process takes a pending task.  Besides it there work on the task at   *)
(* most as many processes as the task was revived times.                   *)
Start(t, p) ==
    /\ status[t] = "pending"
    /\ p \notin executors[t]
    /\ Cardinality(executors[t]) <= revived[t]
    /\ status' = [status EXCEPT ![t] = "running"]
    /\ executors' = [executors EXCEPT ![t] = @ \cup {p}]
    /\ UNCHANGED revived

(* A user declares that a pending task is running.                         *)
Declare(t) ==
    /\ Manual
    /\ status[t] = "pending"
    /\ status' = [status EXCEPT ![t] = "running"]
    /\ UNCHANGED <<executors, revived>>

(* The process that has written an outcome of t may stop in the same step. *)
MayStop(t) == executors' \in {executors} \cup
                             {[executors EXCEPT ![t] = @ \ {p}] : p \in executors[t]}

(* A task gets its outcome along the table of transit() ...                *)
Decide(t, s) ==
    /\ s \in Transit(status[t]) \cap Terminal
    /\ status' = [status EXCEPT ![t] = s]
    /\ MayStop(t)
    /\ UNCHANGED revived

(* ... or past it, from a process that has not noticed what has become of  *)
(* the task.                                                               *)
Overwrite(t, s) ==
    /\ revived[t] > 0 \/ Manual
    /\ executors[t] # {}
    /\ status[t] \notin Absent
    /\ s \in Terminal
    /\ status' = [status EXCEPT ![t] = s]
    /\ MayStop(t)
    /\ UNCHANGED revived

(* The failover command, at any moment after the task has started.         *)
Revive(t) ==
    /\ revived[t] < Limit
    /\ status[t] \notin Absent
    /\ status[t] = "pending" => revived[t] > 0
    /\ status' = [status EXCEPT ![t] = "pending"]
    /\ revived' = [revived EXCEPT ![t] = @ + 1]
    /\ UNCHANGED executors

(* A user deletes one task, the cleanup several.                           *)
Delete(T) ==
    /\ \A t \in T : status[t] \notin Absent
    /\ status' = [t \in Tasks |-> IF t \in T THEN "deleted" ELSE status[t]]
    /\ UNCHANGED <<executors, revived>>

(* The processes in P stop, having finished or crashed.                    *)
Stop(P) ==
    /\ executors' = [t \in Tasks |-> executors[t] \ P]
    /\ UNCHANGED <<status, revived>>

AttemptsNext ==
    \/ \E t \in Tasks :
          \/ Submit(t) \/ Declare(t) \/ Revive(t)
          \/ \E p \in Workers : Start(t, p)
          \/ \E s \in Terminal : Decide(t, s) \/ Overwrite(t, s)
    \/ \E T \in SUBSET Tasks : Delete(T)
    \/ \E P \in SUBSET Workers : Stop(P)

AttemptsSpec == AttemptsInit /\ [][AttemptsNext]_attemptVars
=============================================================================
