--------------------------- MODULE TaskLifecycle ----------------------------
(***************************************************************************)
(* What TaskGrid promises about one task, without queues, rows or nodes:   *)
(* its status moves along the table of transit(), and one process works on *)
(* it, from the moment it leaves the queue.                                *)
(***************************************************************************)
EXTENDS TaskStatus

CONSTANTS Tasks, Workers

VARIABLES status,    \* the status of each task
          executors  \* the processes at work on each task

lifeVars == <<status, executors>>

LifeTypeOK == /\ status \in [Tasks -> Status \cup Absent]
              /\ executors \in [Tasks -> SUBSET Workers]

LifeInit == /\ status = [t \in Tasks |-> "none"]
            /\ executors = [t \in Tasks |-> {}]

Submit(t) ==
    /\ status[t] = "none"
    /\ status' = [status EXCEPT ![t] = "pending"]
    /\ UNCHANGED executors

(* A process takes a pending task nobody works on.                         *)
Start(t, p) ==
    /\ status[t] = "pending"
    /\ executors[t] = {}
    /\ status' = [status EXCEPT ![t] = "running"]
    /\ executors' = [executors EXCEPT ![t] = {p}]

(* A task gets its outcome, from its process or by a cancellation; the     *)
(* process may stop in the same step.                                      *)
Decide(t, s) ==
    /\ s \in Transit(status[t]) \cap Terminal
    /\ status' = [status EXCEPT ![t] = s]
    /\ executors' \in {executors, [executors EXCEPT ![t] = {}]}

Delete(t) ==
    /\ status[t] \notin Absent
    /\ status' = [status EXCEPT ![t] = "deleted"]
    /\ UNCHANGED executors

(* Processes stop, having finished or crashed: a machine takes all of its  *)
(* processes with it.                                                      *)
Stop ==
    /\ \E T \in SUBSET Tasks :
          executors' = [t \in Tasks |-> IF t \in T THEN {} ELSE executors[t]]
    /\ UNCHANGED status

LifeNext ==
    \/ \E t \in Tasks :
          \/ Submit(t) \/ Delete(t)
          \/ \E p \in Workers : Start(t, p)
          \/ \E s \in Terminal : Decide(t, s)
    \/ Stop

LifeSpec == LifeInit /\ [][LifeNext]_lifeVars
=============================================================================
