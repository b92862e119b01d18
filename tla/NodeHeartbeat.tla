--------------------------- MODULE NodeHeartbeat ---------------------------
(***************************************************************************)
(* The node table over time: the heartbeat thread every Celery worker      *)
(* starts (apps/nodes/celery_events.py), registration, reports and the     *)
(* failure detection that every create request, nodes_check and            *)
(* reschedule_tasks run (apps/nodes/services.py).                          *)
(*                                                                         *)
(* Time advances in ticks.  A time stamp is kept as its age, so that only  *)
(* distances count; an age above Oldest exceeds every threshold there may  *)
(* be and grows no further.                                                *)
(***************************************************************************)
EXTENDS Naturals

CONSTANTS
    Nodes,       \* workers, by the Celery hostname they register
    Checkers,    \* requests and commands that run failure detection
    Interval,    \* HEARTBEAT_INTERVAL
    Limit,       \* HEARTBEAT_STALE_SECONDS
    Latency,     \* bound: ticks from the end of the wait to the commit of a report
    CheckTime,   \* bound: ticks a failure detection takes
    Env          \* what may happen besides starting, reporting and checking

EnvAll == {"admin_offline", "shutdown", "crash", "db"}

ASSUME HeartbeatAssumption ==
    /\ Interval \in Nat
    /\ Limit \in Nat
    /\ Latency \in Nat
    /\ CheckTime \in Nat
    /\ Env \subseteq EnvAll

(* A report, itself in time, finds the last one within the limit.          *)
ASSUME SlackAssumption == Interval + 2 * Latency <= Limit

VARIABLES
    row,      \* the node table
    proc,     \* the worker processes and their heartbeat threads
    steady,   \* history: nodes that have reported, and neither failed to nor
              \* been taken offline by an administrator since
    check     \* the failure detections under way

vars == <<row, proc, steady, check>>

-----------------------------------------------------------------------------
Oldest == Limit + CheckTime + 1

(* heard: last_heartbeat is not null; age: how long ago it is.             *)
Row == [status : {"none", "offline", "online"}, heard : BOOLEAN, age : Nat]

NoRow == [status |-> "none", heard |-> FALSE, age |-> 0]

(* The thread: waiting for the stop event, in register_node, or with the   *)
(* time taken and the UPDATE on its way.  timer: ticks since it got there  *)
(* (since the end of the wait for the last two); stamp: the age of the     *)
(* time it took.                                                           *)
Proc == [up : BOOLEAN, stop : BOOLEAN, pc : {"off", "wait", "register", "save"},
         timer : Nat, stamp : Nat]

Down == [up |-> FALSE, stop |-> FALSE, pc |-> "off", timer |-> 0, stamp |-> 0]
Waiting == [up |-> TRUE, stop |-> FALSE, pc |-> "wait", timer |-> 0, stamp |-> 0]

(* A detection: since: the age of its threshold time; names: what it read. *)
Check == [pc : {"idle", "list", "mark", "select"}, since : Nat,
          names : SUBSET Nodes]

NoCheck == [pc |-> "idle", since |-> 0, names |-> {}]

(* The types, and that a null heartbeat, which no comparison finds stale,  *)
(* belongs to no online node.                                              *)
TypeOK ==
    /\ row \in [Nodes -> Row]
    /\ \A n \in Nodes : row[n].status = "online" => row[n].heard
    /\ proc \in [Nodes -> Proc]
    /\ steady \in SUBSET Nodes
    /\ check \in [Checkers -> Check]

Init ==
    /\ row = [n \in Nodes |-> NoRow]
    /\ proc = [n \in Nodes |-> Down]
    /\ steady = {}
    /\ check = [c \in Checkers |-> NoCheck]

-----------------------------------------------------------------------------
(* The life of a worker.                                                   *)

(* get_or_create: a new row starts offline, an old one is left alone.  The *)
(* first form starts it online.                                            *)
RegisteredOnline(r) == IF r.status = "none" THEN [r EXCEPT !.status = "online"] ELSE r
Registered(r) == IF r.status = "none" THEN [r EXCEPT !.status = "offline"] ELSE r

(* worker_ready: register, clear the stop event, start the thread.         *)
WorkerReady(n) ==
    /\ ~proc[n].up
    /\ row' = [row EXCEPT ![n] = Registered(@)]
    /\ proc' = [proc EXCEPT ![n] = Waiting]
    /\ UNCHANGED <<steady, check>>

(* The registration fails: Celery logs what a signal handler raises, and   *)
(* the worker goes on without a thread.                                    *)
WorkerReadyFails(n) ==
    /\ "db" \in Env
    /\ ~proc[n].up
    /\ proc' = [proc EXCEPT ![n] = [Down EXCEPT !.up = TRUE]]
    /\ UNCHANGED <<row, steady, check>>

(* worker_shutdown only sets the event; the process goes on for a while.   *)
WorkerShutdown(n) ==
    /\ "shutdown" \in Env
    /\ proc[n].up
    /\ ~proc[n].stop
    /\ proc' = [proc EXCEPT ![n].stop = TRUE]
    /\ UNCHANGED <<row, steady, check>>

(* The process ends, and with it the daemon thread wherever it is.         *)
Gone(n) ==
    /\ proc[n].up
    /\ proc' = [proc EXCEPT ![n] = Down]
    /\ steady' = steady \ {n}
    /\ UNCHANGED <<row, check>>

Exit(n) == proc[n].stop /\ Gone(n)
Crash(n) == "crash" \in Env /\ Gone(n)

-----------------------------------------------------------------------------
(* The heartbeat thread.                                                   *)

(* The thread gets to l, a new stage of its loop.                          *)
Enter(n, l) == proc' = [proc EXCEPT ![n] = [@ EXCEPT !.pc = l, !.timer = 0, !.stamp = 0]]

(* The wait ends early, with TRUE, if the event is set.                    *)
Stopped(n) ==
    /\ proc[n].pc = "wait"
    /\ proc[n].stop
    /\ Enter(n, "off")
    /\ steady' = steady \ {n}
    /\ UNCHANGED <<row, check>>

Wake(n) ==
    /\ proc[n].pc = "wait"
    /\ ~proc[n].stop
    /\ proc[n].timer = Interval
    /\ Enter(n, "register")
    /\ UNCHANGED <<row, steady, check>>

(* report_heartbeat: registration, then load and time are taken ...        *)
TakeTime(n) ==
    /\ proc[n].pc = "register"
    /\ row' = [row EXCEPT ![n] = Registered(@)]
    /\ proc' = [proc EXCEPT ![n].pc = "save", ![n].stamp = 0]
    /\ UNCHANGED <<steady, check>>

(* ... and written over whatever the row says.  The first form forgets the *)
(* status in update_fields.                                                *)
ReportedWithoutStatus(r, stamp) == [r EXCEPT !.heard = TRUE, !.age = stamp]
Reported(r, stamp) == [r EXCEPT !.status = "online", !.heard = TRUE, !.age = stamp]

Save(n) ==
    /\ proc[n].pc = "save"
    /\ row' = [row EXCEPT ![n] = Reported(@, proc[n].stamp)]
    /\ Enter(n, "wait")
    /\ steady' = steady \cup {n}
    /\ UNCHANGED check

(* Any exception is logged, and the thread waits for the next turn.        *)
ReportFails(n) ==
    /\ "db" \in Env
    /\ proc[n].pc \in {"register", "save"}
    /\ Enter(n, "wait")
    /\ steady' = steady \ {n}
    /\ UNCHANGED <<row, check>>

(* POST offline, by an administrator, whether or not the worker is well.   *)
AdminOffline(n) ==
    /\ "admin_offline" \in Env
    /\ row[n].status = "online"
    /\ row' = [row EXCEPT ![n].status = "offline"]
    /\ steady' = steady \ {n}
    /\ UNCHANGED <<proc, check>>

-----------------------------------------------------------------------------
(* Failure detection, run by c.                                            *)

(* The rows with an older heartbeat than c's threshold.  The first form    *)
(* confuses the two sides.                                                 *)
StaleReversed(c) ==
    {n \in Nodes : /\ row[n].status = "online" /\ row[n].heard
                   /\ row[n].age < Limit + check[c].since}
Stale(c) ==
    {n \in Nodes : /\ row[n].status = "online" /\ row[n].heard
                   /\ row[n].age > Limit + check[c].since}

(* now() - 60 s is computed once ...                                       *)
Threshold(c) ==
    /\ check[c].pc = "idle"
    /\ check' = [check EXCEPT ![c] = [NoCheck EXCEPT !.pc = "list"]]
    /\ UNCHANGED <<row, proc, steady>>

(* ... for a SELECT of the names to be returned ...                        *)
List(c) ==
    /\ check[c].pc = "list"
    /\ check' = [check EXCEPT ![c].pc = "mark", ![c].names = Stale(c)]
    /\ UNCHANGED <<row, proc, steady>>

(* ... and an UPDATE, which tests every row again, against the same time.  *)
(* The first form takes the SELECT's word for it, the second the time of   *)
(* the UPDATE.                                                             *)
ToMarkAsListed(c) == check[c].names
ToMarkByNow(c) ==
    {n \in Nodes : row[n].status = "online" /\ row[n].heard /\ row[n].age > Limit}
ToMark(c) == Stale(c)

Mark(c) ==
    /\ check[c].pc = "mark"
    /\ row' = [n \in Nodes |-> IF n \in ToMark(c) THEN [row[n] EXCEPT !.status = "offline"]
                                                  ELSE row[n]]
    /\ check' = [check EXCEPT ![c].pc = "select"]
    /\ UNCHANGED <<proc, steady>>

(* Its caller reads the table: select_node picks one of the online nodes.  *)
Select(c) ==
    /\ check[c].pc = "select"
    /\ check' = [check EXCEPT ![c] = NoCheck]
    /\ UNCHANGED <<row, proc, steady>>

(* A database error ends the request or the command.                       *)
CheckFails(c) ==
    /\ "db" \in Env
    /\ check[c].pc \in {"list", "mark"}
    /\ check' = [check EXCEPT ![c] = NoCheck]
    /\ UNCHANGED <<row, proc, steady>>

-----------------------------------------------------------------------------
(* Time.  It does not pass while a thread or a detection is overdue.       *)
InTime ==
    /\ \A n \in Nodes :
          /\ proc[n].pc = "wait" => ~proc[n].stop /\ proc[n].timer < Interval
          /\ proc[n].pc \in {"register", "save"} => proc[n].timer < Latency
    /\ \A c \in Checkers : check[c].pc # "idle" => check[c].since < CheckTime

Tick ==
    /\ InTime
    /\ row' = [n \in Nodes |-> [row[n] EXCEPT !.age =
                  IF row[n].heard /\ @ < Oldest THEN @ + 1 ELSE @]]
    /\ proc' = [n \in Nodes |-> [proc[n] EXCEPT
                  !.timer = IF proc[n].pc = "off" THEN @ ELSE @ + 1,
                  !.stamp = IF proc[n].pc = "save" THEN @ + 1 ELSE @]]
    /\ check' = [c \in Checkers |-> [check[c] EXCEPT !.since =
                  IF check[c].pc = "idle" THEN @ ELSE @ + 1]]
    /\ UNCHANGED steady

-----------------------------------------------------------------------------
Worker(n) == WorkerReady(n) \/ WorkerReadyFails(n) \/ WorkerShutdown(n)
             \/ Exit(n) \/ Crash(n)

Thread(n) == Stopped(n) \/ Wake(n) \/ TakeTime(n) \/ Save(n)

Detect(c) == Threshold(c) \/ List(c) \/ Mark(c) \/ Select(c)

Next ==
    \/ \E n \in Nodes : Worker(n) \/ Thread(n) \/ ReportFails(n) \/ AdminOffline(n)
    \/ \E c \in Checkers : Detect(c) \/ CheckFails(c)
    \/ Tick

Spec == Init /\ [][Next]_vars

(* Threads run, time passes (only so much can happen in a tick, hence the  *)
(* strong form), and failure detection is run again and again: with every  *)
(* new task, or as a periodic job.                                         *)
Fairness ==
    /\ SF_vars(Tick)
    /\ \A n \in Nodes : WF_vars(Thread(n))
    /\ \A c \in Checkers : WF_vars(Detect(c))

LiveSpec == Spec /\ Fairness

-----------------------------------------------------------------------------
(* A node that reports without a break is never taken offline by failure   *)
(* detection, whatever the interleaving of its reports with the two        *)
(* statements of mark_offline_if_stale (services.py:63-70): the table      *)
(* implements the failure detector.                                        *)
Detector == INSTANCE FailureDetector
                WITH online <- {n \in Nodes : row[n].status = "online"}

ImplementsDetector == Detector!DetectorSpec

(* When the caller of a detection reads the table, every node shown online *)
(* has reported within the limit, counted from the start of the detection  *)
(* (services.py:81-91): a task is never given to a node longer dead.       *)
SelectSeesFresh ==
    \A c \in Checkers, n \in Nodes :
        check[c].pc = "select" /\ row[n].status = "online"
            => row[n].age <= Limit + check[c].since

(* No node is marked offline that the detection has not listed, and so     *)
(* warned about (services.py:67-69): a report between the SELECT and the   *)
(* UPDATE can only make the list too long.                                 *)
NoSilentMark ==
    [][\A n \in Nodes, c \in Checkers :
          Mark(c) /\ row[n].status = "online" /\ row'[n].status = "offline"
              => n \in check[c].names]_vars

(* A worker that has stopped, with or without notice, does not stay online *)
(* until it is started again, unless every failure detection keeps failing *)
(* (services.py:57-70).                                                    *)
DeadIsFound ==
    \/ \A c \in Checkers : []<><<CheckFails(c)>>_vars
    \/ \A n \in Nodes : ~proc[n].up ~> proc[n].up \/ row[n].status # "online"

(* A worker whose thread runs comes online, at first and again after an    *)
(* administrator or a late report has left it offline, unless its reports  *)
(* keep failing (celery_events.py:30-34, services.py:37-54).               *)
AliveComesBack ==
    \A n \in Nodes :
        \/ []<><<ReportFails(n)>>_vars
        \/ proc[n].pc = "wait" ~> proc[n].pc = "off" \/ row[n].status = "online"
=============================================================================
