------------------------------ MODULE Sandbox -------------------------------
(***************************************************************************)
(* SandboxExecutor.execute (apps/sandbox/executor.py): calls by several    *)
(* processes that share one Docker daemon, call by call of the Docker API. *)
(* Around them the user, the deadline of the sandbox, the soft and hard    *)
(* time limits of Celery and the faults listed in Env.  As in TaskGrid, a  *)
(* definition that no action uses and that stands right before another of  *)
(* the same shape is a plausible mistake in the code of the latter.        *)
(***************************************************************************)
CONSTANTS
    Calls,  \* the calls of execute, each by a process of its own
    Env     \* the requests and the faults that may happen

SandboxEnv == {"cancel",       \* the user marks a running task
               "bad_timeout",  \* params.timeout is not a number: not validated
               "db",           \* a query of _cancel_requested fails
               "api_error",    \* the daemon answers a request with an error
               "start_error",  \* the container is created and does not start
               "daemon",       \* the daemon cannot be reached, or does not answer
               "crash",        \* the process dies
               "soft_limit", "hard_limit"}

ASSUME SandboxAssumption == Env \subseteq SandboxEnv

VARIABLES
    call,     \* the executor's side of each call
    box,      \* the state of the container of each call
    program,  \* what has become of the user's program in it
    marked,   \* the user has asked for cancellation
    image,    \* the sandbox image is on the machine
    daemon    \* does it answer?  down: no connection; mute: no answer on one

vars == <<call, box, program, marked, image, daemon>>
dockerVars == <<box, program, image, daemon>>

up == daemon = "up"

-----------------------------------------------------------------------------
(* The mapping to the promise: the outcome counts once the call has ended. *)
P == INSTANCE SandboxPromise
        WITH outcome <- [c \in Calls |-> IF call[c].pc = "done" THEN call[c].answer
                                                               ELSE "none"]

-----------------------------------------------------------------------------
(* Where a call is.  image, pull, create, start: before containers.run has *)
(* returned, without a handle; deadline, poll, wait, check: the loop;      *)
(* kill, await, logs: on the way to an answer; remove: in the finally      *)
(* clause.                                                                 *)
NoHandle == {"image", "pull", "create", "start"}
Polling == {"poll", "wait", "check"}
Handle == {"deadline"} \cup Polling \cup {"kill", "await", "logs"}
Pc == NoHandle \cup Handle \cup {"remove", "done"}

Outcomes == {"success", "oom", "timed_out", "cancelled"} \cup P!Broken

(* answer: what the call is going to end with; late: its deadline is over; *)
(* soft: whether SoftTimeLimitExceeded has been raised.                    *)
Call == [pc : Pc, answer : Outcomes \cup {"none"}, late : BOOLEAN, soft : BOOLEAN]

NewCall == [pc |-> "image", answer |-> "none", late |-> FALSE, soft |-> FALSE]

Box == {"none", "created", "running", "exited", "removed"}

TypeOK ==
    /\ call \in [Calls -> Call]
    /\ box \in [Calls -> Box]
    /\ program \in [Calls -> {"none", "running"} \cup P!Ended]
    /\ marked \in [Calls -> BOOLEAN]
    /\ image \in BOOLEAN
    /\ daemon \in {"up", "down", "mute"}

Init ==
    /\ call = [c \in Calls |-> NewCall]
    /\ box = [c \in Calls |-> "none"]
    /\ program = [c \in Calls |-> "none"]
    /\ marked = [c \in Calls |-> FALSE]
    /\ image \in BOOLEAN
    /\ daemon = "up"

Goto(c, l) == call' = [call EXCEPT ![c].pc = l]

(* The call is going to end with a: through the finally clause, which does *)
(* nothing as long as there is no handle.  The first form has no such      *)
(* clause.                                                                 *)
LeaveAtOnce(c, a) == call' = [call EXCEPT ![c].answer = a, ![c].pc = "done"]
Leave(c, a) ==
    call' = [call EXCEPT ![c].answer = a,
                         ![c].pc = IF @ \in NoHandle \cup {"remove"} THEN "done"
                                                                     ELSE "remove"]

(* What the requests that change something do to the container;            *)
(* remove(force=True) stops whatever still runs.                           *)
Created(c) == box' = [box EXCEPT ![c] = "created"] /\ UNCHANGED program

Started(c) == /\ box' = [box EXCEPT ![c] = "running"]
              /\ program' = [program EXCEPT ![c] = "running"]

Killed(c) == /\ box[c] = "running"
             /\ box' = [box EXCEPT ![c] = "exited"]
             /\ program' = [program EXCEPT ![c] = "sigkill"]

Removed(c) == /\ box' = [box EXCEPT ![c] = "removed"]
              /\ program' = [program EXCEPT ![c] = IF @ = "running" THEN "sigkill"
                                                                    ELSE @]

(* A request whose sender stops listening may or may not be carried out.   *)
UnderWay(c) ==
    \/ UNCHANGED <<box, program>>
    \/ call[c].pc = "create" /\ Created(c)
    \/ call[c].pc = "start" /\ Started(c)
    \/ call[c].pc = "kill" /\ Killed(c)
    \/ call[c].pc = "remove" /\ Removed(c)

-----------------------------------------------------------------------------
(* ensure_image and containers.run.                                        *)

EnsureImage(c) ==
    /\ call[c].pc = "image"
    /\ up
    /\ Goto(c, IF image THEN "create" ELSE "pull")
    /\ UNCHANGED <<dockerVars, marked>>

(* No such image in the registry either: an answer, not an exception.      *)
Pull(c) ==
    /\ call[c].pc = "pull"
    /\ up
    /\ \/ image' = TRUE /\ Goto(c, "create")
       \/ image' = image /\ Leave(c, "error")
    /\ UNCHANGED <<box, program, daemon, marked>>

CreateContainer(c) ==
    /\ call[c].pc = "create"
    /\ up
    /\ Created(c)
    /\ Goto(c, "start")
    /\ UNCHANGED <<image, daemon, marked>>

StartContainer(c) ==
    /\ call[c].pc = "start"
    /\ up
    /\ Started(c)
    /\ Goto(c, "deadline")
    /\ UNCHANGED <<image, daemon, marked>>

(* docker-py raises APIError out of run: the container is never known.     *)
StartFails(c) ==
    /\ "start_error" \in Env
    /\ call[c].pc = "start"
    /\ Leave(c, "error")
    /\ UNCHANGED <<dockerVars, marked>>

-----------------------------------------------------------------------------
(* The polling loop.                                                       *)

SetDeadline(c) ==
    /\ call[c].pc = "deadline"
    /\ \/ Goto(c, "poll")
       \/ "bad_timeout" \in Env /\ Leave(c, "raised")
    /\ UNCHANGED <<dockerVars, marked>>

(* The top of the loop.  In the second form every turn computes a deadline *)
(* of its own.                                                             *)
OverdueNever(c) == FALSE
Overdue(c) == call[c].late

Poll(c) ==
    /\ call[c].pc = "poll"
    /\ call' = IF Overdue(c)
                 THEN [call EXCEPT ![c].pc = "kill", ![c].answer = "timed_out"]
                 ELSE [call EXCEPT ![c].pc = "wait"]
    /\ UNCHANGED <<dockerVars, marked>>

(* What an exit code means; the second form passes it on.                  *)
MeaningRaw(e) == e
Meaning(e) == CASE e = "zero" -> "success"
                [] e = "sigkill" -> "oom"
                [] OTHER -> "error"

WaitReturns(c) ==
    /\ call[c].pc = "wait"
    /\ up
    /\ box[c] = "exited"
    /\ call' = [call EXCEPT ![c].pc = "logs",
                            ![c].answer = Meaning(program[c])]
    /\ UNCHANGED <<dockerVars, marked>>

(* ReadTimeout while the program runs; the loop takes ConnectionError, and *)
(* the ReadTimeout of a mute daemon, for the same.                         *)
WaitTimesOut(c) ==
    /\ call[c].pc = "wait"
    /\ ~up \/ box[c] = "running"
    /\ Goto(c, "check")
    /\ UNCHANGED <<dockerVars, marked>>

(* cancel_check answers no when its query fails.                           *)
CheckCancel(c) ==
    /\ call[c].pc = "check"
    /\ \/ /\ marked[c]
          /\ call' = [call EXCEPT ![c].pc = "kill", ![c].answer = "cancelled"]
       \/ /\ ~marked[c] \/ "db" \in Env
          /\ Goto(c, "poll")
    /\ UNCHANGED <<dockerVars, marked>>

(* An APIError is swallowed: the container may have exited by itself, or   *)
(* it runs on.                                                             *)
Kill(c) ==
    /\ call[c].pc = "kill"
    /\ up
    /\ \/ Killed(c)
       \/ /\ box[c] = "exited" \/ "api_error" \in Env
          /\ UNCHANGED <<box, program>>
    /\ Goto(c, "await")
    /\ UNCHANGED <<image, daemon, marked>>

(* container.wait() without a timeout, after the kill.  In the second form *)
(* nothing waits.                                                          *)
DeadOrNot(c) == up
Dead(c) == up /\ box[c] = "exited"

AwaitDeath(c) ==
    /\ call[c].pc = "await"
    /\ Dead(c)
    /\ Goto(c, "logs")
    /\ UNCHANGED <<dockerVars, marked>>

(* _get_logs swallows an APIError.                                         *)
GetLogs(c) ==
    /\ call[c].pc = "logs"
    /\ up
    /\ Leave(c, call[c].answer)
    /\ UNCHANGED <<dockerVars, marked>>

Remove(c) ==
    /\ call[c].pc = "remove"
    /\ up
    /\ \/ Removed(c)
       \/ "api_error" \in Env /\ UNCHANGED <<box, program>>
    /\ Leave(c, call[c].answer)
    /\ UNCHANGED <<image, daemon, marked>>

-----------------------------------------------------------------------------
(* Faults.                                                                 *)

(* An APIError that ends the try block, as an answer.                      *)
ApiError(c) ==
    /\ "api_error" \in Env
    /\ up
    /\ call[c].pc \in {"image", "pull", "create", "wait", "await"}
    /\ Leave(c, "error")
    /\ UNCHANGED <<dockerVars, marked>>

(* The request fails at once, or after the 60 s docker-py waits for an      *)
(* answer: ConnectionError and ReadTimeout are no APIError and, outside    *)
(* the wait of the loop, escape from execute, even when the answer was     *)
(* ready.  For a pull and a wait() without a timeout it waits for ever.    *)
NoAnswer(c) ==
    /\ ~up
    /\ call[c].pc \in NoHandle \cup {"kill", "await", "logs", "remove"}
    /\ daemon = "mute" => call[c].pc \notin {"pull", "await"}
    /\ UnderWay(c)
    /\ Leave(c, "raised")
    /\ UNCHANGED <<image, daemon, marked>>

(* SoftTimeLimitExceeded is raised wherever the process is; inside the     *)
(* query of cancel_check it is swallowed like any exception.               *)
SoftLimit(c) ==
    /\ "soft_limit" \in Env
    /\ call[c].pc # "done"
    /\ ~call[c].soft
    /\ \/ /\ call' = [call EXCEPT ![c].soft = TRUE, ![c].answer = "soft",
                        ![c].pc = IF @ \in NoHandle \cup {"remove"} THEN "done"
                                                                    ELSE "remove"]
          /\ UnderWay(c)
       \/ /\ call[c].pc = "check"
          /\ call' = [call EXCEPT ![c].soft = TRUE, ![c].pc = "poll"]
          /\ UNCHANGED <<box, program>>
    /\ UNCHANGED <<image, daemon, marked>>

(* The pool kills a process that outlives its soft limit; one may also die *)
(* at any time.  Containers live on.                                       *)
ProcessDies(c) ==
    /\ "crash" \in Env \/ ("hard_limit" \in Env /\ call[c].soft)
    /\ call[c].pc # "done"
    /\ call' = [call EXCEPT ![c].pc = "done", ![c].answer = "killed"]
    /\ UnderWay(c)
    /\ UNCHANGED <<image, daemon, marked>>

DaemonLost == /\ "daemon" \in Env
              /\ daemon' \in {"down", "mute"} \ {daemon}
              /\ UNCHANGED <<call, box, program, image, marked>>
DaemonBack == ~up /\ daemon' = "up" /\ UNCHANGED <<call, box, program, image, marked>>

-----------------------------------------------------------------------------
(* The user's program, the user and the clock.                             *)

ProgramEnds(c) ==
    /\ box[c] = "running"
    /\ \E e \in P!Ended : program' = [program EXCEPT ![c] = e]
    /\ box' = [box EXCEPT ![c] = "exited"]
    /\ UNCHANGED <<call, image, daemon, marked>>

MarkCancel(c) ==
    /\ "cancel" \in Env
    /\ ~marked[c]
    /\ call[c].pc # "done"
    /\ marked' = [marked EXCEPT ![c] = TRUE]
    /\ UNCHANGED <<call, dockerVars>>

DeadlinePasses(c) ==
    /\ call[c].pc \in Polling
    /\ ~call[c].late
    /\ call' = [call EXCEPT ![c].late = TRUE]
    /\ UNCHANGED <<dockerVars, marked>>

-----------------------------------------------------------------------------
(* What the process of c does next.                                        *)
Step(c) ==
    \/ EnsureImage(c) \/ Pull(c) \/ CreateContainer(c)
    \/ StartContainer(c) \/ StartFails(c) \/ SetDeadline(c)
    \/ Poll(c) \/ WaitReturns(c) \/ WaitTimesOut(c) \/ CheckCancel(c)
    \/ Kill(c) \/ AwaitDeath(c) \/ GetLogs(c) \/ Remove(c)
    \/ ApiError(c) \/ NoAnswer(c)

Next ==
    \/ \E c \in Calls :
          \/ Step(c) \/ SoftLimit(c) \/ ProcessDies(c)
          \/ ProgramEnds(c) \/ MarkCancel(c) \/ DeadlinePasses(c)
    \/ DaemonLost \/ DaemonBack

Spec == Init /\ [][Next]_vars

(* The process goes on, clocks tick and Celery raises its soft limit.      *)
(* Programs need not end, users need not ask, the daemon need not return.  *)
LiveSpec ==
    /\ Spec
    /\ \A c \in Calls : /\ WF_vars(Step(c))
                        /\ WF_vars(DeadlinePasses(c))
                        /\ WF_vars(SoftLimit(c))

-----------------------------------------------------------------------------
(* The executor keeps the promise execute_task relies on: success and oom  *)
(* are true of the program, cancelled was asked for, and a status that is  *)
(* saved for one of them never describes a program that is still running.  *)
KeepsPromise == P!Promise

(* A call ends, or hangs for good at one place only: in the wait without a *)
(* timeout after the kill (executor.py:165, 185), with its soft limit      *)
(* spent inside cancel_check (tasks.py:74), and there because the kill did *)
(* not work or because the daemon keeps falling silent.                    *)
HangsOnlyInWait ==
    \A c \in Calls :
        \/ <>(call[c].pc = "done")
        \/ /\ <>[](call[c].pc = "await" /\ call[c].soft)
           /\ <>[](program[c] = "running") \/ []<>(daemon = "mute")

(* Every execution removes its container, whether it succeeded or failed   *)
(* (executor.py:217).                                                      *)
NothingLeft == \A c \in Calls : call[c].pc = "done" => box[c] \in {"none", "removed"}

(* Once it has a handle, a call leaves its container behind only if the    *)
(* finally clause itself is broken off or refused, or the process dies     *)
(* (executor.py:215-221, tasks.py:33); before that, only if run() fails    *)
(* between the container and the handle.  No answer, error or soft limit   *)
(* on the way goes past the clause.                                        *)
Outlived(c) == call[c].pc = "done" /\ box[c] \notin {"none", "removed"}

OutlivedByFault ==
    [][\A c \in Calls : ~Outlived(c) /\ Outlived(c)' =>
          \/ ProcessDies(c)
          \/ call[c].pc = "start" /\ StartFails(c)
          \/ call[c].pc = "remove" /\ Remove(c) /\ UNCHANGED box
          \/ /\ call[c].pc \in {"create", "start", "remove"}
             /\ NoAnswer(c) \/ SoftLimit(c)]_vars
=============================================================================
