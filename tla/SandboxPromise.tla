--------------------------- MODULE SandboxPromise ---------------------------
(***************************************************************************)
(* What execute_task may believe about one call of the sandbox, whatever   *)
(* Docker, the timers and the user do meanwhile: TaskGrid takes from the   *)
(* sandbox no more than this.                                              *)
(***************************************************************************)
CONSTANT Calls

VARIABLES
    outcome,  \* how the call has ended, "none" before it does
    program,  \* what has become of the user's program
    marked    \* the user has asked for cancellation

promiseVars == <<outcome, program, marked>>

(* Endings of the program: exit code 0, any other, or 137 (SIGKILL).       *)
Ended == {"zero", "nonzero", "sigkill"}

(* Endings of the call that say nothing about the program: Docker refused, *)
(* an exception, the soft limit, or the process was killed.                *)
Broken == {"error", "raised", "soft", "killed"}

PromiseInit == /\ outcome = [c \in Calls |-> "none"]
               /\ program = [c \in Calls |-> "none"]
               /\ marked = [c \in Calls |-> FALSE]

Launch(c) ==
    /\ outcome[c] = "none"
    /\ program[c] = "none"
    /\ program' = [program EXCEPT ![c] = "running"]
    /\ UNCHANGED <<outcome, marked>>

(* A program may end after its call has: nobody may be left to stop it.    *)
End(c) ==
    /\ program[c] = "running"
    /\ \E e \in Ended : program' = [program EXCEPT ![c] = e]
    /\ UNCHANGED <<outcome, marked>>

Mark(c) ==
    /\ outcome[c] = "none"
    /\ marked' = [marked EXCEPT ![c] = TRUE]
    /\ UNCHANGED <<outcome, program>>

(* An answer about the program is given when it has ended, and is true.    *)
Answer(c) ==
    /\ outcome[c] = "none"
    /\ program[c] \in Ended
    /\ outcome' \in {[outcome EXCEPT ![c] = o] :
                        o \in (CASE program[c] = "zero" -> {"success"}
                                 [] program[c] = "sigkill" -> {"oom"}
                                 [] OTHER -> {"error"})
                              \cup {"timed_out"}
                              \cup (IF marked[c] THEN {"cancelled"} ELSE {})}
    /\ UNCHANGED <<program, marked>>

(* A call that breaks off may start or stop the program in the same step.  *)
Break(c) ==
    /\ outcome[c] = "none"
    /\ \E o \in Broken : outcome' = [outcome EXCEPT ![c] = o]
    /\ \/ UNCHANGED program
       \/ program[c] = "none" /\ program' = [program EXCEPT ![c] = "running"]
       \/ program[c] = "running" /\ program' = [program EXCEPT ![c] = "sigkill"]
    /\ UNCHANGED marked

PromiseNext ==
    \E c \in Calls : Launch(c) \/ End(c) \/ Mark(c) \/ Answer(c) \/ Break(c)

Promise == PromiseInit /\ [][PromiseNext]_promiseVars
=============================================================================
