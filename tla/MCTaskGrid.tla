----------------------------- MODULE MCTaskGrid -----------------------------
(***************************************************************************)
(* Instances of TaskGrid for TLC.                                          *)
(***************************************************************************)
EXTENDS TaskGrid, TLC

CONSTANTS n1, n2, w1, w2

(* One process on each of two machines.                                    *)
NodeOf2 == (w1 :> n1) @@ (w2 :> n2)

(* Both processes on one machine.                                          *)
NodeOf1 == (w1 :> n1) @@ (w2 :> n1)

(* A single process.                                                       *)
NodeOfOne == w1 :> n1

(* Tasks are interchangeable.                                              *)
TaskSymmetry == Permutations(Tasks)

(* Everything but the writers that go around transit() - the PATCH request *)
(* and the failover command - and the manual status update.                *)
EnvGuarded == {"cancel", "destroy", "retry", "admin_offline", "late_heartbeat",
               "infra", "soft_limit", "soft_limit_outside", "hard_limit", "db",
               "broker", "duplicate", "node_crash", "node_restart"}

(* Only workers write outcomes, and nothing cuts a process short before    *)
(* the try block of execute_task or in its handlers.                       *)
EnvFailover == {"cancel", "destroy", "reschedule", "admin_offline",
                "infra", "soft_limit"}

EnvAll == EnvRequests \cup EnvFaults

(* One cause at a time, for the claims the code does not keep.             *)
EnvCrash == {"reschedule", "node_crash"}
EnvPatch == {"patch"}
EnvInfra == {"infra"}
=============================================================================
