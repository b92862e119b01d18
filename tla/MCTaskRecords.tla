--------------------------- MODULE MCTaskRecords ---------------------------
(***************************************************************************)
(* Instances of TaskRecords for TLC.                                       *)
(***************************************************************************)
EXTENDS TaskRecords, TLC

CONSTANTS n1, w1, w2, t1, u1, u2, admin

NodeOf1 == (w1 :> n1) @@ (w2 :> n1)
Owner == t1 :> u1

EnvRecords == {"cancel", "destroy", "reschedule", "admin_offline",
               "infra", "soft_limit", "db", "duplicate"}
=============================================================================
