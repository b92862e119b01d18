----------------------------- MODULE TaskStatus -----------------------------
(***************************************************************************)
(* The status of a task and the table of legal moves between statuses      *)
(* (apps/tasks/models.py, class Task: Status and transit()).  The module   *)
(* has no state: the abstract and the detailed specifications share it.    *)
(***************************************************************************)

(* Task.Status: the six values the status column can hold.                 *)
Status == {"pending", "running", "success", "failed", "timeout", "cancelled"}

(* A row that was never inserted, and one that was deleted.                *)
Absent == {"none", "deleted"}

(* The statuses transit() lets nothing leave.                              *)
Terminal == {"success", "failed", "timeout", "cancelled"}

(* A table that forgets TIMEOUT.                                           *)
TransitNoTimeout(s) ==
    CASE s = "pending" -> {"running", "cancelled"}
      [] s = "running" -> {"success", "failed", "cancelled"}
      [] OTHER -> {}

(* The statuses transit() accepts as a successor of s; it raises           *)
(* ValueError for every other one and leaves the task as it was.           *)
Transit(s) ==
    CASE s = "pending" -> {"running", "cancelled"}
      [] s = "running" -> Terminal
      [] OTHER -> {}
=============================================================================
