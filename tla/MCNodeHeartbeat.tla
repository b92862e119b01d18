--------------------------- MODULE MCNodeHeartbeat --------------------------
(***************************************************************************)
(* The instance for TLC.  A tick is ten seconds: the interval of thirty    *)
(* and the limit of sixty seconds are the code's own.  Workers never touch *)
(* each other's rows, so one will do; two failure detections race.         *)
(***************************************************************************)
EXTENDS NodeHeartbeat

CONSTANTS n1, c1, c2

MCNodes == {n1}
MCCheckers == {c1, c2}
=============================================================================
