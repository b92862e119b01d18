-------------------------- MODULE FailureDetector --------------------------
(***************************************************************************)
(* What the node table promises to those who read it: which nodes are      *)
(* online.  A node becomes online only by its own report, and while it     *)
(* reports without a break only an administrator takes it offline.         *)
(***************************************************************************)
CONSTANT Nodes

VARIABLES
    online,    \* the nodes the table shows as online
    steady     \* the nodes that have reported, and neither failed to nor been
               \* dismissed since

dvars == <<online, steady>>

DInit == online = {} /\ steady = {}

Report(n) ==
    /\ online' = online \cup {n}
    /\ steady' = steady \cup {n}

(* A report fails, or the node stops.                                      *)
Falter(n) ==
    /\ steady' = steady \ {n}
    /\ UNCHANGED online

(* An administrator takes the node offline.                                *)
Dismiss(n) ==
    /\ online' = online \ {n}
    /\ steady' = steady \ {n}

(* Failure detection does, if the node has not been steady.                *)
Suspect ==
    /\ \E S \in SUBSET (Nodes \ steady) : online' = online \ S
    /\ UNCHANGED steady

DNext == Suspect \/ \E n \in Nodes : Report(n) \/ Falter(n) \/ Dismiss(n)

DetectorSpec == DInit /\ [][DNext]_dvars
=============================================================================
