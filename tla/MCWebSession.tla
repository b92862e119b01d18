---------------------------- MODULE MCWebSession ----------------------------
(***************************************************************************)
(* The instance for TLC: two tabs, and two calls of either of them, so     *)
(* that two renewals, or a renewal and a form, may cross.                  *)
(***************************************************************************)
EXTENDS WebSession

CONSTANTS b1, b2, c1, c2

MCTabs == {b1, b2}
MCCalls == {c1, c2}
=============================================================================
