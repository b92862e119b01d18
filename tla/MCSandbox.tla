----------------------------- MODULE MCSandbox ------------------------------
(***************************************************************************)
(* Instances of Sandbox for TLC.                                           *)
(***************************************************************************)
EXTENDS Sandbox

EnvAll == SandboxEnv
EnvStart == {"start_error"}
=============================================================================
