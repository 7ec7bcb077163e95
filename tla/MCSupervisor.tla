---------------------------- MODULE MCSupervisor ----------------------------
(***************************************************************************)
(* Model-checking instance of Supervisor.  The constants are given in the  *)
(* MCSupervisor*.cfg files; supervisors and NoProc are model values.  No   *)
(* symmetry is declared: the late and the signalled supervisors are named  *)
(* in the configuration, so the supervisors are not interchangeable.       *)
(***************************************************************************)
EXTENDS Supervisor

=============================================================================
