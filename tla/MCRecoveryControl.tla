-------------------------- MODULE MCRecoveryControl --------------------------
(***************************************************************************)
(* A small instance of the authority: two transactions so that one restore *)
(* can supersede another, two points and two digests so that an identity   *)
(* conflict and a changed proof exist, and three generations after ready.  *)
(***************************************************************************)
EXTENDS RecoveryControl
==============================================================================
