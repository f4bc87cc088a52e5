---------------------------- MODULE ModelCallMC -----------------------------
(***************************************************************************)
(* ModelCall for TLC.  Times are small but distinct: a call may outlive the  *)
(* lock, an interval may exceed what is left of a timeout.                  *)
(***************************************************************************)
EXTENDS ModelCall
=============================================================================
