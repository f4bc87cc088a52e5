------------------------------ MODULE TaskRunMC ------------------------------
(***************************************************************************)
(* TaskRun for TLC. The counters bound close and input requests and          *)
(* restarts; every other behaviour is finite by itself.                      *)
(***************************************************************************)
EXTENDS TaskRunInv
=============================================================================
