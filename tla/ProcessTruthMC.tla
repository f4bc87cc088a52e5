--------------------------- MODULE ProcessTruthMC ---------------------------
(***************************************************************************)
(* ProcessTruth for TLC.  MaxOps bounds the operations and with them the     *)
(* log; two checkpoints fit into one of the MaxClock milliseconds.           *)
(***************************************************************************)
EXTENDS ProcessTruthInv
===========================================================================
