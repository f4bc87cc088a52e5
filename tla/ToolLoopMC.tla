---------------------------- MODULE ToolLoopMC ----------------------------
(***************************************************************************)
(* ToolLoop for TLC.  MaxBatch and MaxInputs are the only bounds: ids and    *)
(* messages are bounded by the loop's own budgets.                          *)
(***************************************************************************)
EXTENDS ToolLoopInv
===========================================================================
