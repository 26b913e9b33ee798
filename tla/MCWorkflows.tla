------------------------------- MODULE MCWorkflows ------------------------------
(***************************************************************************)
(* Small instances of the workflows for TLC.                               *)
(***************************************************************************)
EXTENDS WorkflowProperties, TLC

RunnerSymmetry == Permutations(Runners)
===============================================================================
