-------------------------- MODULE MCWorkflowFetch --------------------------
(***************************************************************************)
(* TLC instances of WorkflowFetch.                                         *)
(***************************************************************************)
EXTENDS WorkflowFetch
=============================================================================
