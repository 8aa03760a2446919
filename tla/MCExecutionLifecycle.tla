------------------------ MODULE MCExecutionLifecycle ------------------------
(* The instance of ExecutionLifecycle that TLC checks.                     *)
EXTENDS ExecutionLifecycle

CONSTANTS c1, c2
==============================================================================
