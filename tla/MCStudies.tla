------------------------------ MODULE MCStudies ------------------------------
(* The instance of Studies that TLC checks.                                *)
EXTENDS Studies
==============================================================================
