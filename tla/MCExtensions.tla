----------------------------- MODULE MCExtensions ----------------------------
(* The instance of Extensions that TLC checks.                             *)
EXTENDS Extensions
==============================================================================
