-------------------------- MODULE MCEvidenceRecords --------------------------
(* EvidenceRecords for TLC: the constants are all in the .cfg files.        *)
EXTENDS EvidenceRecords
===============================================================================
