--------------------------- MODULE MCDDNSUpdater ----------------------------
(***************************************************************************)
(* Sets of environment faults of DDNSUpdater for TLC.                      *)
(***************************************************************************)
EXTENDS DDNSUpdater

MCAllFaults == AllFaults
MCNoFaults == {}
MCRecordFaults == {"records"}
=============================================================================
