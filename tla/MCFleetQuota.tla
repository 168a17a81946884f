---------------------------- MODULE MCFleetQuota ----------------------------
(* The fleets of MCFleetRowInputs, through FleetQuota alone.               *)
EXTENDS FleetQuota, MCFleetRowInputs
=============================================================================
