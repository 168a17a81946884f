--------------------------- MODULE MCConvergence ---------------------------
(***************************************************************************)
(* Instances of Convergence.  The issue codes are the two the agent gives. *)
(***************************************************************************)
EXTENDS Convergence

MCIssueCodes == {"core_rejected", "attachment_unknown_listener"}
=============================================================================
