--------------------------- MODULE MCObjectState ---------------------------
(***************************************************************************)
(* Two epochs of two versions and every half-zero coordinate below them,   *)
(* four clock readings around a deadline of two, two issue codes and two   *)
(* listeners: enough for an episode to be reopened by a version and by an  *)
(* epoch, to start at, before and after any other, and to expire or not.   *)
(***************************************************************************)
EXTENDS ObjectState

MCOfferedVersions == [epoch : 0..2, version : 0..2]
MCTimes == 1..4
=============================================================================
