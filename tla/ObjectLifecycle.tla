-------------------------- MODULE ObjectLifecycle --------------------------
(***************************************************************************)
(* What the convergence state of one object promises to whoever reads it,  *)
(* without timestamps, issue codes or the reason an object waits:          *)
(*                                                                         *)
(*   - an object follows a rising sequence of committed versions;          *)
(*   - each version starts out converging, and may converge and regress    *)
(*     any number of times;                                                *)
(*   - once refused, a version stays refused: only a newer one reopens it. *)
(*                                                                         *)
(* ObjectState implements this specification.                              *)
(***************************************************************************)
EXTENDS Version

CONSTANT OfferedVersions    \* the coordinates a peer may offer

VARIABLES version,    \* the version being followed, NoVersion before the first
          phase       \* how far that version got

lifecycleVars == <<version, phase>>

LifecycleTypeOK ==
  /\ version \in OfferedVersions \cup {NoVersion}
  /\ phase \in {"absent", "converging", "converged", "refused"}

LifecycleInit == version = NoVersion /\ phase = "absent"

Follow(v) ==
  /\ Committed(v)
  /\ phase = "absent" \/ Newer(v, version)
  /\ version' = v
  /\ phase' = "converging"

Converge ==
  /\ phase \in {"converging", "converged"}
  /\ phase' = "converged"
  /\ UNCHANGED version

Regress ==
  /\ phase \in {"converging", "converged"}
  /\ phase' = "converging"
  /\ UNCHANGED version

Refuse ==
  /\ phase # "absent"
  /\ phase' = "refused"
  /\ UNCHANGED version

LifecycleNext ==
  \/ \E v \in OfferedVersions : Follow(v)
  \/ Converge
  \/ Regress
  \/ Refuse

LifecycleSpec == LifecycleInit /\ [][LifecycleNext]_lifecycleVars
=============================================================================
