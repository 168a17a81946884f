------------------------------- MODULE Stream -------------------------------
(***************************************************************************)
(* What one stream of the protocol promises, without rounds, responses or  *)
(* ETags: PSP publishes documents under rising coordinates, and whatever   *)
(* an agent holds as applied is a document that was published, under the   *)
(* very coordinate it was published with, never replaced by an older one.  *)
(* An agent that learns of a rebuilt document row forgets what it holds    *)
(* and starts over (protocol/version.go, protocol/report.go StreamState).  *)
(***************************************************************************)
EXTENDS Version

CONSTANT NoBody         \* nothing held

VARIABLES published,    \* the documents published so far
          held          \* the document the agent holds as applied

streamVars == <<published, held>>

Nothing == [version |-> NoVersion, body |-> NoBody]

StreamInit ==
  /\ \E d \in published : Committed(d.version) /\ published = {d}
  /\ held = Nothing

Publish(d) ==
  /\ \A p \in published : Newer(d.version, p.version)
  /\ published' = published \cup {d}
  /\ UNCHANGED held

Hold(d) ==
  /\ Newer(d.version, held.version)
  /\ held' = d
  /\ UNCHANGED published

(* Only because a later epoch was published. *)
Forget ==
  /\ \E p \in published : p.version.epoch > held.version.epoch
  /\ held' = Nothing
  /\ UNCHANGED published

StreamNext ==
  \/ \E d \in published' \ published : Publish(d)
  \/ \E d \in published : Hold(d)
  \/ Forget

StreamSpec == StreamInit /\ [][StreamNext]_streamVars
=============================================================================
