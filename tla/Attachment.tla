----------------------------- MODULE Attachment -----------------------------
(***************************************************************************)
(* EvaluateAttachment (protocol/conformance/attachment.go): the ruling on  *)
(* one attachment of a client to a listener, from the two versions the     *)
(* agent holds and the state of the listener.  An argument the code        *)
(* refuses with an error gets the disposition "error"; the test for empty  *)
(* keys is left out, as no key here is empty.  Operators only.             *)
(***************************************************************************)
EXTENDS Version

Dispositions == {"ready", "waiting_for_config", "unknown_listener",
                 "waiting_for_listener", "blocked_by_listener", "error"}

(* Mutant: the version skew is not told apart from a missing listener. *)
RulingIgnoresSkew(in) ==
  IF ~in.listenerKnown THEN "unknown_listener"
  ELSE CASE in.listenerState = "applied"                -> "ready"
         [] in.listenerState = "rejected"               -> "blocked_by_listener"
         [] in.listenerState \in {"pending", "blocked"} -> "waiting_for_listener"
         [] OTHER                                       -> "error"

(* Mutant: a client is taken to work as soon as its listener is known. *)
RulingIgnoresRejection(in) ==
  IF Newer(in.rosterMinConfig, in.appliedConfig) THEN "waiting_for_config"
  ELSE IF ~in.listenerKnown THEN "unknown_listener"
  ELSE "ready"

(* A roster that leads the config is ruled on before anything is said of   *)
(* the listener.                                                           *)
Ruling(in) ==
  IF Newer(in.rosterMinConfig, in.appliedConfig) THEN "waiting_for_config"
  ELSE IF ~in.listenerKnown THEN "unknown_listener"
  ELSE CASE in.listenerState = "applied"                -> "ready"
         [] in.listenerState = "rejected"               -> "blocked_by_listener"
         [] in.listenerState \in {"pending", "blocked"} -> "waiting_for_listener"
         [] OTHER                                       -> "error"

(* The state the client object must move to. *)
StateFor ==
  [ready                |-> "applied",
   waiting_for_config   |-> "pending",
   unknown_listener     |-> "rejected",
   waiting_for_listener |-> "pending",
   blocked_by_listener  |-> "blocked",
   error                |-> "none"]

(* Mutant: skew is never surfaced. *)
NeverEscalates(in, ruling) ==
  IF ruling = "unknown_listener" THEN "attachment_unknown_listener" ELSE "none"

(* Self-healing skew is reported only past the tolerated rounds. *)
IssueFor(in, ruling) ==
  CASE ruling = "unknown_listener" -> "attachment_unknown_listener"
    [] ruling = "waiting_for_config" /\ in.aheadRounds > in.escalateAfterRounds
         -> "roster_ahead_of_config"
    [] OTHER -> "none"

EvaluateAttachment(in) ==
  LET ruling == IF in.aheadRounds < 0 \/ in.escalateAfterRounds < 0
                THEN "error" ELSE Ruling(in)
  IN [disposition |-> ruling,
      state       |-> StateFor[ruling],
      issue       |-> IssueFor(in, ruling)]
=============================================================================
