------------------------------ MODULE TaskWire ------------------------------
(***************************************************************************)
(* What one task and one task result must be on the wire                   *)
(* (protocol/validate.go, protocol/envelope.go), as operators: Outbox      *)
(* validates whole lists with them, TaskExchange sends the results of a    *)
(* journal through them.                                                   *)
(*                                                                         *)
(* A text field is a member of a small set named for what the checks tell  *)
(* apart: "" when it is empty, "malformed", "padded" or "oversized" when a *)
(* check refuses it, "canonical" otherwise.  A kind may be "reserved"; a   *)
(* payload is its size; a digest that is well formed is "matching", or     *)
(* "stale" when it was computed over another input than the kind and       *)
(* payload it travels with.                                                *)
(***************************************************************************)
EXTENDS Integers, Sequences, FiniteSets

(* The test per entry: what a field must be for the loop to go on. *)

WellFormedId(id) == id \notin {"", "malformed"}

(* validToken, and no name the execution capability has reserved. *)
WellFormedKind(kind) == kind \notin {"", "malformed", "reserved"}

TaskEntry(t) ==
  /\ WellFormedId(t.id)
  /\ WellFormedKind(t.kind)
  /\ t.notAfterMS >= 0
  /\ t.digest = "matching"

(* A digest of a result is only checked for its form: PSP has the task.    *)
DurableEntry(r) ==
  /\ WellFormedId(r.id)
  /\ WellFormedKind(r.kind)
  /\ r.notAfterMS >= 0
  /\ r.digest \in {"stale", "matching"}
  /\ IF r.ok
     THEN ~r.indeterminate /\ r.errorCode = "" /\ r.error = ""
     ELSE /\ r.errorCode \notin {"", "malformed"}
          /\ r.error = "canonical" /\ r.size = 0

(* Mutant: a legacy row may carry the deadline of a durable one. *)
LegacyEntryIgnoresDeadline(r) ==
  /\ r.kind = "" /\ r.digest = "" /\ r.errorCode = "" /\ ~r.indeterminate
  /\ WellFormedId(r.id)
  /\ IF r.ok THEN r.error = "" ELSE r.error = "canonical"

LegacyEntry(r) ==
  /\ r.kind = "" /\ r.digest = "" /\ r.errorCode = "" /\ ~r.indeterminate
  /\ r.notAfterMS = 0
  /\ WellFormedId(r.id)
  /\ IF r.ok THEN r.error = "" ELSE r.error = "canonical"

Entry(s, e) ==
  CASE s = "task"    -> TaskEntry(e)
    [] s = "durable" -> DurableEntry(e)
    [] s = "legacy"  -> LegacyEntry(e)

(* What makes validateOutbox take a whole list for durable results. *)
LooksDurable(r) ==
  r.kind # "" \/ r.digest # "" \/ r.errorCode # "" \/ r.indeterminate

ResultSchema(results) ==
  IF \E k \in 1..Len(results) : LooksDurable(results[k]) THEN "durable" ELSE "legacy"
=============================================================================
