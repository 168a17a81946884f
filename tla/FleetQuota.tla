----------------------------- MODULE FleetQuota -----------------------------
(***************************************************************************)
(* AssessFleetQuota (protocol/conformance/quota.go): the cross-agent       *)
(* residual, computed row by row with checked arithmetic, and the envelope *)
(* that has to carry it to the agents (protocol/envelope.go).              *)
(*                                                                         *)
(* Machine integers run from -MaxInt-1 to MaxInt and wrap around; MaxInt   *)
(* is 2^63-1 in the code.  One step of the specification is one iteration  *)
(* of the loop, or the computation after it; the two timestamps that are   *)
(* checked for their sign and passed through are left out.                 *)
(* exactCeilings and exactReported are history variables: the two sums in  *)
(* unbounded arithmetic, of the rows gone through so far.                  *)
(***************************************************************************)
EXTENDS Envelope, Sequences

CONSTANTS MaxInt,         \* the largest machine integer
          RowSequences,   \* the rows PSP may have configured
          Limits          \* the limits it may have set

ASSUME MaxIntAssumption == MaxInt \in Nat

MachineInts == -MaxInt - 1 .. MaxInt

QuotaRows == [baselineBytes       : MachineInts,
              headroomBytes       : MachineInts,
              latestReportedBytes : MachineInts]

ASSUME InputsAssumption ==
  RowSequences \subseteq Seq(QuotaRows) /\ Limits \subseteq MachineInts

VARIABLES rows, limit,        \* the input
          pc,                 \* "loop", "done" or "error"
          passed,             \* rows gone through
          ceilings, reported, \* the accumulators
          residual, position, \* the assessment, once done
          exactCeilings, exactReported

input == <<rows, limit>>
assessVars == <<input, pc, passed, ceilings, reported, residual, position,
               exactCeilings, exactReported>>

(* Two's complement: what a machine integer makes of n. *)
Wrap(n) == ((n + MaxInt + 1) % (2 * (MaxInt + 1))) - MaxInt - 1

(* Mutant: a sum that just reaches the largest integer is let through one  *)
(* too far.                                                                *)
AddOverflowsLate(a, b) == b > 0 /\ a > Wrap(MaxInt - b + 1)

AddOverflows(a, b) == b > 0 /\ a > Wrap(MaxInt - b)

(* Mutant: a difference below zero is taken for an overflow. *)
SubRefusesNegative(a, b) == a < b

SubOverflows(a, b) == b > 0 /\ a < Wrap(-MaxInt - 1 + b)

Negative(row) ==
  \/ row.baselineBytes < 0
  \/ row.headroomBytes < 0
  \/ row.latestReportedBytes < 0

Ceiling(row) == row.baselineBytes + row.headroomBytes

AssessInit ==
  /\ rows \in RowSequences
  /\ limit \in Limits
  /\ pc = IF limit < 0 THEN "error" ELSE "loop"
  /\ passed = 0
  /\ ceilings = 0 /\ reported = 0
  /\ residual = 0 /\ position = "none"
  /\ exactCeilings = 0 /\ exactReported = 0

Fail ==
  /\ pc' = "error"
  /\ UNCHANGED <<input, passed, ceilings, reported, residual, position,
                 exactCeilings, exactReported>>

RowFails(row) ==
  \/ Negative(row)
  \/ AddOverflows(row.baselineBytes, row.headroomBytes)
  \/ AddOverflows(ceilings, Wrap(Ceiling(row)))
  \/ AddOverflows(reported, row.latestReportedBytes)

AddRow(row) ==
  /\ ~RowFails(row)
  /\ ceilings' = Wrap(ceilings + Wrap(Ceiling(row)))
  /\ reported' = Wrap(reported + row.latestReportedBytes)
  /\ exactCeilings' = exactCeilings + Ceiling(row)
  /\ exactReported' = exactReported + row.latestReportedBytes
  /\ passed' = passed + 1
  /\ UNCHANGED <<input, pc, residual, position>>

Iterate ==
  /\ pc = "loop" /\ passed < Len(rows)
  /\ \/ AddRow(rows[passed + 1])
     \/ RowFails(rows[passed + 1]) /\ Fail

Finish ==
  /\ pc = "loop" /\ passed = Len(rows)
  /\ IF SubOverflows(ceilings, reported)
     THEN pc' = "error" /\ UNCHANGED <<residual, position>>
     ELSE /\ pc' = "done"
          /\ residual' = Wrap(ceilings - reported)
          /\ position' = IF reported > limit THEN "above" ELSE "at_or_below"
  /\ UNCHANGED <<input, passed, ceilings, reported, exactCeilings, exactReported>>

AssessNext == Iterate \/ Finish

AssessSpec == AssessInit /\ [][AssessNext]_assessVars

-----------------------------------------------------------------------------
(* Properties *)

(* The accumulators are machine integers throughout the loop.              *)
AccumulatorsOK ==
  /\ rows \in Seq(QuotaRows) /\ limit \in MachineInts
  /\ pc \in {"loop", "done", "error"}
  /\ passed \in 0..Len(rows)
  /\ {ceilings, reported, residual} \subseteq MachineInts
  /\ position \in {"none", "above", "at_or_below"}
  /\ exactCeilings \in Nat /\ exactReported \in Nat

(* A reported residual is the exact one, negative ones included: no wrap   *)
(* of a sum goes unnoticed on the way, and the position it reports is that *)
(* of the exact numerator (checkedAdd, checkedSub).                        *)
AssessmentIsExact ==
  pc = "done" =>
    /\ residual = exactCeilings - exactReported
    /\ position = IF exactReported > limit THEN "above" ELSE "at_or_below"

(* Arithmetic is refused only where it cannot be represented: if the       *)
(* limit and every row are non-negative, an error means that the ceiling   *)
(* or the numerator, up to and including the row it stopped at, is beyond  *)
(* the largest machine integer.  In particular the difference of two       *)
(* representable sums is never refused (checkedSub).                       *)
OnlyOverflowIsRefused ==
  pc = "error" /\ limit >= 0 =>
    /\ passed < Len(rows)
    /\ \/ Negative(rows[passed + 1])
       \/ exactCeilings + Ceiling(rows[passed + 1]) > MaxInt
       \/ exactReported + rows[passed + 1].latestReportedBytes > MaxInt

-----------------------------------------------------------------------------
(* The envelope that carries the assessment. *)
Carried == [computedAtMS               |-> 1,
            numeratorAsOfMS            |-> 1,
            numeratorOldestReportAgeMS |-> 1,
            overburnHeadroomBytes      |-> residual,
            nextPollSeconds            |-> 0,
            fullReportSeconds          |-> 0,
            hostReportSeconds          |-> 0]

(* The signed residual is operational evidence that must not be clamped    *)
(* (quota.go, AssessFleetQuota): whatever is assessed can be sent, i.e. an *)
(* agent's ValidateEnvelope accepts the round trip that carries it.        *)
ResidualIsDeliverable == pc = "done" => ValidateEnvelope(Carried)
=============================================================================
