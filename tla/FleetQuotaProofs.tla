-------------------------- MODULE FleetQuotaProofs --------------------------
(***************************************************************************)
(* Proofs about FleetQuota for every width of the machine integer, every   *)
(* sequence of rows and every limit: the checked arithmetic never wraps,   *)
(* so the assessment is exact, and it refuses nothing it could represent.  *)
(*                                                                         *)
(* The argument: Wrap is the identity on machine integers, and the two     *)
(* tests, whose own subtraction could wrap, are exact on the non-negative  *)
(* operands the loop gives them.  AssessIInv, the inductive invariant, says that *)
(* the accumulators are the exact sums and are never negative.             *)
(***************************************************************************)
EXTENDS FleetQuota, TLAPS

(* A number that fits is left alone.                                       *)
LEMMA WrapIsIdentity ==
  ASSUME NEW n \in MachineInts
  PROVE  Wrap(n) = n
<1>1. n \in Int /\ n + MaxInt + 1 \in 0 .. 2 * (MaxInt + 1) - 1
  BY MaxIntAssumption DEF MachineInts
<1>2. ASSUME NEW m \in Nat, NEW x \in 0..(m - 1) PROVE x % m = x
  OBVIOUS
<1>3. (n + MaxInt + 1) % (2 * (MaxInt + 1)) = n + MaxInt + 1
  BY <1>1, <1>2, MaxIntAssumption
<1> QED BY <1>1, <1>3, MaxIntAssumption DEF Wrap

(* checkedAdd on a non-negative sum so far and a non-negative summand: its *)
(* test is exact, and a sum it lets through is the true one.               *)
LEMMA CheckedAdd ==
  ASSUME NEW a \in 0..MaxInt, NEW b \in 0..MaxInt
  PROVE  /\ AddOverflows(a, b) <=> a + b > MaxInt
         /\ ~AddOverflows(a, b) => a + b \in 0..MaxInt /\ Wrap(a + b) = a + b
<1>1. MaxInt - b \in MachineInts
  BY MaxIntAssumption DEF MachineInts
<1>2. AddOverflows(a, b) <=> a + b > MaxInt
  BY <1>1, WrapIsIdentity, MaxIntAssumption DEF AddOverflows
<1>3. ASSUME a + b <= MaxInt PROVE a + b \in 0..MaxInt /\ Wrap(a + b) = a + b
  <2>1. a + b \in MachineInts BY <1>3, MaxIntAssumption DEF MachineInts
  <2> QED BY <1>3, <2>1, WrapIsIdentity, MaxIntAssumption
<1> QED BY <1>2, <1>3, MaxIntAssumption

(* checkedSub on two non-negative sums never refuses, and is exact.        *)
LEMMA CheckedSub ==
  ASSUME NEW a \in 0..MaxInt, NEW b \in 0..MaxInt
  PROVE  /\ ~SubOverflows(a, b)
         /\ a - b \in MachineInts
         /\ Wrap(a - b) = a - b
<1>1. -MaxInt - 1 + b \in MachineInts /\ a - b \in MachineInts
  BY MaxIntAssumption DEF MachineInts
<1>2. ~SubOverflows(a, b)
  BY <1>1, WrapIsIdentity, MaxIntAssumption DEF SubOverflows
<1> QED BY <1>1, <1>2, WrapIsIdentity

-----------------------------------------------------------------------------
SumsAreExact ==
  /\ ceilings = exactCeilings /\ ceilings \in 0..MaxInt
  /\ reported = exactReported /\ reported \in 0..MaxInt

AssessIInv == AccumulatorsOK /\ SumsAreExact /\ AssessmentIsExact /\ OnlyOverflowIsRefused

(* The invariant holds before the first row.                               *)
LEMMA AssessInitIInv == AssessInit => AssessIInv
<1> SUFFICES ASSUME AssessInit PROVE AssessIInv
  OBVIOUS
<1>1. rows \in Seq(QuotaRows) /\ limit \in MachineInts
  BY InputsAssumption DEF AssessInit
<1> QED
  BY <1>1, MaxIntAssumption
     DEF AssessInit, AssessIInv, AccumulatorsOK, SumsAreExact, AssessmentIsExact,
         OnlyOverflowIsRefused, MachineInts

(* What one row adds, and what is known when it is refused.                *)
LEMMA RowArithmetic ==
  ASSUME AssessIInv, passed < Len(rows), NEW row, row = rows[passed + 1]
  PROVE  /\ row \in QuotaRows
         /\ ~RowFails(row) =>
              /\ ~Negative(row)
              /\ Wrap(ceilings + Wrap(Ceiling(row))) = exactCeilings + Ceiling(row)
              /\ Wrap(reported + row.latestReportedBytes)
                   = exactReported + row.latestReportedBytes
              /\ exactCeilings + Ceiling(row) \in 0..MaxInt
              /\ exactReported + row.latestReportedBytes \in 0..MaxInt
         /\ RowFails(row) =>
              \/ Negative(row)
              \/ exactCeilings + Ceiling(row) > MaxInt
              \/ exactReported + row.latestReportedBytes > MaxInt
<1>1. row \in QuotaRows
  BY DEF AssessIInv, AccumulatorsOK
<1>2. CASE Negative(row)
  BY <1>1, <1>2 DEF RowFails
<1>3. CASE ~Negative(row)
  <2> DEFINE b == row.baselineBytes
             h == row.headroomBytes
             l == row.latestReportedBytes
  <2>1. b \in 0..MaxInt /\ h \in 0..MaxInt /\ l \in 0..MaxInt
    BY <1>1, <1>3, MaxIntAssumption DEF Negative, QuotaRows, MachineInts
  <2>2. ceilings = exactCeilings /\ ceilings \in 0..MaxInt
    BY DEF AssessIInv, SumsAreExact
  <2>3. reported = exactReported /\ reported \in 0..MaxInt
    BY DEF AssessIInv, SumsAreExact
  <2>4. /\ AddOverflows(reported, l) <=> reported + l > MaxInt
        /\ ~AddOverflows(reported, l) =>
             reported + l \in 0..MaxInt /\ Wrap(reported + l) = reported + l
    BY <2>1, <2>3, CheckedAdd
  <2>5. /\ AddOverflows(b, h) <=> b + h > MaxInt
        /\ ~AddOverflows(b, h) => b + h \in 0..MaxInt /\ Wrap(b + h) = b + h
    BY <2>1, CheckedAdd
  <2>6. CASE AddOverflows(b, h)
    BY <1>1, <2>1, <2>2, <2>5, <2>6, MaxIntAssumption DEF RowFails, Ceiling
  <2>7. CASE ~AddOverflows(b, h)
    <3>1. b + h \in 0..MaxInt /\ Wrap(b + h) = b + h
      BY <2>5, <2>7
    <3>2. /\ AddOverflows(ceilings, b + h) <=> ceilings + (b + h) > MaxInt
          /\ ~AddOverflows(ceilings, b + h) =>
               /\ ceilings + (b + h) \in 0..MaxInt
               /\ Wrap(ceilings + (b + h)) = ceilings + (b + h)
      BY <2>2, <3>1, CheckedAdd
    <3> HIDE DEF b, h, l
    <3>3. RowFails(row) <=> AddOverflows(ceilings, b + h) \/ AddOverflows(reported, l)
      BY <1>3, <2>7, <3>1 DEF RowFails, Ceiling, b, h, l
    <3>4. Ceiling(row) = b + h /\ row.latestReportedBytes = l
      BY DEF Ceiling, b, h, l
    <3> QED BY <1>1, <1>3, <2>2, <2>3, <2>4, <3>1, <3>2, <3>3, <3>4
  <2> QED BY <2>6, <2>7
<1> QED BY <1>2, <1>3

(* Neither a row nor the final subtraction breaks the invariant.           *)
LEMMA AssessNextIInv == AssessIInv /\ [AssessNext]_assessVars => AssessIInv'
<1> SUFFICES ASSUME AssessIInv, [AssessNext]_assessVars PROVE AssessIInv'
  OBVIOUS
<1> USE DEF AssessIInv, AccumulatorsOK, SumsAreExact, AssessmentIsExact, OnlyOverflowIsRefused
<1>1. CASE pc = "loop" /\ passed < Len(rows) /\ AddRow(rows[passed + 1])
  <2>1. /\ ceilings' = exactCeilings' /\ ceilings' \in 0..MaxInt
        /\ reported' = exactReported' /\ reported' \in 0..MaxInt
    BY <1>1, RowArithmetic DEF AddRow
  <2>2. 0..MaxInt \subseteq MachineInts /\ 0..MaxInt \subseteq Nat
    BY MaxIntAssumption DEF MachineInts
  <2>3. passed' \in 0..Len(rows') /\ pc' = "loop" /\ UNCHANGED <<rows, limit, residual, position>>
    BY <1>1 DEF AddRow, input
  <2> QED BY <2>1, <2>2, <2>3
<1>2. CASE pc = "loop" /\ passed < Len(rows) /\ RowFails(rows[passed + 1]) /\ Fail
  <2>1. \/ Negative(rows[passed + 1])
        \/ exactCeilings + Ceiling(rows[passed + 1]) > MaxInt
        \/ exactReported + rows[passed + 1].latestReportedBytes > MaxInt
    BY <1>2, RowArithmetic
  <2> QED BY <1>2, <2>1 DEF Fail, input
<1>3. CASE Finish
  <2>1. ~SubOverflows(ceilings, reported)
        /\ Wrap(ceilings - reported) = ceilings - reported
        /\ ceilings - reported \in MachineInts
    BY CheckedSub
  <2>2. pc' = "done" /\ residual' = ceilings - reported
    BY <1>3, <2>1 DEF Finish
  <2> QED BY <1>3, <2>1, <2>2 DEF Finish, input
<1>4. CASE UNCHANGED assessVars
  BY <1>4 DEF assessVars, input
<1> QED BY <1>1, <1>2, <1>3, <1>4 DEF AssessNext, Iterate

(* The inductive invariant holds throughout AssessFleetQuota.              *)
THEOREM AssessInvariance == AssessSpec => []AssessIInv
<1>1. AssessInit => AssessIInv BY AssessInitIInv
<1>2. AssessIInv /\ [AssessNext]_assessVars => AssessIInv' BY AssessNextIInv
<1> QED BY <1>1, <1>2, PTL DEF AssessSpec

(* The accumulators stay machine integers, for every width (quota.go).     *)
THEOREM AssessTypeCorrect == AssessSpec => []AccumulatorsOK
<1>1. AssessIInv => AccumulatorsOK BY DEF AssessIInv
<1> QED BY <1>1, AssessInvariance, PTL

(* For every width, fleet and limit, an assessment that is returned is the *)
(* one of unbounded arithmetic.                                            *)
THEOREM AssessmentExact == AssessSpec => []AssessmentIsExact
<1>1. AssessIInv => AssessmentIsExact BY DEF AssessIInv
<1> QED BY <1>1, AssessInvariance, PTL

(* An error means a negative input or a sum that does not fit; the         *)
(* residual itself is never refused.                                       *)
THEOREM RefusalsJustified == AssessSpec => []OnlyOverflowIsRefused
<1>1. AssessIInv => OnlyOverflowIsRefused BY DEF AssessIInv
<1> QED BY <1>1, AssessInvariance, PTL
=============================================================================
