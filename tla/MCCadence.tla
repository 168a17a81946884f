----------------------------- MODULE MCCadence -----------------------------
(***************************************************************************)
(* Limits scaled down to a handful of seconds: intervals below, at, above  *)
(* and between multiples of the poll period, and envelopes that do not     *)
(* validate for being out of range on either side.                         *)
(***************************************************************************)
EXTENDS Cadence

Answer(poll, full, host, want) ==
  [computedAtMS |-> 0, numeratorAsOfMS |-> 0, numeratorOldestReportAgeMS |-> 0,
   overburnHeadroomBytes |-> 0, nextPollSeconds |-> poll,
   fullReportSeconds |-> full, hostReportSeconds |-> host,
   wantFullReport |-> want, wantHostReport |-> want]

Invalid == {Answer(5, 4, 2, FALSE), Answer(2, 8, 2, FALSE),
            Answer(2, 4, 1, FALSE), [Answer(2, 4, 2, FALSE) EXCEPT !.overburnHeadroomBytes = -1]}

MCSchedules ==
  {Answer(poll, full, host, FALSE) : poll \in 0..4, full \in {0, 2, 3, 7}, host \in {0, 2, 5}}
    \cup {Answer(2, 7, 5, TRUE)} \cup Invalid
=============================================================================
