-------------------------- MODULE MCFleetRowInputs --------------------------
(***************************************************************************)
(* Machine integers of three bits and a sign, -8 to 7, and up to two rows  *)
(* whose counts reach every boundary of that width: sums that stay within  *)
(* it, that meet it exactly, that pass it by one, and negative rows.       *)
(***************************************************************************)
EXTENDS Integers

Row(baseline, headroom, latest) == [baselineBytes       |-> baseline,
                                    headroomBytes       |-> headroom,
                                    latestReportedBytes |-> latest]

Counts == {0, 1, 4, 7}

NegativeRows == {Row(-1, 4, 1), Row(4, -1, 1), Row(7, 0, -8)}

MCRows == {Row(b, h, l) : b \in Counts, h \in Counts, l \in Counts} \cup NegativeRows

MCRowSequences == UNION {[1..n -> MCRows] : n \in 0..2}

MCLimits == {-1, 0, 7}
=============================================================================
