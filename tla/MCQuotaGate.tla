----------------------------- MODULE MCQuotaGate -----------------------------
(* A quota of two bytes, one period end, and a next period that grants       *)
(* nothing, starts exhausted, or starts afresh.                              *)
EXTENDS QuotaGate

MCNil == -1
MCNextGrants == {MCNil, 0, 2}
==============================================================================
