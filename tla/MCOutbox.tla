------------------------------ MODULE MCOutbox ------------------------------
(* Lists of at most MaxEntries + 1 entries: each entry is good, or bad in   *)
(* one respect, and the good ones include two that only fail together.      *)
EXTENDS Outbox

LOCAL SX == INSTANCE SequencesExt

LOCAL Good == [id |-> "a", kind |-> "canonical", notAfterMS |-> 0,
               digest |-> "matching", size |-> 1]

MCTasks ==
  { Good, [Good EXCEPT !.id = "b", !.size = 2], [Good EXCEPT !.id = "c", !.size = 3],
    [Good EXCEPT !.id = "malformed"], [Good EXCEPT !.kind = "reserved"],
    [Good EXCEPT !.notAfterMS = -1], [Good EXCEPT !.digest = "stale"] }

LOCAL Result(id, kind, deadline, digest, size, ok, ind, code, error) ==
  [id |-> id, kind |-> kind, notAfterMS |-> deadline, digest |-> digest, size |-> size,
   ok |-> ok, indeterminate |-> ind, errorCode |-> code, error |-> error]

MCResults ==
  { Result("a", "canonical", 1, "stale", 2, TRUE, FALSE, "", ""),
    Result("b", "canonical", 0, "matching", 2, TRUE, FALSE, "", ""),
    Result("c", "canonical", 0, "matching", 0, FALSE, TRUE, "canonical", "canonical"),
    Result("b", "canonical", 0, "matching", 1, FALSE, FALSE, "canonical", "canonical"),
    Result("b", "", 0, "", 1, TRUE, FALSE, "", ""),
    Result("c", "", 0, "", 2, FALSE, FALSE, "", "canonical"),
    Result("a", "", 0, "", 0, FALSE, FALSE, "", "padded"),
    Result("a", "", 1, "", 0, TRUE, FALSE, "", ""),
    Result("c", "", 0, "", 0, FALSE, FALSE, "canonical", "canonical") }

MCTaskLists   == SX!BoundedSeq(MCTasks, MaxEntries + 1)
MCResultLists == SX!BoundedSeq(MCResults, MaxEntries + 1)
=============================================================================
