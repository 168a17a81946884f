------------------------------- MODULE Outbox -------------------------------
(***************************************************************************)
(* The bounded lists of the task protocol (protocol/validate.go): the      *)
(* tasks of a response, checked by ValidateTasks, and the task results of  *)
(* a report, which validateOutbox hands to ValidateTaskResults or to       *)
(* validateLegacyTaskResults after one look at the whole list.             *)
(*                                                                         *)
(* The three validators are one loop with its own test per entry: they     *)
(* refuse at the first entry that is malformed, oversized, beyond what is  *)
(* left of the aggregate budget, or a repeat of an earlier id.  One step   *)
(* of the specification is one iteration; the tests are TaskWire's.        *)
(***************************************************************************)
EXTENDS TaskWire

CONSTANTS MaxEntries,      \* MaxTasksPerResponse, MaxTaskResultsPerReport
          MaxBytes,        \* MaxTaskArgsBytes, MaxTaskResultBytes
          MaxTotalBytes,   \* MaxTaskArgsBytesPerResponse, ...PerReport
          TaskLists,       \* lists of tasks a response may carry
          ResultLists      \* lists of results a report may carry

ASSUME BudgetAssumption ==
  /\ MaxEntries \in Nat /\ MaxBytes \in Nat /\ MaxTotalBytes \in Nat
  /\ MaxBytes <= MaxTotalBytes

(* A list is finite, and a payload has a length. *)
ASSUME ListsAssumption ==
  \A l \in TaskLists \cup ResultLists :
    /\ Len(l) \in Nat
    /\ \A k \in 1..Len(l) : l[k].size \in Nat

VARIABLES list,       \* the list being validated
          schema,     \* "unread", then "task", "durable" or "legacy"
          verdict,    \* "none", "ok" or "refused"
          i, seen, total

vars == <<list, schema, verdict, i, seen, total>>

-----------------------------------------------------------------------------
(* Mutant: the budget is compared before the entry is added to it. *)
FitsSoFar(size, soFar) == size <= MaxBytes /\ soFar <= MaxTotalBytes

Fits(size, soFar) == size <= MaxBytes /\ size <= MaxTotalBytes - soFar

-----------------------------------------------------------------------------
Init ==
  /\ \/ list \in TaskLists /\ schema = "task"
     \/ list \in ResultLists /\ schema = "unread"
  /\ verdict = "none"
  /\ i = 0 /\ seen = {} /\ total = 0

(* validateOutbox picks the validator of the results. *)
Route ==
  /\ schema = "unread"
  /\ schema' = ResultSchema(list)
  /\ UNCHANGED <<list, verdict, i, seen, total>>

Validating == schema # "unread" /\ verdict = "none"

TooMany ==
  /\ Validating /\ i = 0 /\ Len(list) > MaxEntries
  /\ verdict' = "refused"
  /\ UNCHANGED <<list, schema, i, seen, total>>

(* Mutant: an id may come twice. *)
PassesRepeats(e) == Entry(schema, e) /\ Fits(e.size, total)

Passes(e) == Entry(schema, e) /\ Fits(e.size, total) /\ e.id \notin seen

Take ==
  /\ Validating /\ Len(list) <= MaxEntries /\ i < Len(list)
  /\ Passes(list[i + 1])
  /\ total' = total + list[i + 1].size
  /\ seen' = seen \cup {list[i + 1].id}
  /\ i' = i + 1
  /\ UNCHANGED <<list, schema, verdict>>

Refuse ==
  /\ Validating /\ Len(list) <= MaxEntries /\ i < Len(list)
  /\ ~Passes(list[i + 1])
  /\ verdict' = "refused"
  /\ UNCHANGED <<list, schema, i, seen, total>>

Accept ==
  /\ Validating /\ Len(list) <= MaxEntries /\ i = Len(list)
  /\ verdict' = "ok"
  /\ UNCHANGED <<list, schema, i, seen, total>>

Next == Route \/ TooMany \/ Take \/ Refuse \/ Accept

Spec == Init /\ [][Next]_vars

-----------------------------------------------------------------------------
(* Properties *)

(* The loop's variables and the schema it works with.                      *)
TypeOK ==
  /\ schema \in {"unread", "task", "durable", "legacy"}
  /\ verdict \in {"none", "ok", "refused"}
  /\ i \in 0..Len(list)
  /\ seen = {list[k].id : k \in 1..i}
  /\ total \in Nat

(* The room left in the aggregate budget, which the code computes by       *)
(* subtraction, is never negative, and nothing is admitted beyond it.      *)
BudgetNeverOverdrawn == total <= MaxTotalBytes

(* The bytes of a list, position by position. *)
Bytes(entries) ==
  LET upTo[k \in 0..Len(entries)] ==
        IF k = 0 THEN 0 ELSE upTo[k - 1] + entries[k].size
  IN upTo[Len(entries)]

(* What a list accepted under one schema is, without order or loop. *)
Acceptable(s, entries) ==
  /\ Len(entries) <= MaxEntries
  /\ \A k \in 1..Len(entries) : Entry(s, entries[k]) /\ entries[k].size <= MaxBytes
  /\ Bytes(entries) <= MaxTotalBytes
  /\ \A j, k \in 1..Len(entries) : entries[j].id = entries[k].id => j = k

AnyAcceptable ==
  IF schema = "task" THEN Acceptable("task", list)
  ELSE Acceptable("durable", list) \/ Acceptable("legacy", list)

(* A list is accepted exactly if it is acceptable as a whole: the answer   *)
(* does not depend on the order of the entries, one bad entry refuses all  *)
(* of them, and a list that fits its budgets is never turned away          *)
(* (ValidateTasks, ValidateTaskResults, validateOutbox).                   *)
VerdictIsReference ==
  /\ verdict = "ok" => AnyAcceptable
  /\ verdict = "refused" => ~AnyAcceptable

(* A report that is accepted speaks one schema: every result names the     *)
(* kind and the input of its task, or none of them carries a field that an *)
(* old PSP does not know, a deadline included (validateOutbox routes by    *)
(* four of the five fields, validateLegacyTaskResults refuses the fifth).  *)
SchemasNeverMix ==
  verdict = "ok" /\ schema # "task" =>
    \/ \A k \in 1..Len(list) : list[k].kind # "" /\ list[k].digest # ""
    \/ \A k \in 1..Len(list) : ~LooksDurable(list[k]) /\ list[k].notAfterMS = 0
=============================================================================
