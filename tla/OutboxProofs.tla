---------------------------- MODULE OutboxProofs ----------------------------
(***************************************************************************)
(* What an accepted list of tasks or results is known to be, for lists of  *)
(* any length and any budget.  The loop's invariant is that every entry it *)
(* has gone past passed the test of the schema it was routed to and that   *)
(* total is what they weigh together; that the two tests of results        *)
(* exclude each other then gives the theorem on the schemas.  A verdict is *)
(* right in both directions: what weighs too much up to some entry weighs  *)
(* too much as a whole, and a list refused under the schema it was routed  *)
(* to is not acceptable under the other one either.                        *)
(***************************************************************************)
EXTENDS Outbox, TLAPS, WellFoundedInduction

(* The bytes of a list up to each of its positions, as Bytes defines them. *)
IsWeights(entries, g) ==
  g = [k \in 0..Len(entries) |-> IF k = 0 THEN 0 ELSE g[k - 1] + entries[k].size]
Weights(entries) == CHOOSE g : IsWeights(entries, g)

Progress ==
  /\ schema = "unread" => i = 0 /\ verdict = "none"
  /\ schema # "unread" => \A k \in 1..i : Entry(schema, list[k]) /\ list[k].size <= MaxBytes
  /\ \A j, k \in 1..i : list[j].id = list[k].id => j = k
  /\ i > 0 => Len(list) <= MaxEntries
  /\ total = Weights(list)[i]

(* The validator of results is the one the list as a whole calls for.      *)
Routed == schema \in {"durable", "legacy"} => schema = ResultSchema(list)

Judged ==
  /\ verdict = "ok" => i = Len(list) /\ Len(list) <= MaxEntries
  /\ verdict = "refused" =>
       \/ Len(list) > MaxEntries
       \/ i < Len(list) /\ ~Passes(list[i + 1])

Sized ==
  /\ Len(list) \in Nat
  /\ \A k \in 1..Len(list) : list[k].size \in Nat

IInv == TypeOK /\ Sized /\ Progress /\ Routed /\ Judged /\ BudgetNeverOverdrawn

-----------------------------------------------------------------------------
(* Sums of bytes. *)

(* What holds of 0 and of the successor of every number it holds of, holds *)
(* of every number: a least exception would have a predecessor.            *)
LEMMA NatSetInduction ==
  ASSUME NEW S, 0 \in S, \A n \in Nat : n \in S => n + 1 \in S
  PROVE  \A n \in Nat : n \in S
<1> SUFFICES ASSUME NEW m \in Nat, m \notin S PROVE FALSE
  OBVIOUS
<1> DEFINE T == {n \in Nat : n \notin S}
<1>1. PICK x \in T : \A y \in T : ~(y < x)
  <2>1. \E x \in T : \A y \in T : <<y, x>> \notin OpToRel(<, Nat)
    BY WFMin, NatLessThanWellFounded, Zenon
  <2> QED BY <2>1 DEF OpToRel
<1>2. x # 0
  BY <1>1
<1>3. x - 1 \in Nat /\ x - 1 < x /\ x = (x - 1) + 1
  BY <1>1, <1>2
<1>4. x - 1 \in S
  BY <1>1, <1>3
<1> HIDE DEF T
<1> QED BY <1>1, <1>3, <1>4 DEF T

Weighable(entries) ==
  Len(entries) \in Nat /\ \A k \in 1..Len(entries) : entries[k].size \in Nat

(* Up to every position there is a weight, and each entry adds its size.   *)
LEMMA WeightsExist ==
  ASSUME NEW entries, Weighable(entries)
  PROVE  /\ Weights(entries)[0] = 0
         /\ \A k \in 1..Len(entries) :
              Weights(entries)[k] = Weights(entries)[k - 1] + entries[k].size
         /\ \A k \in 0..Len(entries) : Weights(entries)[k] \in Nat
<1> DEFINE size == [k \in 1..Len(entries) |-> entries[k].size]
           UpTo(n) == {g \in [0..n -> Nat] :
                         \A k \in 0..n : g[k] = IF k = 0 THEN 0 ELSE g[k - 1] + size[k]}
           S == {n \in Nat : n <= Len(entries) => UpTo(n) # {}}
<1>1. Len(entries) \in Nat /\ size \in [1..Len(entries) -> Nat]
  BY DEF Weighable
<1> HIDE DEF size
<1>2. 0 \in S
  <2>1. [k \in 0..0 |-> 0] \in UpTo(0)
    OBVIOUS
  <2> QED BY <2>1
<1>3. ASSUME NEW n \in Nat, n \in S PROVE n + 1 \in S
  <2> SUFFICES ASSUME n + 1 <= Len(entries) PROVE UpTo(n + 1) # {}
    <3> HIDE DEF UpTo
    <3> QED OBVIOUS
  <2>0. n <= Len(entries)
    BY <1>1
  <2>1. PICK g \in UpTo(n) : TRUE
    BY <1>3, <2>0, Zenon
  <2> DEFINE h == [k \in 0..(n + 1) |-> IF k = n + 1 THEN g[n] + size[n + 1] ELSE g[k]]
  <2>2. g \in [0..n -> Nat] /\ \A k \in 0..n : g[k] = IF k = 0 THEN 0 ELSE g[k - 1] + size[k]
    BY <2>1
  <2>3. n \in 0..n /\ size[n + 1] \in Nat
    BY <1>1
  <2>4. h \in [0..(n + 1) -> Nat]
    <3> SUFFICES ASSUME NEW k \in 0..(n + 1) PROVE h[k] \in Nat
      OBVIOUS
    <3> QED BY <2>2, <2>3
  <2>5. ASSUME NEW k \in 0..(n + 1)
        PROVE  h[k] = IF k = 0 THEN 0 ELSE h[k - 1] + size[k]
    <3>1. CASE k = n + 1
      BY <2>2, <3>1
    <3>2. CASE k # n + 1
      <4>1. k \in 0..n /\ h[k] = g[k] /\ (k # 0 => k - 1 \in 0..(n + 1) /\ k - 1 # n + 1)
        BY <3>2
      <4> QED BY <2>2, <4>1
    <3> QED BY <3>1, <3>2
  <2>6. h \in UpTo(n + 1)
    BY <2>4, <2>5
  <2> QED BY <2>6
<1> HIDE DEF S
<1>4. Len(entries) \in S
  BY <1>1, <1>2, <1>3, NatSetInduction
<1>5. PICK g \in UpTo(Len(entries)) : TRUE
  BY <1>1, <1>4 DEF S
<1>6. /\ g \in [0..Len(entries) -> Nat]
      /\ \A k \in 0..Len(entries) : g[k] = IF k = 0 THEN 0 ELSE g[k - 1] + size[k]
  BY <1>5
<1>7. IsWeights(entries, g)
  <2>1. g = [k \in 0..Len(entries) |-> IF k = 0 THEN 0 ELSE g[k - 1] + size[k]]
    BY <1>6
  <2>2. \A k \in 0..Len(entries) : k # 0 => size[k] = entries[k].size
    BY <1>1 DEF size
  <2>3. \A k \in 0..Len(entries) : (IF k = 0 THEN 0 ELSE g[k - 1] + size[k])
                                   = (IF k = 0 THEN 0 ELSE g[k - 1] + entries[k].size)
    BY <2>2, Zenon
  <2> QED BY <2>1, <2>3, Zenon DEF IsWeights
<1>8. IsWeights(entries, Weights(entries))
  BY <1>7, Zenon DEF Weights
<1> DEFINE w == Weights(entries)
<1>9. \A k \in 0..Len(entries) : w[k] = IF k = 0 THEN 0 ELSE w[k - 1] + entries[k].size
  BY <1>8 DEF IsWeights
<1>10. w[0] = 0
  BY <1>1, <1>9
<1>11. \A k \in 1..Len(entries) : w[k] = w[k - 1] + entries[k].size
  BY <1>1, <1>9
<1> HIDE DEF w
<1> DEFINE R == {n \in Nat : n <= Len(entries) => w[n] \in Nat}
<1>12. 0 \in R
  BY <1>10
<1>13. ASSUME NEW n \in Nat, n \in R PROVE n + 1 \in R
  <2> SUFFICES ASSUME n + 1 <= Len(entries) PROVE w[n + 1] \in Nat
    OBVIOUS
  <2>1. n + 1 \in 1..Len(entries) /\ (n + 1) - 1 = n /\ w[n] \in Nat
    BY <1>1, <1>13
  <2>2. w[n + 1] = w[n] + entries[n + 1].size /\ entries[n + 1].size \in Nat
    BY <1>11, <2>1 DEF Weighable
  <2> QED BY <2>1, <2>2
<1> HIDE DEF R
<1>14. \A n \in Nat : n \in R
  BY <1>12, <1>13, NatSetInduction
<1>15. \A k \in 0..Len(entries) : w[k] \in Nat
  BY <1>1, <1>14 DEF R
<1> QED BY <1>10, <1>11, <1>15 DEF w

(* Further on in a list nothing weighs less.                               *)
LEMMA WeightsGrow ==
  ASSUME NEW entries, Weighable(entries), NEW k \in 0..Len(entries)
  PROVE  Weights(entries)[k] <= Weights(entries)[Len(entries)]
<1> DEFINE w == Weights(entries)
           S == {n \in Nat : k + n <= Len(entries) => w[k] <= w[k + n]}
<1>1. /\ Len(entries) \in Nat /\ k \in Nat
      /\ \A n \in 1..Len(entries) : w[n] = w[n - 1] + entries[n].size /\ entries[n].size \in Nat
      /\ \A n \in 0..Len(entries) : w[n] \in Nat
  BY WeightsExist DEF Weighable
<1> HIDE DEF w
<1>2. 0 \in S
  BY <1>1
<1>3. ASSUME NEW n \in Nat, n \in S PROVE n + 1 \in S
  <2> SUFFICES ASSUME k + (n + 1) <= Len(entries) PROVE w[k] <= w[k + (n + 1)]
    OBVIOUS
  <2>1. /\ k + (n + 1) \in 1..Len(entries) /\ k + n \in 0..Len(entries)
        /\ (k + (n + 1)) - 1 = k + n /\ w[k] <= w[k + n]
    BY <1>1, <1>3
  <2>2. /\ w[k + (n + 1)] = w[k + n] + entries[k + (n + 1)].size
        /\ entries[k + (n + 1)].size \in Nat
        /\ w[k] \in Nat /\ w[k + n] \in Nat
    BY <1>1, <2>1
  <2> QED BY <2>1, <2>2
<1> HIDE DEF S
<1>4. \A n \in Nat : n \in S
  BY <1>2, <1>3, NatSetInduction
<1>5. Len(entries) - k \in Nat /\ k + (Len(entries) - k) = Len(entries)
  BY <1>1
<1>6. Len(entries) - k \in S
  BY <1>4, <1>5
<1> QED BY <1>5, <1>6 DEF S, w

(* Bytes is the weight at the end of the list.                             *)
LEMMA BytesAreWeights ==
  ASSUME NEW entries PROVE Bytes(entries) = Weights(entries)[Len(entries)]
BY Zenon DEF Bytes, Weights, IsWeights

-----------------------------------------------------------------------------
(* The invariant, step by step. *)

(* Before the first entry nothing is counted or remembered.                *)
LEMMA InitIInv == Init => IInv
<1> SUFFICES ASSUME Init PROVE IInv
  OBVIOUS
<1>1. Sized
  BY ListsAssumption DEF Init, Sized
<1>2. {list[k].id : k \in 1..i} = {}
  BY DEF Init
<1>3. TypeOK
  BY <1>1, <1>2 DEF Init, TypeOK, Sized
<1>4. Weights(list)[0] = 0
  BY <1>1, WeightsExist DEF Sized, Weighable
<1>5. Progress /\ Routed /\ Judged /\ BudgetNeverOverdrawn
  BY <1>4, BudgetAssumption DEF Init, Progress, Routed, Judged, BudgetNeverOverdrawn
<1> QED BY <1>1, <1>3, <1>5 DEF IInv

(* An entry that is taken fits in what is left of the budget, and joins    *)
(* the entries that passed.                                                *)
LEMMA TakeKeepsIInv ==
  ASSUME IInv, Take
  PROVE  IInv'
<1> DEFINE e == list[i + 1]
<1>1. /\ schema # "unread" /\ verdict = "none" /\ i < Len(list) /\ Len(list) <= MaxEntries
      /\ Entry(schema, e) /\ Fits(e.size, total) /\ e.id \notin seen
      /\ total' = total + e.size /\ seen' = seen \cup {e.id} /\ i' = i + 1
      /\ UNCHANGED <<list, schema, verdict>>
  BY DEF Take, Validating, Passes
<1>2. /\ Len(list) \in Nat /\ i \in 0..Len(list) /\ total \in Nat
      /\ seen = {list[k].id : k \in 1..i}
  BY DEF IInv, TypeOK, Sized
<1>3. i + 1 \in 1..Len(list) /\ 1..(i + 1) = 1..i \cup {i + 1}
  BY <1>1, <1>2
<1>4. e.size \in Nat
  BY <1>3 DEF IInv, Sized
<1>5. total' \in Nat /\ BudgetNeverOverdrawn'
  <2>1. e.size <= MaxTotalBytes - total /\ total' = total + e.size
    BY <1>1 DEF Fits
  <2> HIDE DEF e
  <2>2. total' \in Nat /\ total' <= MaxTotalBytes
    BY <1>2, <1>4, <2>1, BudgetAssumption
  <2> QED BY <2>2 DEF BudgetNeverOverdrawn
<1>6. seen' = {list'[k].id : k \in 1..i'}
  <2>1. seen' = {list[k].id : k \in 1..i} \cup {list[i + 1].id}
    BY <1>1, <1>2
  <2> QED BY <2>1, <1>1, <1>3
<1>7. Progress'
  <2>1. \A k \in 1..(i + 1) : Entry(schema, list[k]) /\ list[k].size <= MaxBytes
    BY <1>1, <1>3 DEF IInv, Progress, Fits
  <2>2. \A j, k \in 1..(i + 1) : list[j].id = list[k].id => j = k
    <3>1. \A k \in 1..i : list[k].id # list[i + 1].id
      BY <1>1, <1>2
    <3>2. \A j, k \in 1..i : list[j].id = list[k].id => j = k
      BY DEF IInv, Progress
    <3> QED BY <1>3, <3>1, <3>2
  <2>3. total' = Weights(list)[i + 1]
    <3>1. Weights(list)[i + 1] = Weights(list)[(i + 1) - 1] + list[i + 1].size
      BY <1>3, WeightsExist DEF IInv, Sized, Weighable
    <3>2. (i + 1) - 1 = i
      BY <1>2
    <3> QED BY <1>1, <3>1, <3>2 DEF IInv, Progress
  <2> QED BY <1>1, <2>1, <2>2, <2>3 DEF Progress
<1>8. TypeOK' /\ Sized' /\ Routed' /\ Judged'
  BY <1>1, <1>2, <1>3, <1>5, <1>6 DEF IInv, TypeOK, Sized, Routed, Judged
<1> QED BY <1>5, <1>7, <1>8 DEF IInv

(* Every step of a validator preserves the invariant.                      *)
LEMMA NextIInv == IInv /\ [Next]_vars => IInv'
<1> SUFFICES ASSUME IInv, [Next]_vars PROVE IInv'
  OBVIOUS
<1> USE DEF IInv, TypeOK, Sized, BudgetNeverOverdrawn
<1>1. CASE Route
  <2>1. schema' \in {"durable", "legacy"} /\ i' = 0 /\ verdict' = "none"
        /\ schema' = ResultSchema(list) /\ verdict = "none" /\ i = 0
        /\ UNCHANGED <<list, seen, total, i>>
    BY <1>1 DEF Route, ResultSchema, Progress
  <2>2. Progress' /\ Routed' /\ Judged'
    BY <2>1 DEF Progress, Routed, Judged, ResultSchema
  <2> QED BY <2>1, <2>2
<1>2. CASE TooMany
  BY <1>2 DEF TooMany, Validating, Progress, Routed, ResultSchema, Judged
<1>3. CASE Refuse
  <2>1. /\ schema # "unread" /\ i < Len(list) /\ ~Passes(list[i + 1]) /\ verdict' = "refused"
        /\ UNCHANGED <<list, schema, i, seen, total>>
    BY <1>3 DEF Refuse, Validating
  <2>2. Judged'
    BY <2>1 DEF Judged, Passes
  <2>3. Progress' /\ Routed'
    BY <2>1 DEF Progress, Routed, ResultSchema
  <2> QED BY <2>1, <2>2, <2>3
<1>4. CASE Take
  BY <1>4, TakeKeepsIInv
<1>5. CASE Accept
  BY <1>5 DEF Accept, Validating, Progress, Routed, ResultSchema, Judged
<1>6. CASE UNCHANGED vars
  BY <1>6 DEF vars, Progress, Routed, ResultSchema, Judged, Passes
<1> QED BY <1>1, <1>2, <1>3, <1>4, <1>5, <1>6 DEF Next

(* The loop invariant of the three validators.                             *)
THEOREM Invariance == Spec => []IInv
<1>1. Init => IInv BY InitIInv
<1>2. IInv /\ [Next]_vars => IInv' BY NextIInv
<1> QED BY <1>1, <1>2, PTL DEF Spec

(* The ids remembered are those of the entries gone past, at every step of *)
(* ValidateTasks, ValidateTaskResults and validateLegacyTaskResults.       *)
THEOREM TypeCorrect == Spec => []TypeOK
<1>1. IInv => TypeOK BY DEF IInv
<1> QED BY <1>1, Invariance, PTL

(* For every budget and every list, the aggregate budget is never          *)
(* overdrawn (the subtraction in the three validators).                    *)
THEOREM BudgetKept == Spec => []BudgetNeverOverdrawn
<1>1. IInv => BudgetNeverOverdrawn BY DEF IInv
<1> QED BY <1>1, Invariance, PTL

(* What passed the test of its schema is of that schema.                   *)
LEMMA AcceptedIsOneSchema ==
  ASSUME IInv
  PROVE  SchemasNeverMix
<1> SUFFICES ASSUME verdict = "ok", schema # "task"
             PROVE  \/ \A k \in 1..Len(list) : list[k].kind # "" /\ list[k].digest # ""
                    \/ \A k \in 1..Len(list) : ~LooksDurable(list[k])
                                                /\ list[k].notAfterMS = 0
  BY DEF SchemasNeverMix
<1>1. schema \in {"durable", "legacy"}
  BY DEF IInv, TypeOK, Progress, Judged
<1>2. \A k \in 1..Len(list) : Entry(schema, list[k])
  BY <1>1 DEF IInv, Progress, Judged
<1>3. CASE schema = "durable"
  <2>1. \A k \in 1..Len(list) : DurableEntry(list[k])
    BY <1>2, <1>3 DEF Entry
  <2> QED BY <2>1 DEF DurableEntry, WellFormedKind
<1>4. CASE schema = "legacy"
  <2>1. \A k \in 1..Len(list) : LegacyEntry(list[k])
    BY <1>2, <1>4 DEF Entry
  <2> QED BY <2>1 DEF LegacyEntry, LooksDurable
<1> QED BY <1>1, <1>3, <1>4

(* An accepted report has results of one schema only, however long the     *)
(* list is and whichever of its results made the routing decision          *)
(* (validateOutbox).                                                       *)
THEOREM OneSchema == Spec => []SchemasNeverMix
<1>1. IInv => SchemasNeverMix BY AcceptedIsOneSchema
<1> QED BY <1>1, Invariance, PTL

(* A list of results that one validator may take is refused by the other   *)
(* whole (DurableEntry asks for a kind, LegacyEntry for none), so routing  *)
(* decides nothing the contents do not decide.                             *)
LEMMA RoutingIsNoChoice ==
  ASSUME NEW results, Len(results) \in Nat,
         NEW k \in 1..Len(results)
  PROVE  /\ ResultSchema(results) = "durable" => ~Acceptable("legacy", results)
         /\ ResultSchema(results) = "legacy" => ~Acceptable("durable", results)
<1>1. ASSUME ResultSchema(results) = "durable" PROVE ~Acceptable("legacy", results)
  <2>1. PICK j \in 1..Len(results) : LooksDurable(results[j])
    BY <1>1 DEF ResultSchema
  <2>2. ~LegacyEntry(results[j])
    BY <2>1 DEF LegacyEntry, LooksDurable
  <2> QED BY <2>2 DEF Acceptable, Entry
<1>2. ASSUME ResultSchema(results) = "legacy" PROVE ~Acceptable("durable", results)
  <2>1. ~LooksDurable(results[k])
    BY <1>2 DEF ResultSchema
  <2>2. ~DurableEntry(results[k])
    BY <2>1 DEF DurableEntry, WellFormedKind, LooksDurable
  <2> QED BY <2>2 DEF Acceptable, Entry
<1> QED BY <1>1, <1>2

(* An entry that does not pass makes the whole list unacceptable: its own  *)
(* test, its id and its weight do not depend on where in the list it is.   *)
LEMMA RefusalIsFinal ==
  ASSUME IInv, schema # "unread", i < Len(list), ~Passes(list[i + 1])
  PROVE  ~Acceptable(schema, list)
<1> SUFFICES ASSUME Acceptable(schema, list) PROVE FALSE
  OBVIOUS
<1>1. /\ Len(list) \in Nat /\ i \in 0..Len(list) /\ total \in Nat
      /\ seen = {list[k].id : k \in 1..i} /\ total = Weights(list)[i] /\ Weighable(list)
  BY DEF IInv, TypeOK, Sized, Progress, Weighable
<1>2. i + 1 \in 1..Len(list) /\ i + 1 \in 0..Len(list) /\ (i + 1) - 1 = i
  BY <1>1
<1>3. Entry(schema, list[i + 1]) /\ list[i + 1].size <= MaxBytes
  BY <1>2 DEF Acceptable
<1>4. list[i + 1].id \notin seen
  <2>1. \A k \in 1..i : k \in 1..Len(list) /\ k # i + 1
    BY <1>1
  <2>2. \A k \in 1..i : list[k].id # list[i + 1].id
    BY <1>2, <2>1 DEF Acceptable
  <2> QED BY <1>1, <2>2
<1>5. list[i + 1].size <= MaxTotalBytes - total
  <2>1. Weights(list)[i + 1] = total + list[i + 1].size
    BY <1>1, <1>2, WeightsExist
  <2>2. Weights(list)[i + 1] <= Weights(list)[Len(list)]
    BY <1>1, <1>2, WeightsGrow
  <2>3. Weights(list)[Len(list)] <= MaxTotalBytes
    BY BytesAreWeights DEF Acceptable
  <2>4. Len(list) \in 0..Len(list)
    BY <1>1
  <2>5. Weights(list)[Len(list)] \in Nat
    BY <1>1, <2>4, WeightsExist
  <2>6. list[i + 1].size \in Nat
    BY <1>1, <1>2 DEF Weighable
  <2> QED BY <1>1, <2>1, <2>2, <2>3, <2>5, <2>6, BudgetAssumption
<1> QED BY <1>3, <1>4, <1>5 DEF Passes, Fits

(* An accepted list passed its tests, and one that was refused is not      *)
(* acceptable under any schema.                                            *)
LEMMA VerdictsAreDeserved ==
  ASSUME IInv
  PROVE  VerdictIsReference
<1>1. ASSUME IInv, verdict = "ok" PROVE AnyAcceptable
  <2>1. /\ i = Len(list) /\ Len(list) <= MaxEntries /\ schema \in {"task", "durable", "legacy"}
        /\ \A k \in 1..Len(list) : Entry(schema, list[k]) /\ list[k].size <= MaxBytes
        /\ \A j, k \in 1..Len(list) : list[j].id = list[k].id => j = k
        /\ total = Weights(list)[Len(list)]
    BY <1>1 DEF IInv, TypeOK, Progress, Judged
  <2>2. Bytes(list) <= MaxTotalBytes
    BY <1>1, <2>1, BytesAreWeights DEF IInv, BudgetNeverOverdrawn
  <2>3. Acceptable(schema, list)
    BY <2>1, <2>2 DEF Acceptable
  <2> QED BY <2>1, <2>3 DEF AnyAcceptable
<1>2. ASSUME IInv, verdict = "refused" PROVE ~AnyAcceptable
  <2>1. CASE Len(list) > MaxEntries
    BY <1>2, <2>1, BudgetAssumption DEF AnyAcceptable, Acceptable, IInv, Sized
  <2>2. CASE i < Len(list) /\ ~Passes(list[i + 1])
    <3>1. schema \in {"task", "durable", "legacy"}
      BY <1>2 DEF IInv, TypeOK, Progress
    <3>2. ~Acceptable(schema, list)
      BY <1>2, <2>2, <3>1, RefusalIsFinal
    <3>3. Len(list) \in Nat /\ i + 1 \in 1..Len(list)
      BY <1>2, <2>2 DEF IInv, TypeOK, Sized
    <3>4. schema \in {"durable", "legacy"} => schema = ResultSchema(list)
      BY <1>2 DEF IInv, Routed
    <3> QED BY <3>1, <3>2, <3>3, <3>4, RoutingIsNoChoice DEF AnyAcceptable
  <2> QED BY <1>2, <2>1, <2>2 DEF IInv, Judged
<1> QED BY <1>1, <1>2 DEF VerdictIsReference

(* A verdict is what the list as a whole deserves, in both directions, for *)
(* lists of any length (ValidateTasks, ValidateTaskResults,                *)
(* validateLegacyTaskResults, validateOutbox).                             *)
THEOREM VerdictIsExact == Spec => []VerdictIsReference
<1>1. IInv => VerdictIsReference BY VerdictsAreDeserved
<1> QED BY <1>1, Invariance, PTL
=============================================================================
