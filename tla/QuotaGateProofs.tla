-------------------------- MODULE QuotaGateProofs --------------------------
(***************************************************************************)
(* Proofs about QuotaGate for every quota, grant, clock, number of lost    *)
(* messages and restarts of the core.                                      *)
(*                                                                         *)
(* The argument: a counter that PSP has processed, that is in flight and   *)
(* that the node has now are in order as long as they are of one epoch,    *)
(* and the epochs are in order (Ordered).  So PSP never subtracts across   *)
(* an epoch, and one answer adds to what it knows just what it adds to one *)
(* term of the sum (Accounted).  Of what passed since the node adopted a   *)
(* directive, the directive itself bounds what came before the grant was   *)
(* taken, and the grant what came after; it is taken once, because taking  *)
(* it clears it (Silent).  And as long as counter and clock are sound,     *)
(* every directive of the first period, in force or in flight, reaches up  *)
(* to the quota and no further (FirstPeriod).                              *)
(***************************************************************************)
EXTENDS QuotaGate, TLAPS, WellFoundedInduction

-----------------------------------------------------------------------------
(* The inductive invariant. *)

Entries == [baselineBytes : Nat, headroomBytes : Nat \cup {Nil},
            periodEndsAtMS : {0, PeriodEnd}, nextPeriodHeadroomBytes : NextGrants \cup {Nil}]

TypeOK ==
  /\ time \in Nat /\ skew \in Nat
  /\ plan \in [endsAt : {0, PeriodEnd}, next : NextGrants]
  /\ account \in [counter : Nat, epoch : Nat, known : Nat, base : Nat]
  /\ counter \in Nat /\ epoch \in Nat /\ total \in Nat
  /\ entry \in Entries /\ enabled \in BOOLEAN
  /\ exchange \in [phase : {"idle", "report", "reply"}, counter : Nat, epoch : Nat,
                   entry : Entries, enabled : BOOLEAN]
  /\ bounds \in [restarts : Nat, steps : Nat, ahead : BOOLEAN]
  /\ seen \in [0..MaxRestarts -> Nat]
  /\ since \in [entry : Entries, counter : Nat, passed : Nat, after : Nat, latest : Nat,
                restarted : BOOLEAN]

(* A directive says what is left, from a baseline on. *)
Configured(q) == q.headroomBytes # Nil

Ordered ==
  /\ epoch = bounds.restarts /\ epoch <= MaxRestarts
  /\ account.epoch <= epoch
  /\ account.epoch = epoch => account.counter <= counter
  /\ exchange.phase # "idle" =>
       /\ exchange.epoch <= epoch
       /\ exchange.epoch = epoch => exchange.counter <= counter
       /\ account.epoch <= exchange.epoch
       /\ account.epoch = exchange.epoch => account.counter <= exchange.counter
  /\ exchange.phase = "reply" =>
       Configured(exchange.entry) /\ exchange.entry.baselineBytes = exchange.counter
  /\ Configured(entry) /\ Configured(since.entry)

Accounted ==
  /\ account.counter = seen[account.epoch]
  /\ \A e \in 0..MaxRestarts : e > account.epoch => seen[e] = 0
  /\ AccountingExact

(* What the directive adopted last left then, and whether it is a grant.   *)
LeftThen  == LET q == since.entry
             IN Larger(0, q.baselineBytes + q.headroomBytes - since.counter)
Scheduled == since.entry.periodEndsAtMS > 0 /\ since.entry.nextPeriodHeadroomBytes # Nil

Silent ==
  /\ Clock <= since.latest
  /\ ~since.restarted =>
       /\ counter = since.counter + since.passed
       /\ since.entry.baselineBytes <= since.counter
       /\ \/ /\ entry = since.entry /\ since.passed <= LeftThen
             /\ Scheduled => since.after = 0
          \/ /\ Scheduled /\ since.entry.periodEndsAtMS <= since.latest
             /\ entry = Refreshed(since.entry, entry.baselineBytes)
             /\ entry.baselineBytes \in since.counter..counter
             /\ entry.baselineBytes <= since.counter + LeftThen
             /\ counter <= entry.baselineBytes + entry.headroomBytes
             /\ since.after <= counter - entry.baselineBytes

UpToQuota(q) == q.baselineBytes + q.headroomBytes = Quota

FirstPeriod ==
  /\ ~bounds.ahead => skew = 0
  /\ account.base # 0 => PeriodEnd <= time
  /\ bounds.restarts = 0 => counter = total /\ account.known = account.counter
  /\ bounds.restarts = 0 /\ ~bounds.ahead /\ time < PeriodEnd =>
       /\ total <= Quota
       /\ UpToQuota(entry) /\ entry.baselineBytes <= counter
       /\ exchange.phase = "reply" => UpToQuota(exchange.entry)

IInv == TypeOK /\ Ordered /\ Accounted /\ Silent /\ FirstPeriod

-----------------------------------------------------------------------------
(* Sums over the epochs. *)

(* What holds of 0 and of the successor of every number it holds of, holds *)
(* of every number: a least exception would have a predecessor.            *)
LEMMA NatSetInduction ==
  ASSUME NEW S, 0 \in S, \A n \in Nat : n \in S => n + 1 \in S
  PROVE  \A n \in Nat : n \in S
<1> SUFFICES ASSUME NEW m \in Nat, m \notin S PROVE FALSE
  OBVIOUS
<1> DEFINE T == {n \in Nat : n \notin S}
<1>1. PICK x \in T : \A y \in T : ~(y < x)
  <2>1. \E x \in T : \A y \in T : <<y, x>> \notin OpToRel(<, Nat)
    BY WFMin, NatLessThanWellFounded, Zenon
  <2> QED BY <2>1 DEF OpToRel
<1>2. x # 0
  BY <1>1
<1>3. x - 1 \in Nat /\ x - 1 < x /\ x = (x - 1) + 1
  BY <1>1, <1>2
<1>4. x - 1 \in S
  BY <1>1, <1>3
<1> HIDE DEF T
<1> QED BY <1>1, <1>3, <1>4 DEF T

Epochs == 0..MaxRestarts

(* The sum of the epochs up to one, as AccountingExact defines it.         *)
IsSums(f, g) == g = [e \in Epochs |-> f[e] + IF e = 0 THEN 0 ELSE g[e - 1]]
Sums(f) == CHOOSE g : IsSums(f, g)

(* The running sums of a function over the epochs exist.                   *)
LEMMA SumsExist ==
  ASSUME NEW f \in [Epochs -> Int]
  PROVE  /\ IsSums(f, Sums(f))
         /\ \A e \in Epochs : /\ Sums(f)[e] \in Int
                             /\ Sums(f)[e] = f[e] + IF e = 0 THEN 0 ELSE Sums(f)[e - 1]
<1> DEFINE UpTo(n) == {g \in [0..n -> Int] :
                         \A e \in 0..n : g[e] = f[e] + IF e = 0 THEN 0 ELSE g[e - 1]}
           S == {n \in Nat : n <= MaxRestarts => UpTo(n) # {}}
<1>1. 0 \in S
  <2>1. [e \in 0..0 |-> f[0]] \in UpTo(0)
    BY QuotaAssumption DEF Epochs
  <2> QED BY <2>1
<1>2. ASSUME NEW n \in Nat, n \in S PROVE n + 1 \in S
  <2> SUFFICES ASSUME n + 1 <= MaxRestarts PROVE UpTo(n + 1) # {}
    OBVIOUS
  <2>1. PICK g \in UpTo(n) : TRUE
    BY <1>2, QuotaAssumption
  <2> DEFINE h == [e \in 0..(n + 1) |-> IF e = n + 1 THEN f[n + 1] + g[n] ELSE g[e]]
  <2>2. g \in [0..n -> Int] /\ \A e \in 0..n : g[e] = f[e] + IF e = 0 THEN 0 ELSE g[e - 1]
    BY <2>1
  <2>3. n \in 0..n /\ f[n + 1] \in Int /\ \A e \in 0..n : f[e] \in Int
    BY QuotaAssumption DEF Epochs
  <2>4. h \in [0..(n + 1) -> Int]
    <3> SUFFICES ASSUME NEW e \in 0..(n + 1) PROVE h[e] \in Int
      OBVIOUS
    <3> QED BY <2>2, <2>3
  <2>5. ASSUME NEW e \in 0..(n + 1)
        PROVE  h[e] = f[e] + IF e = 0 THEN 0 ELSE h[e - 1]
    <3>1. CASE e = n + 1
      BY <2>2, <3>1
    <3>2. CASE e # n + 1
      <4>1. e \in 0..n /\ h[e] = g[e] /\ (e # 0 => e - 1 \in 0..(n + 1) /\ e - 1 # n + 1)
        BY <3>2
      <4> QED BY <2>2, <4>1
    <3> QED BY <3>1, <3>2
  <2>6. h \in UpTo(n + 1)
    BY <2>4, <2>5
  <2> QED BY <2>6
<1> HIDE DEF S
<1>3. MaxRestarts \in S
  BY <1>1, <1>2, NatSetInduction, QuotaAssumption
<1>4. PICK g \in UpTo(MaxRestarts) : TRUE
  BY <1>3, QuotaAssumption DEF S
<1>5. /\ g \in [Epochs -> Int]
      /\ \A e \in Epochs : g[e] = f[e] + IF e = 0 THEN 0 ELSE g[e - 1]
  BY <1>4 DEF Epochs
<1>6. IsSums(f, g)
  BY <1>5 DEF IsSums
<1>7. IsSums(f, Sums(f))
  BY <1>6, Zenon DEF Sums
<1>8. ASSUME NEW e \in Epochs
      PROVE  Sums(f)[e] = f[e] + IF e = 0 THEN 0 ELSE Sums(f)[e - 1]
  BY <1>7 DEF IsSums
<1> DEFINE R == {n \in Nat : n <= MaxRestarts => Sums(f)[n] \in Int}
<1>9. 0 \in R
  <2>1. 0 \in Epochs /\ f[0] \in Int
    BY QuotaAssumption DEF Epochs
  <2> QED BY <1>8, <2>1
<1>10. ASSUME NEW n \in Nat, n \in R PROVE n + 1 \in R
  <2> SUFFICES ASSUME n + 1 <= MaxRestarts PROVE Sums(f)[n + 1] \in Int
    OBVIOUS
  <2>1. n + 1 \in Epochs /\ f[n + 1] \in Int /\ Sums(f)[n] \in Int /\ (n + 1) - 1 = n /\ n + 1 # 0
    BY <1>10, QuotaAssumption DEF Epochs
  <2>2. Sums(f)[n + 1] = f[n + 1] + Sums(f)[n]
    BY <1>8, <2>1
  <2> QED BY <2>1, <2>2
<1> HIDE DEF R
<1>11. \A n \in Nat : n \in R
  BY <1>9, <1>10, NatSetInduction
<1>12. \A e \in Epochs : Sums(f)[e] \in Int
  BY <1>11 DEF R, Epochs
<1> QED BY <1>7, <1>8, <1>12

(* Where one epoch counts for more, so does the sum of all.                *)
LEMMA SumsShift ==
  ASSUME NEW f \in [Epochs -> Int], NEW k \in Epochs, NEW n \in Int
  PROVE  Sums([f EXCEPT ![k] = n])[MaxRestarts] = Sums(f)[MaxRestarts] + (n - f[k])
<1> DEFINE h == [f EXCEPT ![k] = n]
           S == {e \in Nat : e <= MaxRestarts =>
                   Sums(h)[e] = Sums(f)[e] + IF k <= e THEN n - f[k] ELSE 0}
<1>1. h \in [Epochs -> Int] /\ h[k] = n /\ \A e \in Epochs \ {k} : h[e] = f[e]
  OBVIOUS
<1> HIDE DEF h
<1>2. /\ \A e \in Epochs : Sums(f)[e] = f[e] + IF e = 0 THEN 0 ELSE Sums(f)[e - 1]
      /\ \A e \in Epochs : Sums(h)[e] = h[e] + IF e = 0 THEN 0 ELSE Sums(h)[e - 1]
      /\ \A e \in Epochs : Sums(f)[e] \in Int /\ Sums(h)[e] \in Int
  BY <1>1, SumsExist
<1>3. k \in Nat /\ k <= MaxRestarts /\ f[k] \in Int /\ MaxRestarts \in Nat
  BY QuotaAssumption DEF Epochs
<1>4. 0 \in S
  <2>1. 0 \in Epochs /\ f[0] \in Int /\ h[0] \in Int
    BY <1>1, <1>3 DEF Epochs
  <2>2. Sums(f)[0] = f[0] /\ Sums(h)[0] = h[0]
    BY <1>2, <2>1
  <2>3. CASE k = 0
    BY <1>1, <1>3, <2>1, <2>2, <2>3
  <2>4. CASE k # 0
    BY <1>1, <1>3, <2>1, <2>2, <2>4
  <2> QED BY <2>3, <2>4
<1>5. ASSUME NEW e \in Nat, e \in S PROVE e + 1 \in S
  <2> SUFFICES ASSUME e + 1 <= MaxRestarts
               PROVE  Sums(h)[e + 1] = Sums(f)[e + 1] + IF k <= e + 1 THEN n - f[k] ELSE 0
    OBVIOUS
  <2>1. /\ e \in Epochs /\ e + 1 \in Epochs /\ e + 1 # 0 /\ (e + 1) - 1 = e
        /\ f[e + 1] \in Int /\ h[e + 1] \in Int
    BY <1>1, <1>3 DEF Epochs
  <2>2. /\ Sums(f)[e + 1] = f[e + 1] + Sums(f)[e] /\ Sums(h)[e + 1] = h[e + 1] + Sums(h)[e]
        /\ Sums(f)[e] \in Int /\ Sums(h)[e] \in Int
    BY <1>2, <2>1
  <2>3. Sums(h)[e] = Sums(f)[e] + IF k <= e THEN n - f[k] ELSE 0
    BY <1>3, <1>5
  <2>4. h[e + 1] = IF k = e + 1 THEN n ELSE f[e + 1]
    BY <1>1, <2>1
  <2> QED BY <1>3, <2>1, <2>2, <2>3, <2>4
<1> HIDE DEF S
<1>6. MaxRestarts \in S
  BY <1>3, <1>4, <1>5, NatSetInduction
<1> QED BY <1>3, <1>6 DEF S, h

(* Where nothing was counted, the sum is nothing.                          *)
LEMMA SumOfNothing == Sums([e \in Epochs |-> 0])[MaxRestarts] = 0
<1> DEFINE f == [e \in Epochs |-> 0]
           S == {n \in Nat : n <= MaxRestarts => Sums(f)[n] = 0}
<1>1. f \in [Epochs -> Int] /\ \A e \in Epochs : f[e] = 0
  OBVIOUS
<1> HIDE DEF f
<1>2. \A e \in Epochs : Sums(f)[e] = f[e] + IF e = 0 THEN 0 ELSE Sums(f)[e - 1]
  BY <1>1, SumsExist
<1>3. 0 \in S
  <2>1. 0 \in Epochs
    BY QuotaAssumption DEF Epochs
  <2> QED BY <1>1, <1>2, <2>1
<1>4. ASSUME NEW n \in Nat, n \in S PROVE n + 1 \in S
  <2> SUFFICES ASSUME n + 1 <= MaxRestarts PROVE Sums(f)[n + 1] = 0
    OBVIOUS
  <2>1. n + 1 \in Epochs /\ Sums(f)[n] = 0 /\ (n + 1) - 1 = n /\ n + 1 # 0
    BY <1>4, QuotaAssumption DEF Epochs
  <2>2. f[n + 1] = 0 /\ Sums(f)[n + 1] = f[n + 1] + Sums(f)[n]
    BY <1>1, <1>2, <2>1
  <2> QED BY <2>1, <2>2
<1> HIDE DEF S
<1>5. MaxRestarts \in S
  BY <1>3, <1>4, NatSetInduction, QuotaAssumption
<1> QED BY <1>5, QuotaAssumption DEF S, f

(* Exact accounting, as a sum over epochs.                                 *)
LEMMA AccountingIsSum == AccountingExact <=> account.known = Sums(seen)[MaxRestarts]
BY Zenon DEF AccountingExact, Sums, IsSums, Epochs

-----------------------------------------------------------------------------
(* The invariant, action by action. *)

(* The larger of two numbers.                                              *)
LEMMA LargerIsLarger ==
  \A a, b \in Int : Larger(a, b) \in Int /\ a <= Larger(a, b) /\ b <= Larger(a, b)
                      /\ Larger(a, b) \in {a, b}
BY DEF Larger

(* The constants, as the provers need them.                                *)
LEMMA Constants ==
  /\ Quota \in Nat /\ PeriodEnd \in Nat /\ PeriodEnd > 0 /\ MaxRestarts \in Nat
  /\ Nil \notin Nat /\ NextGrants \subseteq Nat \cup {Nil} /\ Skews \subseteq Nat
BY QuotaAssumption

(* A directive as the node may hold it, and the one it makes of it.        *)
LEMMA EntriesAreTyped ==
  ASSUME NEW q \in Entries
  PROVE  /\ q.baselineBytes \in Nat /\ (Configured(q) => q.headroomBytes \in Nat)
         /\ q.periodEndsAtMS \in Nat
         /\ q.nextPeriodHeadroomBytes # Nil => q.nextPeriodHeadroomBytes \in Nat
         /\ q.nextPeriodHeadroomBytes # Nil =>
              \A at \in Nat : /\ Refreshed(q, at) \in Entries /\ Configured(Refreshed(q, at))
                              /\ Refreshed(q, at).baselineBytes = at
                              /\ Refreshed(q, at).headroomBytes = q.nextPeriodHeadroomBytes
                              /\ Refreshed(q, at).periodEndsAtMS = 0
<1>1. /\ q.baselineBytes \in Nat /\ q.headroomBytes \in Nat \cup {Nil}
      /\ q.periodEndsAtMS \in {0, PeriodEnd} /\ q.nextPeriodHeadroomBytes \in NextGrants \cup {Nil}
  BY DEF Entries
<1>2. /\ q.periodEndsAtMS \in Nat
      /\ q.nextPeriodHeadroomBytes # Nil => q.nextPeriodHeadroomBytes \in Nat
  <2>1. 0 \in Nat /\ PeriodEnd \in Nat /\ NextGrants \subseteq Nat \cup {Nil}
    BY Constants
  <2> QED BY <1>1, <2>1
<1>3. ASSUME NEW at \in Nat, q.nextPeriodHeadroomBytes # Nil
      PROVE  /\ Refreshed(q, at) \in Entries /\ Configured(Refreshed(q, at))
             /\ Refreshed(q, at).baselineBytes = at
             /\ Refreshed(q, at).headroomBytes = q.nextPeriodHeadroomBytes
             /\ Refreshed(q, at).periodEndsAtMS = 0
  BY <1>2, <1>3 DEF Refreshed, Entries, Configured
<1> QED BY <1>1, <1>2, <1>3 DEF Configured

(* A directive that is minted is one the node may hold.                    *)
LEMMA MintedIsTyped ==
  ASSUME TypeOK, NEW at \in Nat, NEW left \in Nat, NEW scheduled \in BOOLEAN
  PROVE  LET q == Minted(at, left, scheduled) IN
         q \in Entries /\ Configured(q) /\ q.baselineBytes = at /\ q.headroomBytes = left
BY Constants DEF TypeOK, Minted, Entries, Configured

(* Before the first directive nothing has passed and nothing is known.     *)
LEMMA InitIInv == Init => IInv
<1> SUFFICES ASSUME Init PROVE IInv
  OBVIOUS
<1>1. /\ plan \in [endsAt : {0, PeriodEnd}, next : NextGrants] /\ time = 0 /\ skew \in Nat
      /\ account = [counter |-> 0, epoch |-> 0, known |-> 0, base |-> 0]
      /\ counter = 0 /\ epoch = 0 /\ enabled = TRUE /\ total = 0
      /\ exchange = Idle /\ bounds = [restarts |-> 0, steps |-> 0, ahead |-> skew > 0]
  BY Constants DEF Init
<1>2. /\ entry \in Entries /\ Configured(entry)
      /\ entry.baselineBytes = 0 /\ entry.headroomBytes = Quota
  <2>1. entry = [baselineBytes |-> 0, headroomBytes |-> Quota, periodEndsAtMS |-> plan.endsAt,
                 nextPeriodHeadroomBytes |-> plan.next]
    BY DEF Init, Minted
  <2> QED BY <1>1, <2>1, Constants DEF Entries, Configured
<1>3. /\ since \in [entry : Entries, counter : Nat, passed : Nat, after : Nat, latest : Nat,
                    restarted : BOOLEAN]
      /\ since.entry = entry /\ since.counter = 0 /\ since.passed = 0 /\ since.after = 0
      /\ since.latest = Clock
  <2>1. since = [entry |-> entry, counter |-> 0, passed |-> 0, after |-> 0, latest |-> Clock,
                 restarted |-> FALSE]
    BY DEF Init
  <2>2. Clock \in Nat
    BY <1>1 DEF Clock
  <2> QED BY <1>2, <2>1, <2>2
<1>4. /\ exchange \in [phase : {"idle", "report", "reply"}, counter : Nat, epoch : Nat,
                       entry : Entries, enabled : BOOLEAN]
      /\ exchange.phase = "idle"
  BY <1>1 DEF Idle, Entries
<1>5. seen = [e \in Epochs |-> 0]
  BY DEF Init, Epochs
<1>6. TypeOK
  <2>1. bounds \in [restarts : Nat, steps : Nat, ahead : BOOLEAN]
    BY <1>1
  <2>2. account \in [counter : Nat, epoch : Nat, known : Nat, base : Nat]
    BY <1>1
  <2> QED BY <1>1, <1>2, <1>3, <1>4, <1>5, <2>1, <2>2 DEF TypeOK, Epochs
<1>7. Ordered
  BY <1>1, <1>2, <1>3, <1>4, Constants DEF Ordered
<1>10. Accounted
  <2>1. AccountingExact
    BY <1>1, <1>5, AccountingIsSum, SumOfNothing
  <2> QED BY <1>1, <1>5, <2>1, Constants DEF Accounted, Epochs
<1>8. Silent
  BY <1>1, <1>2, <1>3, Constants DEF Silent, LeftThen, Larger, Clock
<1>9. FirstPeriod
  <2>1. bounds.ahead <=> skew > 0
    BY <1>1
  <2>2. ~bounds.ahead => skew = 0
    BY <1>1, <2>1
  <2> QED BY <1>1, <1>2, <1>4, <2>2, Constants DEF FirstPeriod, UpToQuota
<1> QED BY <1>6, <1>7, <1>8, <1>9, <1>10 DEF IInv

(* Nothing but an answer touches PSP's accounting.                         *)
LEMMA AccountStands ==
  ASSUME Accounted, UNCHANGED <<account, seen>>
  PROVE  Accounted'
BY DEF Accounted, AccountingExact

(* Time passes, or the clock is stepped; the node has seen it.             *)
LEMMA ClockKeepsIInv ==
  ASSUME IInv, Tick \/ \E s \in Skews : StepClock(s)
  PROVE  IInv'
<1> USE DEF IInv
<1>1. /\ time' \in Nat /\ time <= time' /\ skew' \in Nat
      /\ since' = [since EXCEPT !.latest = Larger(@, Clock')]
      /\ bounds' \in [restarts : Nat, steps : Nat, ahead : BOOLEAN]
      /\ bounds'.restarts = bounds.restarts
      /\ ~bounds'.ahead => ~bounds.ahead /\ skew' = skew
      /\ UNCHANGED <<plan, account, seen, counter, epoch, entry, enabled, total, exchange>>
  <2>1. CASE Tick
    <3>1. Clock' = Clock + 1
      BY <2>1 DEF Tick, Clock, TypeOK
    <3>2. /\ time' = time + 1 /\ since' = [since EXCEPT !.latest = Larger(@, Clock + 1)]
          /\ UNCHANGED <<skew, bounds, plan, account, seen, counter, epoch, entry, enabled, total,
                         exchange>>
      BY <2>1 DEF Tick, Noticed, pspVars
    <3>3. /\ time \in Nat /\ skew \in Nat
          /\ bounds \in [restarts : Nat, steps : Nat, ahead : BOOLEAN]
      BY DEF TypeOK
    <3> HIDE DEF IInv
    <3> QED BY <3>1, <3>2, <3>3
  <2>2. ASSUME NEW s \in Skews, StepClock(s)
        PROVE  /\ time' \in Nat /\ time <= time' /\ skew' \in Nat
               /\ since' = [since EXCEPT !.latest = Larger(@, Clock')]
               /\ bounds' \in [restarts : Nat, steps : Nat, ahead : BOOLEAN]
               /\ bounds'.restarts = bounds.restarts
               /\ ~bounds'.ahead => ~bounds.ahead /\ skew' = skew
               /\ UNCHANGED <<plan, account, seen, counter, epoch, entry, enabled, total, exchange>>
    <3>1. Clock' = time + s /\ s \in Nat
      BY <2>2, Constants DEF StepClock, Clock
    <3>2. /\ bounds' = [bounds EXCEPT !.steps = @ + 1, !.ahead = TRUE]
          /\ bounds \in [restarts : Nat, steps : Nat, ahead : BOOLEAN]
      BY <2>2 DEF StepClock, TypeOK
    <3>3. bounds' = [restarts |-> bounds.restarts, steps |-> bounds.steps + 1, ahead |-> TRUE]
      BY <3>2
    <3>4. bounds.restarts \in Nat /\ bounds.steps \in Nat
      BY DEF TypeOK
    <3>5. /\ bounds' \in [restarts : Nat, steps : Nat, ahead : BOOLEAN]
          /\ bounds'.restarts = bounds.restarts /\ bounds'.ahead
      BY <3>3, <3>4
    <3> QED BY <2>2, <3>1, <3>5 DEF StepClock, Noticed, TypeOK, pspVars
  <2> QED BY <2>1, <2>2
<1>2. /\ Clock' \in Nat /\ since.latest \in Nat
  <2>1. since \in [entry : Entries, counter : Nat, passed : Nat, after : Nat, latest : Nat,
                   restarted : BOOLEAN]
    BY DEF TypeOK
  <2> HIDE DEF IInv
  <2> QED BY <1>1, <2>1 DEF Clock
<1>3. /\ since'.latest \in Nat /\ Clock' <= since'.latest /\ since.latest <= since'.latest
      /\ since'.entry = since.entry /\ since'.counter = since.counter
      /\ since'.passed = since.passed /\ since'.after = since.after
      /\ since'.restarted = since.restarted
      /\ since' \in [entry : Entries, counter : Nat, passed : Nat, after : Nat, latest : Nat,
                     restarted : BOOLEAN]
  <2> DEFINE latest == Larger(since.latest, Clock')
  <2>1. latest \in Nat /\ Clock' <= latest /\ since.latest <= latest
    BY <1>2 DEF Larger
  <2> HIDE DEF latest
  <2>2. /\ since' = [since EXCEPT !.latest = latest]
        /\ since \in [entry : Entries, counter : Nat, passed : Nat, after : Nat, latest : Nat,
                      restarted : BOOLEAN]
    BY <1>1 DEF TypeOK, latest
  <2> QED BY <2>1, <2>2
<1>4. TypeOK'
  BY <1>1, <1>3 DEF TypeOK
<1>5. Ordered'
  BY <1>1, <1>3 DEF Ordered
<1>6. Accounted'
  BY <1>1, AccountStands
<1>7. Silent'
  <2>1. since.entry.periodEndsAtMS \in Nat
    BY EntriesAreTyped DEF TypeOK
  <2> QED BY <1>1, <1>2, <1>3, <2>1 DEF Silent, LeftThen, Scheduled
<1>8. FirstPeriod'
  <2>1. ~bounds'.ahead => skew' = 0
    BY <1>1 DEF FirstPeriod
  <2>2. time \in Nat /\ (account.base # 0 => PeriodEnd <= time)
    BY DEF FirstPeriod, TypeOK
  <2>3. FirstPeriod
    OBVIOUS
  <2> HIDE DEF IInv
  <2>4. account'.base # 0 => PeriodEnd <= time'
    BY <1>1, <2>2, Constants
  <2>5. time' < PeriodEnd => time < PeriodEnd
    BY <1>1, <2>2, Constants
  <2>6. bounds'.restarts = 0 => counter' = total' /\ account'.known = account'.counter
    BY <1>1, <2>3 DEF FirstPeriod
  <2>7. bounds'.restarts = 0 /\ ~bounds'.ahead /\ time' < PeriodEnd =>
          /\ total' <= Quota
          /\ UpToQuota(entry') /\ entry'.baselineBytes <= counter'
          /\ exchange'.phase = "reply" => UpToQuota(exchange'.entry)
    BY <1>1, <2>3, <2>5 DEF FirstPeriod
  <2> QED BY <2>1, <2>4, <2>6, <2>7 DEF FirstPeriod, UpToQuota
<1> QED BY <1>4, <1>5, <1>6, <1>7, <1>8

(* The grant is taken: by a byte at the gate, or without traffic.          *)
LEMMA ForceCases ==
  ASSUME TypeOK, Ordered, Silent
  PROVE  LET q == InForce(entry, counter, Clock) IN
         /\ q \in Entries /\ Configured(q)
         /\ q.baselineBytes <= counter \/ q = entry
         /\ time < PeriodEnd /\ skew = 0 => q = entry
         /\ ~since.restarted =>
              \/ /\ q = entry /\ entry = since.entry /\ since.passed <= LeftThen
                 /\ Scheduled => since.after = 0 /\ Clock < since.entry.periodEndsAtMS
              \/ /\ Scheduled /\ since.entry.periodEndsAtMS <= since.latest
                 /\ q = Refreshed(since.entry, q.baselineBytes)
                 /\ q.baselineBytes \in since.counter..counter
                 /\ q.baselineBytes <= since.counter + LeftThen
                 /\ counter <= q.baselineBytes + q.headroomBytes
                 /\ since.after <= counter - q.baselineBytes
<1> DEFINE q == InForce(entry, counter, Clock)
<1>1. /\ entry \in Entries /\ since.entry \in Entries /\ counter \in Nat /\ Clock \in Nat
      /\ since.latest \in Nat /\ since.counter \in Nat /\ since.passed \in Nat /\ since.after \in Nat
      /\ Configured(entry) /\ Configured(since.entry) /\ Clock <= since.latest
  BY DEF TypeOK, Ordered, Silent, Clock
<1>2. /\ entry.baselineBytes \in Nat /\ entry.headroomBytes \in Nat
      /\ entry.periodEndsAtMS \in Nat
      /\ since.entry.baselineBytes \in Nat /\ since.entry.headroomBytes \in Nat
      /\ since.entry.periodEndsAtMS \in Nat
  BY <1>1, EntriesAreTyped
<1>3. LeftThen \in Nat
  BY <1>1, <1>2 DEF LeftThen, Larger
<1>4. CASE ~RefreshDue(entry, Clock)
  <2>1. q = entry
    BY <1>4 DEF InForce
  <2>2. ASSUME entry = since.entry, Scheduled PROVE Clock < since.entry.periodEndsAtMS
    BY <1>1, <1>2, <1>4, <2>2 DEF RefreshDue, Scheduled
  <2> QED BY <1>1, <2>1, <2>2 DEF Silent
<1>5. CASE RefreshDue(entry, Clock)
  <2>1. /\ q = Refreshed(entry, counter) /\ entry.periodEndsAtMS > 0
        /\ entry.nextPeriodHeadroomBytes # Nil /\ entry.periodEndsAtMS <= Clock
    BY <1>1, <1>2, <1>5 DEF InForce, RefreshDue
  <2>2. /\ q \in Entries /\ Configured(q) /\ q.baselineBytes = counter
        /\ q.headroomBytes \in Nat
    BY <1>1, <2>1, EntriesAreTyped
  <2>3. ~(time < PeriodEnd /\ skew = 0)
    <3>1. entry.periodEndsAtMS = PeriodEnd
      BY <1>1, <2>1 DEF Entries
    <3>2. time \in Nat /\ skew \in Nat /\ PeriodEnd <= time + skew
      BY <2>1, <3>1 DEF TypeOK, Clock
    <3> QED BY <3>2, Constants
  <2>4. ASSUME ~since.restarted
        PROVE  /\ entry = since.entry /\ Scheduled
               /\ since.passed <= LeftThen /\ since.after = 0
               /\ counter = since.counter + since.passed
    <3>1. \A b : Refreshed(since.entry, b).periodEndsAtMS = 0
      BY DEF Refreshed
    <3>2. entry = since.entry
      BY <2>1, <2>4, <3>1 DEF Silent
    <3>3. Scheduled
      BY <2>1, <3>2 DEF Scheduled
    <3>4. ~(entry = Refreshed(since.entry, entry.baselineBytes))
      BY <2>1, <3>1
    <3> QED BY <2>4, <3>2, <3>3, <3>4 DEF Silent
  <2> QED BY <1>1, <1>2, <1>3, <2>1, <2>2, <2>3, <2>4
<1> QED BY <1>4, <1>5

(* Bytes pass only while the gate is open, and are counted.                *)
LEMMA PassKeepsIInv ==
  ASSUME IInv, Pass
  PROVE  IInv'
<1> USE DEF IInv
<1> DEFINE once == IF Clock >= since.entry.periodEndsAtMS THEN 1 ELSE 0
<1>1. /\ entry' = InForce(entry, counter, Clock) /\ Gate(entry', counter) # "closed"
      /\ counter' = counter + 1 /\ total' = total + 1
      /\ UNCHANGED <<time, skew, plan, account, epoch, enabled, exchange, bounds, seen>>
  BY DEF Pass, pspVars
<1>2. /\ counter \in Nat /\ total \in Nat /\ since.passed \in Nat /\ since.after \in Nat
      /\ since.counter \in Nat /\ since.entry \in Entries /\ since.latest \in Nat
      /\ since.restarted \in BOOLEAN /\ once \in {0, 1} /\ Clock \in Nat
  BY DEF TypeOK, Clock
<1> HIDE DEF once
<1>3. since' = [entry |-> since.entry, counter |-> since.counter, passed |-> since.passed + 1,
                after |-> since.after + once, latest |-> since.latest,
                restarted |-> since.restarted]
  <2>1. since' = [since EXCEPT !.passed = @ + 1, !.after = @ + once]
    BY DEF Pass, once
  <2> QED BY <2>1 DEF TypeOK
<1>4. since' \in [entry : Entries, counter : Nat, passed : Nat, after : Nat, latest : Nat,
                 restarted : BOOLEAN]
  BY <1>2, <1>3
<1>5. /\ entry' \in Entries /\ Configured(entry')
      /\ entry'.baselineBytes <= counter \/ entry' = entry
      /\ time < PeriodEnd /\ skew = 0 => entry' = entry
      /\ ~since.restarted =>
           \/ /\ entry' = since.entry /\ since.passed <= LeftThen
              /\ Scheduled => since.after = 0 /\ Clock < since.entry.periodEndsAtMS
           \/ /\ Scheduled /\ since.entry.periodEndsAtMS <= since.latest
              /\ entry' = Refreshed(since.entry, entry'.baselineBytes)
              /\ entry'.baselineBytes \in since.counter..counter
              /\ entry'.baselineBytes <= since.counter + LeftThen
              /\ since.after <= counter - entry'.baselineBytes
  BY <1>1, ForceCases
<1>6. /\ entry'.baselineBytes \in Nat /\ entry'.headroomBytes \in Nat
      /\ since.entry.baselineBytes \in Nat /\ since.entry.headroomBytes \in Nat
      /\ since.entry.periodEndsAtMS \in Nat
  BY <1>2, <1>5, EntriesAreTyped DEF Ordered
<1>7. entry'.baselineBytes <= counter => counter + 1 <= entry'.baselineBytes + entry'.headroomBytes
  BY <1>1, <1>2, <1>5, <1>6 DEF Gate, Configured
<1>8. TypeOK'
  BY <1>1, <1>2, <1>4, <1>5 DEF TypeOK
<1>9. Ordered'
  <2>1. account.counter \in Nat /\ exchange.counter \in Nat
    BY DEF TypeOK
  <2> QED BY <1>1, <1>2, <1>3, <1>5, <2>1 DEF Ordered
<1>10. Accounted'
  BY <1>1, AccountStands
<1>11. Silent'
  <2>1. Clock' <= since'.latest
    BY <1>1, <1>3 DEF Silent, Clock
  <2>2. LeftThen' = LeftThen /\ (Scheduled' <=> Scheduled) /\ LeftThen \in Nat
        /\ since.entry.baselineBytes + since.entry.headroomBytes <= since.counter + LeftThen
    BY <1>2, <1>3, <1>6 DEF LeftThen, Scheduled, Larger
  <2>3. ASSUME ~since.restarted
        PROVE  /\ counter' = since'.counter + since'.passed
               /\ since'.entry.baselineBytes <= since'.counter
    BY <1>1, <1>2, <1>3, <2>3 DEF Silent
  <2>4. ASSUME ~since.restarted,
               /\ entry' = since.entry /\ since.passed <= LeftThen
               /\ Scheduled => since.after = 0 /\ Clock < since.entry.periodEndsAtMS
        PROVE  /\ entry' = since'.entry /\ since'.passed <= LeftThen
               /\ Scheduled => since'.after = 0
    <3>1. counter = since.counter + since.passed /\ entry'.baselineBytes <= counter
      BY <1>2, <1>6, <2>4 DEF Silent
    <3>2. Scheduled => once = 0
      BY <1>2, <1>6, <2>4 DEF once
    <3> QED BY <1>2, <1>3, <1>6, <1>7, <2>2, <2>4, <3>1, <3>2
  <2>5. ASSUME ~since.restarted,
               /\ Scheduled /\ since.entry.periodEndsAtMS <= since.latest
               /\ entry' = Refreshed(since.entry, entry'.baselineBytes)
               /\ entry'.baselineBytes \in since.counter..counter
               /\ entry'.baselineBytes <= since.counter + LeftThen
               /\ since.after <= counter - entry'.baselineBytes
        PROVE  /\ entry' = Refreshed(since'.entry, entry'.baselineBytes)
               /\ since'.entry.periodEndsAtMS <= since'.latest
               /\ entry'.baselineBytes \in since'.counter..counter'
               /\ entry'.baselineBytes <= since'.counter + LeftThen
               /\ counter' <= entry'.baselineBytes + entry'.headroomBytes
               /\ since'.after <= counter' - entry'.baselineBytes
    BY <1>1, <1>2, <1>3, <1>6, <1>7, <2>2, <2>5
  <2>6. since'.restarted = since.restarted
    BY <1>3
  <2> QED BY <1>5, <2>1, <2>2, <2>3, <2>4, <2>5, <2>6 DEF Silent
<1>12. FirstPeriod'
  <2>1. /\ ~bounds'.ahead => skew' = 0
        /\ account'.base # 0 => PeriodEnd <= time'
    BY <1>1 DEF FirstPeriod
  <2>2. bounds'.restarts = 0 => counter' = total' /\ account'.known = account'.counter
    BY <1>1 DEF FirstPeriod
  <2>3. ASSUME bounds'.restarts = 0, ~bounds'.ahead, time' < PeriodEnd
        PROVE  /\ total' <= Quota
               /\ UpToQuota(entry') /\ entry'.baselineBytes <= counter'
               /\ exchange'.phase = "reply" => UpToQuota(exchange'.entry)
    <3>1. bounds.restarts = 0 /\ ~bounds.ahead /\ time < PeriodEnd
      BY <1>1, <2>3
    <3>2. /\ counter = total /\ skew = 0 /\ UpToQuota(entry) /\ entry.baselineBytes <= counter
          /\ exchange.phase = "reply" => UpToQuota(exchange.entry)
      BY <3>1 DEF FirstPeriod
    <3>3. entry' = entry
      BY <1>5, <3>1, <3>2
    <3>4. entry'.baselineBytes <= counter /\ entry'.baselineBytes + entry'.headroomBytes = Quota
      BY <3>2, <3>3 DEF UpToQuota
    <3>5. counter + 1 <= Quota
      BY <1>7, <3>4
    <3>6. total' <= Quota /\ entry'.baselineBytes <= counter'
      BY <1>1, <1>2, <1>6, <3>2, <3>4, <3>5
    <3> QED BY <1>1, <3>2, <3>3, <3>6
  <2> HIDE DEF IInv
  <2> QED BY <2>1, <2>2, <2>3 DEF FirstPeriod, UpToQuota
<1> QED BY <1>8, <1>9, <1>10, <1>11, <1>12

(* A grant is taken once, when it is due.                                  *)
LEMMA RefreshKeepsIInv ==
  ASSUME IInv, Refresh
  PROVE  IInv'
<1> USE DEF IInv
<1>1. /\ entry' = InForce(entry, counter, Clock)
      /\ UNCHANGED <<time, skew, plan, account, seen, counter, epoch, enabled, total, since,
                     exchange, bounds>>
  BY DEF Refresh, InForce, pspVars
<1>2. /\ entry' \in Entries /\ Configured(entry')
      /\ time < PeriodEnd /\ skew = 0 => entry' = entry
      /\ ~since.restarted =>
           \/ /\ entry' = since.entry /\ since.passed <= LeftThen
              /\ Scheduled => since.after = 0
           \/ /\ Scheduled /\ since.entry.periodEndsAtMS <= since.latest
              /\ entry' = Refreshed(since.entry, entry'.baselineBytes)
              /\ entry'.baselineBytes \in since.counter..counter
              /\ entry'.baselineBytes <= since.counter + LeftThen
              /\ counter <= entry'.baselineBytes + entry'.headroomBytes
              /\ since.after <= counter - entry'.baselineBytes
  BY <1>1, ForceCases
<1>3. TypeOK' /\ Ordered'
  BY <1>1, <1>2 DEF TypeOK, Ordered
<1>4. Accounted'
  BY <1>1, AccountStands
<1>5. Silent'
  BY <1>1, <1>2 DEF Silent, LeftThen, Scheduled, Clock
<1>6. FirstPeriod'
  BY <1>1, <1>2 DEF FirstPeriod, UpToQuota
<1> QED BY <1>3, <1>4, <1>5, <1>6

(* A restart opens an epoch whose counter is zero.                         *)
LEMMA RestartKeepsIInv ==
  ASSUME IInv, Restart
  PROVE  IInv'
<1> USE DEF IInv
<1>1. /\ bounds.restarts < MaxRestarts /\ counter' = 0 /\ epoch' = epoch + 1
      /\ UNCHANGED <<time, skew, plan, account, seen, entry, enabled, total, exchange>>
  BY DEF Restart, pspVars
<1>2. /\ bounds' = [restarts |-> bounds.restarts + 1, steps |-> bounds.steps,
                    ahead |-> bounds.ahead]
      /\ bounds.restarts \in Nat /\ bounds.steps \in Nat /\ bounds.ahead \in BOOLEAN
  <2>1. bounds' = [bounds EXCEPT !.restarts = @ + 1]
    BY DEF Restart
  <2> QED BY <2>1 DEF TypeOK
<1>3. /\ since'.restarted /\ since'.entry = since.entry /\ since'.latest = since.latest
      /\ since' \in [entry : Entries, counter : Nat, passed : Nat, after : Nat, latest : Nat,
                     restarted : BOOLEAN]
  <2>1. since' = [since EXCEPT !.restarted = TRUE]
    BY DEF Restart
  <2> QED BY <2>1 DEF TypeOK
<1>4. bounds' \in [restarts : Nat, steps : Nat, ahead : BOOLEAN]
  BY <1>2
<1>5. TypeOK'
  BY <1>1, <1>3, <1>4 DEF TypeOK
<1>6. Ordered'
  <2>1. epoch \in Nat /\ account.epoch \in Nat /\ exchange.epoch \in Nat
    BY DEF TypeOK
  <2> QED BY <1>1, <1>2, <1>3, <2>1, Constants DEF Ordered
<1>7. Accounted'
  BY <1>1, AccountStands
<1>8. Silent'
  BY <1>1, <1>3 DEF Silent, Clock
<1>9. FirstPeriod'
  BY <1>1, <1>2 DEF FirstPeriod
<1> QED BY <1>5, <1>6, <1>7, <1>8, <1>9

(* A report carries the counters of its epoch.                             *)
LEMMA ReportKeepsIInv ==
  ASSUME IInv, Report \/ Lose
  PROVE  IInv'
<1> USE DEF IInv
<1>1. /\ \/ exchange' = Idle
         \/ exchange' = [Idle EXCEPT !.phase = "report", !.counter = counter, !.epoch = epoch]
      /\ UNCHANGED <<time, skew, plan, account, seen, counter, epoch, entry, enabled, total,
                     since, bounds>>
  BY DEF Report, Lose, nodeVars, pspVars
<1>2. /\ exchange' \in [phase : {"idle", "report", "reply"}, counter : Nat, epoch : Nat,
                        entry : Entries, enabled : BOOLEAN]
      /\ \/ exchange'.phase = "idle"
         \/ /\ exchange'.phase = "report"
            /\ exchange'.counter = counter /\ exchange'.epoch = epoch
  <2>1. Idle.entry \in Entries
    BY DEF Idle, Entries
  <2>2. \/ exchange' = [phase |-> "idle", counter |-> 0, epoch |-> 0, entry |-> Idle.entry,
                        enabled |-> TRUE]
        \/ exchange' = [phase |-> "report", counter |-> counter, epoch |-> epoch,
                        entry |-> Idle.entry, enabled |-> TRUE]
    BY <1>1 DEF Idle
  <2>3. counter \in Nat /\ epoch \in Nat
    BY DEF TypeOK
  <2>4. CASE exchange' = [phase |-> "idle", counter |-> 0, epoch |-> 0, entry |-> Idle.entry,
                          enabled |-> TRUE]
    <3>1. exchange'.phase = "idle"
      BY <2>4
    <3>2. exchange' \in [phase : {"idle", "report", "reply"}, counter : Nat, epoch : Nat,
                         entry : Entries, enabled : BOOLEAN]
      BY <2>1, <2>4
    <3> QED BY <3>1, <3>2
  <2>5. CASE exchange' = [phase |-> "report", counter |-> counter, epoch |-> epoch,
                          entry |-> Idle.entry, enabled |-> TRUE]
    BY <2>1, <2>3, <2>5
  <2> QED BY <2>2, <2>4, <2>5
<1>3. TypeOK'
  BY <1>1, <1>2 DEF TypeOK
<1>4. Ordered'
  <2>1. /\ Ordered /\ counter \in Nat /\ epoch \in Nat /\ account.counter \in Nat
        /\ account.epoch \in Nat
    BY DEF TypeOK
  <2> HIDE DEF IInv
  <2> QED BY <1>1, <1>2, <2>1 DEF Ordered
<1>5. Accounted'
  BY <1>1, AccountStands
<1>6. Silent' /\ FirstPeriod'
  BY <1>1, <1>2 DEF Silent, LeftThen, Scheduled, Clock, FirstPeriod, UpToQuota
<1> QED BY <1>3, <1>4, <1>5, <1>6

(* What PSP knows after an answer, and what it makes of it.                *)
LEMMA AnswerCases ==
  ASSUME IInv, exchange.phase = "report"
  PROVE  /\ exchange.epoch \in Epochs /\ account.epoch \in Epochs
         /\ Known(exchange) \in Nat
         /\ Known(exchange) = account.known + (exchange.counter - seen[exchange.epoch])
         /\ Base(exchange) \in Nat /\ Left(exchange) \in Nat
         /\ Base(exchange) # 0 => PeriodEnd <= time
         /\ bounds.restarts = 0 =>
              /\ Known(exchange) = exchange.counter
              /\ ~bounds.ahead /\ time < PeriodEnd => exchange.counter + Left(exchange) = Quota
<1> USE DEF IInv
<1>1. /\ exchange.counter \in Nat /\ exchange.epoch \in Nat /\ time \in Nat
      /\ account.counter \in Nat /\ account.epoch \in Nat /\ account.known \in Nat
      /\ account.base \in Nat /\ counter \in Nat /\ epoch \in Nat /\ total \in Nat
      /\ Quota \in Nat /\ PeriodEnd \in Nat
  BY Constants DEF TypeOK
<1>2. /\ exchange.epoch <= epoch /\ epoch <= MaxRestarts /\ epoch = bounds.restarts
      /\ account.epoch <= exchange.epoch
      /\ account.epoch = exchange.epoch => account.counter <= exchange.counter
      /\ exchange.epoch = epoch => exchange.counter <= counter
  BY DEF Ordered
<1>3. exchange.epoch \in Epochs /\ account.epoch \in Epochs
  BY <1>1, <1>2, Constants DEF Epochs
<1>4. /\ Known(exchange) \in Nat
      /\ Known(exchange) = account.known + (exchange.counter - seen[exchange.epoch])
  <2>1. CASE exchange.epoch = account.epoch
    <3>1. seen[exchange.epoch] = account.counter
      BY <2>1 DEF Accounted
    <3> QED BY <1>1, <1>2, <2>1, <3>1 DEF Known
  <2>2. CASE exchange.epoch # account.epoch
    <3>1. exchange.epoch > account.epoch
      BY <1>1, <1>2, <2>2
    <3>2. seen[exchange.epoch] = 0
      BY <1>3, <3>1 DEF Accounted, Epochs
    <3> QED BY <1>1, <2>2, <3>2 DEF Known
  <2> QED BY <2>1, <2>2
<1>5. /\ Base(exchange) \in Nat
      /\ Base(exchange) # 0 => PeriodEnd <= time
  BY <1>1, <1>4 DEF Base, FirstPeriod
<1>6. Left(exchange) \in Nat
  <2> DEFINE left == Quota - (Known(exchange) - IF Base(exchange) = 0 THEN 0 ELSE Base(exchange) - 1)
  <2>1. left \in Int
    BY <1>1, <1>4, <1>5
  <2> HIDE DEF left
  <2>2. Left(exchange) = Larger(0, left)
    BY DEF Left, left
  <2> QED BY <2>1, <2>2 DEF Larger
<1>7. ASSUME bounds.restarts = 0
      PROVE  /\ Known(exchange) = exchange.counter
             /\ ~bounds.ahead /\ time < PeriodEnd => exchange.counter + Left(exchange) = Quota
  <2>1. exchange.epoch = 0 /\ account.epoch = 0 /\ epoch = 0
    BY <1>1, <1>2, <1>7
  <2>2. Known(exchange) = exchange.counter
    BY <1>1, <1>7, <2>1 DEF Known, FirstPeriod
  <2>3. ASSUME ~bounds.ahead, time < PeriodEnd
        PROVE  exchange.counter + Left(exchange) = Quota
    <3>1. Base(exchange) = 0
      BY <1>1, <1>5, <2>3
    <3>2. exchange.counter <= Quota
      BY <1>1, <1>2, <1>7, <2>1, <2>3 DEF FirstPeriod
    <3> QED BY <1>1, <2>2, <3>1, <3>2 DEF Left, Larger
  <2> QED BY <2>2, <2>3
<1> QED BY <1>3, <1>4, <1>5, <1>6, <1>7

(* PSP adds what one report shows, to one term of the sum.                 *)
LEMMA AnswerKeepsIInv ==
  ASSUME IInv, Answer
  PROVE  IInv'
<1> USE DEF IInv
<1> DEFINE minted == Minted(exchange.counter, Left(exchange), Base(exchange) = 0)
<1>1. /\ exchange.phase = "report"
      /\ account' = [counter |-> exchange.counter, epoch |-> exchange.epoch,
                     known |-> Known(exchange), base |-> Base(exchange)]
      /\ seen' = [seen EXCEPT ![exchange.epoch] = exchange.counter]
      /\ UNCHANGED <<time, skew, bounds, plan, counter, epoch, entry, enabled, total, since>>
  BY DEF Answer, nodeVars
<1>2. /\ exchange.epoch \in Epochs /\ account.epoch \in Epochs
      /\ Known(exchange) \in Nat
      /\ Known(exchange) = account.known + (exchange.counter - seen[exchange.epoch])
      /\ Base(exchange) \in Nat /\ Left(exchange) \in Nat
      /\ Base(exchange) # 0 => PeriodEnd <= time
      /\ bounds.restarts = 0 =>
           /\ Known(exchange) = exchange.counter
           /\ ~bounds.ahead /\ time < PeriodEnd => exchange.counter + Left(exchange) = Quota
  BY <1>1, AnswerCases
<1>3. /\ exchange.counter \in Nat /\ exchange.epoch \in Nat
      /\ account.epoch \in Nat /\ account.known \in Nat
  BY DEF TypeOK
<1>4. /\ minted \in Entries /\ Configured(minted)
      /\ minted.baselineBytes = exchange.counter /\ minted.headroomBytes = Left(exchange)
  BY <1>2, <1>3, MintedIsTyped
<1>5. exchange' = [phase |-> "reply", counter |-> exchange.counter, epoch |-> exchange.epoch,
                   entry |-> minted, enabled |-> Left(exchange) > 0]
  <2>1. exchange' = [exchange EXCEPT !.phase = "reply", !.entry = minted,
                                     !.enabled = Left(exchange) > 0]
    BY DEF Answer
  <2> HIDE DEF minted
  <2> QED BY <2>1 DEF TypeOK
<1> HIDE DEF minted
<1>6. exchange' \in [phase : {"idle", "report", "reply"}, counter : Nat, epoch : Nat,
                     entry : Entries, enabled : BOOLEAN]
  BY <1>3, <1>4, <1>5
<1>7. /\ exchange'.phase = "reply" /\ exchange'.counter = exchange.counter
      /\ exchange'.epoch = exchange.epoch /\ exchange'.entry = minted
  BY <1>5
<1>8. /\ account'.counter = exchange.counter /\ account'.epoch = exchange.epoch
      /\ account'.known = Known(exchange) /\ account'.base = Base(exchange)
      /\ account' \in [counter : Nat, epoch : Nat, known : Nat, base : Nat]
  BY <1>1, <1>2, <1>3
<1>9. seen \in [Epochs -> Nat] /\ seen' \in [Epochs -> Nat]
  BY <1>1, <1>2, <1>3 DEF TypeOK, Epochs
<1>10. TypeOK'
  BY <1>1, <1>6, <1>8, <1>9 DEF TypeOK, Epochs
<1>11. Ordered'
  BY <1>1, <1>3, <1>4, <1>7, <1>8 DEF Ordered
<1>12. Accounted'
  <2>1. account'.counter = seen'[account'.epoch]
    BY <1>1, <1>2, <1>8, <1>9
  <2>2. ASSUME NEW e \in 0..MaxRestarts, e > account'.epoch PROVE seen'[e] = 0
    <3>1. e # exchange.epoch /\ e > account.epoch /\ e \in Epochs
      BY <1>1, <1>3, <1>8, <2>2, Constants DEF Ordered, Epochs
    <3> QED BY <1>1, <1>9, <3>1 DEF Accounted, Epochs
  <2>3. AccountingExact'
    <3>1. seen \in [Epochs -> Int] /\ exchange.counter \in Int
      BY <1>3, <1>9
    <3>2. account.known = Sums(seen)[MaxRestarts]
      BY AccountingIsSum DEF Accounted
    <3>3. Sums([seen EXCEPT ![exchange.epoch] = exchange.counter])[MaxRestarts]
            = Sums(seen)[MaxRestarts] + (exchange.counter - seen[exchange.epoch])
      BY <1>2, <3>1, SumsShift
    <3>4. account'.known = Sums(seen')[MaxRestarts]
      BY <1>1, <1>2, <1>8, <3>2, <3>3
    <3> QED BY <3>4, Zenon DEF AccountingExact, Sums, IsSums, Epochs
  <2> QED BY <2>1, <2>2, <2>3 DEF Accounted
<1>13. Silent'
  BY <1>1 DEF Silent, LeftThen, Scheduled, Clock
<1>14. FirstPeriod'
  BY <1>1, <1>2, <1>4, <1>7, <1>8 DEF FirstPeriod, UpToQuota
<1> QED BY <1>10, <1>11, <1>12, <1>13, <1>14

(* A directive may be adopted late; it starts an account of its own.       *)
LEMMA AdoptKeepsIInv ==
  ASSUME IInv, Adopt
  PROVE  IInv'
<1> USE DEF IInv
<1>1. /\ exchange.phase = "reply" /\ entry' = exchange.entry /\ enabled' = exchange.enabled
      /\ since' = [entry |-> exchange.entry, counter |-> counter, passed |-> 0, after |-> 0,
                   latest |-> Clock, restarted |-> epoch # exchange.epoch]
      /\ exchange' = Idle
      /\ UNCHANGED <<time, skew, plan, account, seen, counter, epoch, total, bounds>>
  BY DEF Adopt, Anchored, pspVars
<1>2. /\ exchange.entry \in Entries /\ exchange.enabled \in BOOLEAN /\ counter \in Nat
      /\ Clock \in Nat /\ exchange.counter \in Nat /\ exchange.epoch \in Nat /\ epoch \in Nat
  BY DEF TypeOK, Clock
<1>3. /\ exchange.epoch <= epoch
      /\ exchange.epoch = epoch => exchange.counter <= counter
      /\ Configured(exchange.entry) /\ exchange.entry.baselineBytes = exchange.counter
  BY <1>1 DEF Ordered
<1>4. /\ exchange' \in [phase : {"idle", "report", "reply"}, counter : Nat, epoch : Nat,
                        entry : Entries, enabled : BOOLEAN]
      /\ exchange'.phase = "idle"
  BY <1>1 DEF Idle, Entries
<1>5. since' \in [entry : Entries, counter : Nat, passed : Nat, after : Nat, latest : Nat,
                 restarted : BOOLEAN]
  BY <1>1, <1>2
<1>6. TypeOK'
  BY <1>1, <1>2, <1>4, <1>5 DEF TypeOK
<1>7. Ordered'
  BY <1>1, <1>3, <1>4 DEF Ordered
<1>8. Accounted'
  BY <1>1, AccountStands
<1>9. Silent'
  <2>1. /\ since'.latest = Clock /\ Clock' = Clock /\ since'.counter = counter
        /\ since'.passed = 0 /\ since'.after = 0 /\ since'.entry = exchange.entry
        /\ since'.restarted <=> epoch # exchange.epoch
    BY <1>1 DEF Clock
  <2>2. LeftThen' \in Nat
    <3>1. exchange.entry.baselineBytes \in Nat /\ exchange.entry.headroomBytes \in Nat
      BY <1>2, <1>3, EntriesAreTyped
    <3>2. LeftThen' = Larger(0, exchange.entry.baselineBytes + exchange.entry.headroomBytes - counter)
      BY <2>1 DEF LeftThen
    <3> QED BY <1>2, <3>1, <3>2 DEF Larger
  <2> QED BY <1>1, <1>2, <1>3, <2>1, <2>2 DEF Silent
<1>10. FirstPeriod'
  <2>1. bounds.restarts = 0 => exchange.epoch = epoch
    BY <1>2, <1>3 DEF Ordered
  <2> QED BY <1>1, <1>2, <1>3, <1>4, <2>1 DEF FirstPeriod, UpToQuota
<1> QED BY <1>6, <1>7, <1>8, <1>9, <1>10

(* Every step preserves the invariant.                                     *)
LEMMA NextIInv == IInv /\ [Next]_vars => IInv'
<1> SUFFICES ASSUME IInv, [Next]_vars PROVE IInv'
  OBVIOUS
<1>1. CASE Tick \/ \E s \in Skews : StepClock(s)
  BY <1>1, ClockKeepsIInv
<1>2. CASE Pass
  BY <1>2, PassKeepsIInv
<1>3. CASE Refresh
  BY <1>3, RefreshKeepsIInv
<1>4. CASE Restart
  BY <1>4, RestartKeepsIInv
<1>5. CASE Report \/ Lose
  BY <1>5, ReportKeepsIInv
<1>6. CASE Answer
  BY <1>6, AnswerKeepsIInv
<1>7. CASE Adopt
  BY <1>7, AdoptKeepsIInv
<1>8. CASE UNCHANGED vars
  <2> USE <1>8 DEF vars
  <2>1. TypeOK' /\ Ordered'
    BY DEF IInv, TypeOK, Ordered
  <2>2. Accounted'
    BY AccountStands DEF IInv
  <2>3. Silent'
    BY DEF IInv, Silent, LeftThen, Scheduled, Clock
  <2>4. FirstPeriod'
    BY DEF IInv, FirstPeriod, UpToQuota
  <2> QED BY <2>1, <2>2, <2>3, <2>4 DEF IInv
<1> QED BY <1>1, <1>2, <1>3, <1>4, <1>5, <1>6, <1>7, <1>8 DEF Next

-----------------------------------------------------------------------------
(* The theorems. *)

(* The conjunction above holds in every reachable state of the gate.       *)
THEOREM Invariance == Spec => []IInv
<1> QED BY InitIInv, NextIInv, PTL DEF Spec

(* However many reports and answers are lost and however often the core    *)
(* starts over, PSP knows the sum of the counters it has processed, one    *)
(* per epoch: no byte twice, none subtracted.                              *)
THEOREM AccountsAreExact == Spec => []AccountingExact
<1>1. IInv => AccountingExact
  BY DEF IInv, Accounted
<1> QED BY <1>1, Invariance, PTL

(* A node PSP has fallen silent to lets through what it had been told, and *)
(* the one grant whose time has come, whatever its clock does.             *)
THEOREM SilenceIsNoAmnesty == Spec => []SilenceGrantsNothing
<1>1. ASSUME IInv PROVE SilenceGrantsNothing
  <2> SUFFICES ASSUME ~since.restarted
               PROVE  /\ since.passed <= LeftThen
                           + IF Scheduled /\ since.latest >= since.entry.periodEndsAtMS
                             THEN since.entry.nextPeriodHeadroomBytes ELSE 0
                      /\ Scheduled => since.after <= since.entry.nextPeriodHeadroomBytes
    BY Zenon DEF SilenceGrantsNothing, LeftThen, Scheduled
  <2>1. /\ since.entry \in Entries /\ Configured(since.entry)
        /\ since.passed \in Nat /\ since.after \in Nat /\ since.counter \in Nat
        /\ since.latest \in Nat /\ counter \in Nat
    BY <1>1 DEF IInv, TypeOK, Ordered
  <2>2. /\ since.entry.baselineBytes \in Nat /\ since.entry.headroomBytes \in Nat
        /\ since.entry.periodEndsAtMS \in Nat
        /\ Scheduled => since.entry.nextPeriodHeadroomBytes \in Nat
    BY <2>1, EntriesAreTyped DEF Scheduled
  <2>3. LeftThen \in Nat
    BY <2>1, <2>2 DEF LeftThen, Larger
  <2>4. counter = since.counter + since.passed
    BY <1>1 DEF IInv, Silent
  <2>5. CASE /\ since.passed <= LeftThen
             /\ Scheduled => since.after = 0
    BY <2>1, <2>2, <2>3, <2>5
  <2>6. CASE /\ Scheduled /\ since.entry.periodEndsAtMS <= since.latest
             /\ entry = Refreshed(since.entry, entry.baselineBytes)
             /\ entry.baselineBytes \in since.counter..counter
             /\ entry.baselineBytes <= since.counter + LeftThen
             /\ counter <= entry.baselineBytes + entry.headroomBytes
             /\ since.after <= counter - entry.baselineBytes
    <3>1. entry.headroomBytes = since.entry.nextPeriodHeadroomBytes
      BY <2>6 DEF Refreshed
    <3>2. /\ entry.baselineBytes \in Int
          /\ counter <= entry.baselineBytes + since.entry.nextPeriodHeadroomBytes
      BY <2>6, <3>1
    <3> QED BY <2>1, <2>2, <2>3, <2>4, <2>6, <3>2
  <2> QED BY <1>1, <2>5, <2>6 DEF IInv, Silent
<1> QED BY <1>1, Invariance, PTL

(* Directives late, lost or minted again and again gift nothing: as long   *)
(* as counter and clock are sound, the bytes of the first period stay      *)
(* within its quota.                                                       *)
THEOREM QuotaIsKept == Spec => []QuotaHolds
<1>1. IInv => QuotaHolds
  BY DEF IInv, FirstPeriod, QuotaHolds
<1> QED BY <1>1, Invariance, PTL

=============================================================================
