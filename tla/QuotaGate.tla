----------------------------- MODULE QuotaGate -----------------------------
(***************************************************************************)
(* The quota of one client row on one node (protocol/segments.go           *)
(* QuotaEntry and RefreshDue, protocol/report.go ClientCounters and        *)
(* GateState).  PSP anchors a headroom at the counter it has just received *)
(* and authorises, one period ahead, what the next period starts with; the *)
(* node lets traffic through until the headroom is used, and takes the     *)
(* grant on its own clock, PSP reachable or not.  Absence of a directive   *)
(* keeps the last one.                                                     *)
(*                                                                         *)
(* Reports and answers are late or lost, the counter starts over with the  *)
(* core, the node's clock is stepped.  RefreshDue, the entry and the gate  *)
(* states are the code's; PSP's accounting and the node's gate live        *)
(* elsewhere and follow the comments of those types.                       *)
(***************************************************************************)
EXTENDS Integers

CONSTANTS Quota,        \* bytes a period grants
          PeriodEnd,    \* when the first period ends
          NextGrants,   \* what the next period may be authorised to start with
          Nil,          \* the nil pointer
          Skews,        \* how far the node's clock may be off
          MaxTime, MaxBytes, MaxRestarts, MaxSteps

ASSUME QuotaAssumption ==
  /\ Quota \in Nat \ {0} /\ PeriodEnd \in 1..MaxTime
  /\ MaxTime \in Nat /\ MaxBytes \in Nat /\ MaxRestarts \in Nat /\ MaxSteps \in Nat
  /\ Nil \notin Nat /\ NextGrants \subseteq Nat \cup {Nil}
  /\ Skews \subseteq Nat /\ 0 \in Skews

VARIABLES time, skew,      \* PSP's time; the node's clock is time + skew
          plan,            \* PSP's schedule for this row
          account,         \* PSP: last counter and epoch, bytes known, base of the period
          counter, epoch,  \* node: cumulative, and how often it started over
          entry, enabled,  \* node: the directive held, the roster's word
          exchange,        \* the outstanding round trip
          bounds,          \* restarts and clock steps so far
          seen,            \* per epoch, the counter PSP has processed
          total,           \* bytes that passed
          since            \* what was adopted last, and what passed since

vars == <<time, skew, plan, account, counter, epoch, entry, enabled, exchange,
          bounds, seen, total, since>>

nodeVars == <<counter, epoch, entry, enabled, total, since>>
pspVars  == <<plan, account, seen>>

Larger(a, b) == IF a > b THEN a ELSE b

Clock == time + skew

-----------------------------------------------------------------------------
(* QuotaEntry *)

(* Mutant: a grant without a deadline is due at once. *)
RefreshDueWithoutDeadline(q, nowMS) ==
  q.nextPeriodHeadroomBytes # Nil /\ nowMS >= q.periodEndsAtMS

(* Mutant: the refresh waits until something is left. *)
RefreshDueUnlessExhausted(q, nowMS) ==
  /\ q.periodEndsAtMS > 0 /\ q.nextPeriodHeadroomBytes # Nil
  /\ q.headroomBytes # 0
  /\ nowMS >= q.periodEndsAtMS

RefreshDue(q, nowMS) ==
  /\ q.periodEndsAtMS > 0
  /\ q.nextPeriodHeadroomBytes # Nil
  /\ nowMS >= q.periodEndsAtMS

(* One period ahead, never a schedule: both fields are cleared. *)
Refreshed(q, at) ==
  [baselineBytes |-> at, headroomBytes |-> q.nextPeriodHeadroomBytes,
   periodEndsAtMS |-> 0, nextPeriodHeadroomBytes |-> Nil]

InForce(q, at, nowMS) == IF RefreshDue(q, nowMS) THEN Refreshed(q, at) ELSE q

(* GateState.  A counter below the baseline is of another epoch. *)
Gate(q, at) ==
  IF q.headroomBytes = Nil \/ at < q.baselineBytes THEN "unconfigured"
  ELSE IF at - q.baselineBytes < q.headroomBytes THEN "armed" ELSE "closed"

-----------------------------------------------------------------------------
(* PSP.  A counter of another epoch adds to what is known; it is never     *)
(* subtracted from the counter before (ClientCounters.CounterEpoch).       *)

(* Mutant: a drop is a drop, whatever epoch it comes from. *)
KnownByDifference(r) == account.known + Larger(0, r.counter - account.counter)

Known(r) ==
  account.known + IF r.epoch = account.epoch THEN r.counter - account.counter
                                             ELSE r.counter

(* What is left in PSP's period; a period ends by PSP's clock. *)
Base(r) ==
  IF account.base = 0 /\ time >= PeriodEnd THEN Known(r) + 1 ELSE account.base

Left(r) ==
  Larger(0, Quota - (Known(r) - IF Base(r) = 0 THEN 0 ELSE Base(r) - 1))

(* Mutant: the baseline is wherever the counter is when the directive is   *)
(* adopted.                                                                *)
AnchoredAtAdoption(minted) == [minted EXCEPT !.baselineBytes = counter]

Anchored(minted) == minted

Minted(at, left, scheduled) ==
  [baselineBytes |-> at, headroomBytes |-> left,
   periodEndsAtMS |-> IF scheduled THEN plan.endsAt ELSE 0,
   nextPeriodHeadroomBytes |-> IF scheduled THEN plan.next ELSE Nil]

Idle == [phase |-> "idle", counter |-> 0, epoch |-> 0,
         entry |-> [baselineBytes |-> 0, headroomBytes |-> Nil, periodEndsAtMS |-> 0,
                    nextPeriodHeadroomBytes |-> Nil],
         enabled |-> TRUE]

(* A node that has just adopted its first directive. *)
Init ==
  /\ time = 0 /\ skew \in Skews
  /\ plan \in [endsAt : {0, PeriodEnd}, next : NextGrants]
  /\ account = [counter |-> 0, epoch |-> 0, known |-> 0, base |-> 0]
  /\ counter = 0 /\ epoch = 0 /\ enabled = TRUE
  /\ entry = Minted(0, Quota, TRUE)
  /\ exchange = Idle
  /\ bounds = [restarts |-> 0, steps |-> 0, ahead |-> skew > 0]
  /\ seen = [e \in 0..MaxRestarts |-> 0]
  /\ total = 0
  /\ since = [entry |-> entry, counter |-> 0, passed |-> 0, after |-> 0, latest |-> Clock,
              restarted |-> FALSE]

Noticed(nowMS) == [since EXCEPT !.latest = Larger(@, nowMS)]

Tick ==
  /\ time < MaxTime
  /\ time' = time + 1
  /\ since' = Noticed(Clock + 1)
  /\ UNCHANGED <<skew, counter, epoch, entry, enabled, total, exchange, bounds>>
  /\ UNCHANGED pspVars

StepClock(s) ==
  /\ s # skew /\ bounds.steps < MaxSteps
  /\ skew' = s
  /\ bounds' = [bounds EXCEPT !.steps = @ + 1, !.ahead = TRUE]
  /\ since' = Noticed(time + s)
  /\ UNCHANGED <<time, counter, epoch, entry, enabled, total, exchange>>
  /\ UNCHANGED pspVars

(* One byte, at the gate. *)
Pass ==
  /\ total < MaxBytes
  /\ entry' = InForce(entry, counter, Clock)
  /\ enabled /\ Gate(entry', counter) # "closed"
  /\ counter' = counter + 1 /\ total' = total + 1
  /\ since' = [since EXCEPT !.passed = @ + 1,
                            !.after = @ + IF Clock >= since.entry.periodEndsAtMS THEN 1 ELSE 0]
  /\ UNCHANGED <<time, skew, epoch, enabled, exchange, bounds>> /\ UNCHANGED pspVars

(* The gate is evaluated without traffic. *)
Refresh ==
  /\ RefreshDue(entry, Clock)
  /\ entry' = Refreshed(entry, counter)
  /\ UNCHANGED <<time, skew, counter, epoch, enabled, total, since, exchange, bounds>>
  /\ UNCHANGED pspVars

(* The core starts over; the directive and the epoch survive it. *)
Restart ==
  /\ bounds.restarts < MaxRestarts
  /\ counter' = 0 /\ epoch' = epoch + 1
  /\ bounds' = [bounds EXCEPT !.restarts = @ + 1]
  /\ since' = [since EXCEPT !.restarted = TRUE]
  /\ UNCHANGED <<time, skew, entry, enabled, total, exchange>> /\ UNCHANGED pspVars

Report ==
  /\ exchange.phase = "idle"
  /\ exchange' = [Idle EXCEPT !.phase = "report", !.counter = counter, !.epoch = epoch]
  /\ UNCHANGED <<time, skew, bounds>> /\ UNCHANGED nodeVars /\ UNCHANGED pspVars

(* PSP's own enforcement goes with the roster of the same response. *)
Answer ==
  /\ exchange.phase = "report"
  /\ account' = [counter |-> exchange.counter, epoch |-> exchange.epoch,
                 known |-> Known(exchange), base |-> Base(exchange)]
  /\ seen' = [seen EXCEPT ![exchange.epoch] = exchange.counter]
  /\ exchange' = [exchange EXCEPT !.phase = "reply",
       !.entry = Minted(exchange.counter, Left(exchange), Base(exchange) = 0),
       !.enabled = Left(exchange) > 0]
  /\ UNCHANGED <<time, skew, bounds, plan>> /\ UNCHANGED nodeVars

Lose ==
  /\ exchange.phase # "idle"
  /\ exchange' = Idle
  /\ UNCHANGED <<time, skew, bounds>> /\ UNCHANGED nodeVars /\ UNCHANGED pspVars

Adopt ==
  /\ exchange.phase = "reply"
  /\ entry' = Anchored(exchange.entry) /\ enabled' = exchange.enabled
  /\ since' = [entry |-> exchange.entry, counter |-> counter, passed |-> 0, after |-> 0,
               latest |-> Clock, restarted |-> epoch # exchange.epoch]
  /\ exchange' = Idle
  /\ UNCHANGED <<time, skew, bounds, counter, epoch, total>> /\ UNCHANGED pspVars

Next ==
  \/ Tick \/ Pass \/ Refresh \/ Restart \/ Report \/ Answer \/ Lose \/ Adopt
  \/ \E s \in Skews : StepClock(s)

(* Time passes and the gate is looked at; nothing is assumed of PSP. *)
Spec == Init /\ [][Next]_vars /\ WF_vars(Tick) /\ WF_vars(Refresh)

-----------------------------------------------------------------------------
(* Properties *)

(* A drop of the counter is a reset, not a reduction and not usage: what   *)
(* PSP knows is the sum, over the epochs, of the last counter it processed,*)
(* whatever was lost in between (CounterEpoch, "a lost round self-heals"). *)
AccountingExact ==
  LET upTo[e \in 0..MaxRestarts] == seen[e] + IF e = 0 THEN 0 ELSE upTo[e - 1]
  IN account.known = upTo[MaxRestarts]

(* What may pass once PSP falls silent is decided when it last spoke: the  *)
(* headroom left then, and the one grant whose time has come; and once it  *)
(* has come, that grant and nothing of before, a scheduled zero included.  *)
(* A clock stepped to and fro does not grant twice (HeadroomBytes,         *)
(* NextPeriodHeadroomBytes: no amnesty on silence).                        *)
SilenceGrantsNothing ==
  LET q         == since.entry
      left      == Larger(0, q.baselineBytes + q.headroomBytes - since.counter)
      scheduled == q.periodEndsAtMS > 0 /\ q.nextPeriodHeadroomBytes # Nil
      next      == q.nextPeriodHeadroomBytes
  IN ~since.restarted =>
       /\ since.passed <= left + IF scheduled /\ since.latest >= q.periodEndsAtMS
                                 THEN next ELSE 0
       /\ scheduled => since.after <= next

(* Directives that are minted again and again, late or lost, gift nothing: *)
(* as long as counter and clock are sound, the bytes of the first period   *)
(* stay within its quota (BaselineBytes: the counter just received).       *)
QuotaHolds ==
  bounds.restarts = 0 /\ ~bounds.ahead /\ time < PeriodEnd => total <= Quota

(* A client that has used up its quota and has been granted the next       *)
(* period in advance is not locked out of it, PSP reachable or not.        *)
EntitledIsServed ==
  (/\ plan.endsAt > 0 /\ plan.next \notin {Nil, 0}
   /\ entry.periodEndsAtMS > 0 /\ Gate(entry, counter) = "closed")
    ~> (Gate(entry, counter) # "closed" \/ account.base > 0)

=============================================================================
