------------------------- MODULE ObjectStateProofs -------------------------
(***************************************************************************)
(* Proofs about ObjectState for every set of coordinates, clock readings,  *)
(* issue codes and listeners and for every timeout: its invariants, its    *)
(* action properties, and that it implements ObjectLifecycle.              *)
(*                                                                         *)
(* The argument: IInv, below, is inductive.  The three invariants that the *)
(* runs check lean on each other (a retry keeps a status reportable only   *)
(* because an applied one has no start time, and the clock is exact only   *)
(* because a reportable unconverged status has one), and on the fact that  *)
(* an object that holds nothing is still the zero value.  A refused        *)
(* version cannot come back because every one of them lies behind the      *)
(* version now held, and Newer is transitive.                              *)
(***************************************************************************)
EXTENDS ObjectState, TLAPS

(* A coordinate never precedes itself, and of two different coordinates    *)
(* exactly one is newer: Newer is a strict total order (Version.Newer).    *)
LEMMA NewerIsStrictOrder ==
  /\ \A v \in Versions : ~Newer(v, v)
  /\ \A v, w \in Versions : v # w => (Newer(v, w) <=> ~Newer(w, v))
  /\ \A u, v, w \in Versions : Newer(u, v) /\ Newer(v, w) => Newer(u, w)
BY DEF Versions, Newer

(* A committed coordinate is newer than no coordinate at all.              *)
LEMMA CommittedIsNewer ==
  ASSUME NEW v \in Versions, Committed(v)
  PROVE  Newer(v, NoVersion) /\ ~Zero(v)
BY DEF Versions, Newer, Committed, NoVersion, Zero

-----------------------------------------------------------------------------
Untouched == status.state = "none" => status = NewStatus

RefusedAreBehind ==
  /\ NoResurrection
  /\ \A v \in refused : v = status.sinceVersion \/ Newer(status.sinceVersion, v)

IInv == /\ TypeOK /\ StatusIsReportable /\ FailureClock /\ Untouched
        /\ RefusedAreBehind

(* An event as the actions of ObjectState build it. *)
Stamped(tr) ==
  /\ tr \in Transitions
  /\ tr.version \in OfferedVersions \cup {NoVersion}
  /\ tr.atMS = now

(* The six kinds of event, each with what the constructor leaves empty.    *)
LEMMA EventIsStamped ==
  ASSUME TypeOK
  PROVE  /\ \A e \in ObjectEvents : Stamped(Event(e, now))
         /\ \A e \in ObjectEvents, v \in OfferedVersions :
              Stamped([Event(e, now) EXCEPT !.version = v])
         /\ \A e \in ObjectEvents, code \in IssueCodes \cup {NoName} :
              Stamped([Event(e, now) EXCEPT !.issueCode = code])
         /\ \A e \in ObjectEvents, key \in ListenerKeys \cup {NoName} :
              Stamped([Event(e, now) EXCEPT !.blockedOn = key])
<1> DEFINE base(e) == Event(e, now)
<1>0. /\ now \in Int
      /\ NoVersion \in Versions
      /\ OfferedVersions \subseteq Versions
  BY OfferedAssumption, TimesAssumption DEF TypeOK, NoVersion, Versions
<1>1. ASSUME NEW e \in ObjectEvents
      PROVE  base(e) \in Transitions /\ base(e).atMS = now /\ base(e).version = NoVersion
  BY <1>0 DEF Event, Transitions
<1>2. ASSUME NEW e \in ObjectEvents PROVE Stamped(base(e))
  BY <1>1, <1>2 DEF Stamped
<1>3. ASSUME NEW e \in ObjectEvents, NEW v \in OfferedVersions
      PROVE  Stamped([base(e) EXCEPT !.version = v])
  <2> HIDE DEF base
  <2> QED BY <1>0, <1>1 DEF Stamped, Transitions
<1>4. ASSUME NEW e \in ObjectEvents, NEW code \in IssueCodes \cup {NoName}
      PROVE  Stamped([base(e) EXCEPT !.issueCode = code])
  <2> HIDE DEF base
  <2> QED BY <1>1 DEF Stamped, Transitions
<1>5. ASSUME NEW e \in ObjectEvents, NEW key \in ListenerKeys \cup {NoName}
      PROVE  Stamped([base(e) EXCEPT !.blockedOn = key])
  <2> HIDE DEF base
  <2> QED BY <1>1 DEF Stamped, Transitions
<1> QED BY <1>2, <1>3, <1>4, <1>5

(* AdvanceObject keeps a status well typed, reportable and either          *)
(* untouched or past its first version, whatever the event.                *)
LEMMA AdvanceKeepsShape ==
  ASSUME IInv, NEW tr, Stamped(tr), NEW next, next = AdvanceObject(status, tr)
  PROVE  /\ next \in Statuses
         /\ next.sinceVersion \in OfferedVersions \cup {NoVersion}
         /\ next.state = "none" <=> Zero(next.sinceVersion)
         /\ next.state = "none" => next = NewStatus
         /\ next.state # "none" => ValidReportedObject(next)
<1> USE DEF IInv, TypeOK, StatusIsReportable, Untouched, Stamped, Statuses,
            Transitions, ObjectStates, ValidReportedObject
<1>t. now \in Nat /\ now > 0 /\ tr.version \in Versions
  BY OfferedAssumption, TimesAssumption DEF NoVersion, Versions
<1>f. /\ FirstNonZero(status.firstFailedAtMS, tr.atMS) \in Int
      /\ status.state # "none" =>
           FirstNonZero(status.firstFailedAtMS, tr.atMS) > 0
  BY <1>t DEF FirstNonZero
<1>0. CASE ~Permitted(status, tr)
  BY <1>0 DEF AdvanceObject
<1>1. CASE Permitted(status, tr) /\ tr.event = "accepted"
  <2>1. next = AcceptVersion(status, tr) /\ AcceptPermitted(status, tr)
    BY <1>1 DEF AdvanceObject, Advanced, Permitted
  <2>2. CASE Redelivered(status, tr)
    BY <2>1, <2>2 DEF AcceptVersion
  <2>3. CASE ~Redelivered(status, tr)
    <3>1. next = Reopened(status, tr)
      BY <2>1, <2>3 DEF AcceptVersion
    <3>2. Committed(tr.version) /\ ~Zero(tr.version)
      BY <2>1, <1>t, CommittedIsNewer DEF AcceptPermitted
    <3> QED
      BY <3>1, <3>2, <1>t, NamesAssumption DEF Reopened, Zero, Committed
  <2> QED BY <2>2, <2>3
<1>2. CASE Permitted(status, tr) /\ tr.event = "applied"
  <2>1. next = Applied(status, tr) /\ ApplyPermitted(status)
    BY <1>2 DEF AdvanceObject, Advanced, Permitted
  <2>2. /\ next.state = "applied"
        /\ next.sinceVersion = status.sinceVersion
        /\ next.firstFailedAtMS = 0
        /\ next.issueCode = NoName
        /\ next.blockedOn = NoName
    BY <2>1 DEF Applied
  <2>3. next \in Statuses
    <3>1. status \in Statuses OBVIOUS
    <3>2. next = [state |-> "applied", sinceVersion |-> status.sinceVersion,
                  firstFailedAtMS |-> 0, issueCode |-> NoName, blockedOn |-> NoName]
      BY <2>1, <3>1 DEF Applied
    <3> QED BY <3>1, <3>2
  <2>4. status.state # "none" /\ ValidReportedObject(status)
    BY <2>1 DEF ApplyPermitted
  <2> QED BY <2>2, <2>3, <2>4
<1>3. CASE Permitted(status, tr) /\ tr.event = "retryable_failure"
  <2>1. next = RetryableFailure(status, tr) /\ RetryPermitted(status)
    BY <1>3 DEF AdvanceObject, Advanced, Permitted
  <2>2. /\ next.state = "pending"
             /\ next.sinceVersion = status.sinceVersion
             /\ next.firstFailedAtMS = FirstNonZero(status.firstFailedAtMS, tr.atMS)
             /\ next.issueCode = status.issueCode
             /\ next.blockedOn = NoName
    BY <2>1 DEF RetryableFailure, RetryPermitted
  <2>3. next \in Statuses
    BY <2>1, <1>f DEF RetryableFailure
  <2>4. status.state # "none" /\ ValidReportedObject(status)
    BY <2>1 DEF RetryPermitted
  <2> QED BY <2>1, <2>2, <2>3, <2>4, <1>f, NamesAssumption DEF RetryPermitted
<1>4. CASE Permitted(status, tr) /\ tr.event = "rejected"
  <2>1. next = Rejected(status, tr) /\ RejectPermitted(status, tr)
    BY <1>4 DEF AdvanceObject, Advanced, Permitted
  <2>2. /\ next.state = "rejected"
             /\ next.sinceVersion = status.sinceVersion
             /\ next.firstFailedAtMS = FirstNonZero(status.firstFailedAtMS, tr.atMS)
             /\ next.issueCode = tr.issueCode
             /\ next.blockedOn = NoName
    BY <2>1 DEF Rejected, RejectPermitted
  <2>3. next \in Statuses
    BY <2>1, <1>f DEF Rejected
  <2>4. status.state # "none" /\ ValidReportedObject(status)
    BY <2>1 DEF RejectPermitted
  <2> QED BY <2>1, <2>2, <2>3, <2>4, <1>f, NamesAssumption DEF RejectPermitted
<1>5. CASE Permitted(status, tr) /\ tr.event = "dependency_blocked"
  <2>1. next = DependencyBlocked(status, tr) /\ BlockPermitted(status, tr)
    BY <1>5 DEF AdvanceObject, Advanced, Permitted
  <2>2. /\ next.state = "blocked"
             /\ next.sinceVersion = status.sinceVersion
             /\ next.firstFailedAtMS = FirstNonZero(status.firstFailedAtMS, tr.atMS)
             /\ next.issueCode = NoName
             /\ next.blockedOn = tr.blockedOn
    BY <2>1 DEF DependencyBlocked, BlockPermitted
  <2>3. next \in Statuses
    BY <2>1, <1>f DEF DependencyBlocked
  <2>4. status.state # "none" /\ ValidReportedObject(status)
    BY <2>1 DEF BlockPermitted
  <2> QED BY <2>1, <2>2, <2>3, <2>4, <1>f, NamesAssumption DEF BlockPermitted
<1>6. CASE Permitted(status, tr) /\ tr.event = "dependency_ready"
  <2>1. next = DependencyReady(status, tr) /\ status.state = "blocked"
    BY <1>6 DEF AdvanceObject, Advanced, Permitted
  <2>2. /\ next.state = "pending"
             /\ next.sinceVersion = status.sinceVersion
             /\ next.firstFailedAtMS = status.firstFailedAtMS
             /\ next.issueCode = status.issueCode
             /\ next.blockedOn = NoName
    BY <2>1 DEF DependencyReady
  <2>3. next \in Statuses
    BY <2>1, <1>f DEF DependencyReady
  <2>4. status.state # "none" /\ ValidReportedObject(status)
    BY <2>1
  <2> QED BY <2>1, <2>2, <2>3, <2>4, <1>f, NamesAssumption
<1> QED
  BY <1>0, <1>1, <1>2, <1>3, <1>4, <1>5, <1>6 DEF Permitted

(* The start time AdvanceObject keeps is that of the episode: an event     *)
(* that opens one stamps it, an event within it keeps it, and convergence  *)
(* clears it.                                                              *)
LEMMA AdvanceKeepsClock ==
  ASSUME IInv, NEW tr, Stamped(tr), NEW next, next = AdvanceObject(status, tr)
  PROVE  next.firstFailedAtMS =
           IF ~Unconverged(next) THEN 0
           ELSE IF Unconverged(status) /\ next.sinceVersion = status.sinceVersion
                THEN status.firstFailedAtMS
                ELSE now
<1> USE DEF IInv, TypeOK, StatusIsReportable, Untouched, Stamped, Statuses,
            ObjectStates, Unconverged, ValidReportedObject, FirstNonZero
<1>a. /\ ~Unconverged(status) => status.firstFailedAtMS = 0
      /\ Unconverged(status) => status.firstFailedAtMS # 0
  BY DEF NewStatus
<1>0. CASE ~Permitted(status, tr)
  BY <1>0, <1>a DEF AdvanceObject
<1>1. CASE Permitted(status, tr) /\ tr.event = "accepted"
  <2>1. next = AcceptVersion(status, tr)
    BY <1>1 DEF AdvanceObject, Advanced
  <2>2. CASE Redelivered(status, tr)
    BY <2>1, <2>2, <1>a DEF AcceptVersion
  <2>3. CASE ~Redelivered(status, tr)
    BY <2>1, <2>3 DEF AcceptVersion, Reopened, Redelivered
  <2> QED BY <2>2, <2>3
<1>2. CASE Permitted(status, tr) /\ tr.event = "applied"
  <2>1. next = Applied(status, tr)
    BY <1>2 DEF AdvanceObject, Advanced
  <2>2. next.state = "applied" /\ next.firstFailedAtMS = 0
    BY <2>1 DEF Applied
  <2> QED BY <2>2
<1>3. CASE Permitted(status, tr) /\ tr.event = "retryable_failure"
  <2>1. next = RetryableFailure(status, tr)
    BY <1>3 DEF AdvanceObject, Advanced
  <2>2. /\ next.state = "pending" /\ next.sinceVersion = status.sinceVersion
        /\ next.firstFailedAtMS = FirstNonZero(status.firstFailedAtMS, tr.atMS)
    BY <2>1 DEF RetryableFailure
  <2> QED BY <2>2, <1>a
<1>4. CASE Permitted(status, tr) /\ tr.event = "rejected"
  <2>1. next = Rejected(status, tr)
    BY <1>4 DEF AdvanceObject, Advanced
  <2>2. /\ next.state = "rejected" /\ next.sinceVersion = status.sinceVersion
        /\ next.firstFailedAtMS = FirstNonZero(status.firstFailedAtMS, tr.atMS)
    BY <2>1 DEF Rejected
  <2> QED BY <2>2, <1>a
<1>5. CASE Permitted(status, tr) /\ tr.event = "dependency_blocked"
  <2>1. next = DependencyBlocked(status, tr)
    BY <1>5 DEF AdvanceObject, Advanced
  <2>2. /\ next.state = "blocked" /\ next.sinceVersion = status.sinceVersion
        /\ next.firstFailedAtMS = FirstNonZero(status.firstFailedAtMS, tr.atMS)
    BY <2>1 DEF DependencyBlocked
  <2> QED BY <2>2, <1>a
<1>6. CASE Permitted(status, tr) /\ tr.event = "dependency_ready"
  <2>1. next = DependencyReady(status, tr) /\ status.state = "blocked"
    BY <1>6 DEF AdvanceObject, Advanced, Permitted
  <2>2. /\ next.state = "pending" /\ next.sinceVersion = status.sinceVersion
        /\ next.firstFailedAtMS = status.firstFailedAtMS
    BY <2>1 DEF DependencyReady
  <2> QED BY <2>1, <2>2
<1> QED
  BY <1>0, <1>1, <1>2, <1>3, <1>4, <1>5, <1>6 DEF Permitted

(* What one event can do to the version and the state: nothing, the        *)
(* adoption of a newer committed version, or a change within the version   *)
(* that cannot undo a rejection.                                           *)
LEMMA AdvanceCases ==
  ASSUME IInv, NEW tr, Stamped(tr), NEW next, next = AdvanceObject(status, tr)
  PROVE  \/ next = status
         \/ /\ Committed(next.sinceVersion)
            /\ Newer(next.sinceVersion, status.sinceVersion)
            /\ next.state = "pending"
         \/ /\ next.sinceVersion = status.sinceVersion
            /\ status.state # "none"
            /\ \/ next.state = "rejected"
               \/ /\ status.state # "rejected"
                  /\ next.state \in {"applied", "pending", "blocked"}
<1> USE DEF IInv, TypeOK, Stamped, Statuses, ObjectStates
<1>0. CASE ~Permitted(status, tr)
  BY <1>0 DEF AdvanceObject
<1>1. CASE Permitted(status, tr) /\ tr.event = "accepted"
  <2>1. next = AcceptVersion(status, tr) /\ AcceptPermitted(status, tr)
    BY <1>1 DEF AdvanceObject, Advanced, Permitted
  <2>2. CASE Redelivered(status, tr)
    BY <2>1, <2>2 DEF AcceptVersion
  <2>3. CASE ~Redelivered(status, tr)
    <3>1. next.state = "pending" /\ next.sinceVersion = tr.version
      BY <2>1, <2>3 DEF AcceptVersion, Reopened
    <3>2. Committed(tr.version) /\ tr.version \in Versions
      BY <2>1, OfferedAssumption DEF AcceptPermitted, Versions, NoVersion
    <3>3. CASE Zero(status.sinceVersion)
      <4>1. status.sinceVersion = NoVersion
        BY <3>3 DEF Untouched, NewStatus
      <4> QED BY <3>1, <3>2, <4>1, CommittedIsNewer
    <3>4. CASE Newer(tr.version, status.sinceVersion)
      BY <3>1, <3>2, <3>4
    <3> QED BY <2>1, <2>3, <3>3, <3>4 DEF AcceptPermitted
  <2> QED BY <2>2, <2>3
<1>2. CASE Permitted(status, tr) /\ tr.event = "applied"
  BY <1>2 DEF AdvanceObject, Advanced, Permitted, Applied, ApplyPermitted
<1>3. CASE Permitted(status, tr) /\ tr.event = "retryable_failure"
  BY <1>3 DEF AdvanceObject, Advanced, Permitted, RetryableFailure, RetryPermitted
<1>4. CASE Permitted(status, tr) /\ tr.event = "rejected"
  BY <1>4 DEF AdvanceObject, Advanced, Permitted, Rejected, RejectPermitted
<1>5. CASE Permitted(status, tr) /\ tr.event = "dependency_blocked"
  BY <1>5 DEF AdvanceObject, Advanced, Permitted, DependencyBlocked, BlockPermitted
<1>6. CASE Permitted(status, tr) /\ tr.event = "dependency_ready"
  BY <1>6 DEF AdvanceObject, Advanced, Permitted, DependencyReady
<1> QED
  BY <1>0, <1>1, <1>2, <1>3, <1>4, <1>5, <1>6 DEF Permitted

-----------------------------------------------------------------------------
(* The invariant holds of an object that has accepted nothing.             *)
LEMMA InitIInv == Init => IInv
BY DEF Init, IInv, TypeOK, StatusIsReportable, FailureClock, Untouched,
       NewStatus, Statuses, ObjectStates, Versions, NoVersion, Zero,
       RefusedAreBehind, NoResurrection

(* Delivering any stamped event preserves the invariant.                   *)
LEMMA DeliverKeepsIInv ==
  ASSUME IInv, NEW tr, Stamped(tr), Deliver(tr)
  PROVE  IInv'
<1>1. status' = AdvanceObject(status, tr)
  BY DEF Deliver
<1>2. /\ status' \in Statuses
      /\ status'.sinceVersion \in OfferedVersions \cup {NoVersion}
      /\ status'.state = "none" <=> Zero(status'.sinceVersion)
      /\ status'.state = "none" => status' = NewStatus
      /\ status'.state # "none" => ValidReportedObject(status')
  BY <1>1, AdvanceKeepsShape
<1>3. openSince' = status'.firstFailedAtMS /\ openSince' \in Times \cup {0}
  <2>1. status'.firstFailedAtMS =
           IF ~Unconverged(status') THEN 0
           ELSE IF Unconverged(status) /\ status'.sinceVersion = status.sinceVersion
                THEN status.firstFailedAtMS
                ELSE now
    BY <1>1, AdvanceKeepsClock
  <2> QED BY <2>1 DEF Deliver, IInv, FailureClock, TypeOK
<1>4. refused' \subseteq OfferedVersions /\ RefusedAreBehind'
  <2> USE DEF IInv, TypeOK, RefusedAreBehind, NoResurrection
  <2>0. /\ status.sinceVersion \in Versions
        /\ status'.sinceVersion \in Versions
        /\ refused \subseteq Versions
    BY <1>2, OfferedAssumption DEF Statuses
  <2>1. refused' = IF status'.state = "rejected"
                   THEN refused \cup {status'.sinceVersion} ELSE refused
    BY DEF Deliver
  <2>2. CASE status' = status
    <3>1. status.state = "rejected" => ~Zero(status.sinceVersion)
      OBVIOUS
    <3> QED BY <2>0, <2>1, <2>2, <3>1, <1>2 DEF Zero, NoVersion
  <2>3. CASE /\ Committed(status'.sinceVersion)
             /\ Newer(status'.sinceVersion, status.sinceVersion)
             /\ status'.state = "pending"
    <3>1. \A v \in refused : Newer(status'.sinceVersion, v)
      BY <2>0, <2>3, NewerIsStrictOrder
    <3> QED BY <2>0, <2>1, <2>3, <3>1, NewerIsStrictOrder
  <2>4. CASE /\ status'.sinceVersion = status.sinceVersion
             /\ status.state # "none"
             /\ \/ status'.state = "rejected"
                \/ /\ status.state # "rejected"
                   /\ status'.state \in {"applied", "pending", "blocked"}
    BY <2>0, <2>1, <2>4, <1>2 DEF Zero, NoVersion
  <2> QED BY <1>1, <2>2, <2>3, <2>4, AdvanceCases
<1> QED
  BY <1>2, <1>3, <1>4 DEF Deliver, IInv, TypeOK, StatusIsReportable, FailureClock, Untouched

(* Every step is a delivery of a stamped event, a step of the clock, or    *)
(* none at all.                                                            *)
LEMMA StepIsDelivery ==
  ASSUME TypeOK, [Next]_vars
  PROVE  \/ \E tr : Stamped(tr) /\ Deliver(tr)
         \/ UNCHANGED <<status, openSince, refused>> /\ now' \in Times
<1>1. CASE \E v \in OfferedVersions : Accept(v)
  BY <1>1, EventIsStamped DEF Accept, ObjectEvents
<1>2. CASE Apply
  BY <1>2, EventIsStamped DEF Apply, ObjectEvents
<1>3. CASE Retry
  BY <1>3, EventIsStamped DEF Retry, ObjectEvents
<1>4. CASE \E code \in IssueCodes \cup {NoName} : Reject(code)
  BY <1>4, EventIsStamped DEF Reject, ObjectEvents
<1>5. CASE \E key \in ListenerKeys \cup {NoName} : Block(key)
  BY <1>5, EventIsStamped DEF Block, ObjectEvents
<1>6. CASE Ready
  BY <1>6, EventIsStamped DEF Ready, ObjectEvents
<1>7. CASE StepClock
  BY <1>7 DEF StepClock
<1>8. CASE UNCHANGED vars
  BY <1>8 DEF vars, TypeOK
<1> QED
  BY <1>1, <1>2, <1>3, <1>4, <1>5, <1>6, <1>7, <1>8 DEF Next

(* Neither an event nor a step of the clock breaks the invariant.          *)
LEMMA NextIInv == IInv /\ [Next]_vars => IInv'
<1> SUFFICES ASSUME IInv, [Next]_vars PROVE IInv'
  OBVIOUS
<1>1. CASE \E tr : Stamped(tr) /\ Deliver(tr)
  BY <1>1, DeliverKeepsIInv
<1>2. CASE UNCHANGED <<status, openSince, refused>> /\ now' \in Times
  BY <1>2 DEF IInv, TypeOK, StatusIsReportable, FailureClock, Untouched,
              RefusedAreBehind, NoResurrection
<1> QED BY <1>1, <1>2, StepIsDelivery DEF IInv

(* The inductive invariant holds in every reachable state, whatever the    *)
(* sequence of events AdvanceObject is given.                              *)
THEOREM Invariance == Spec => []IInv
<1>1. Init => IInv BY InitIInv
<1>2. IInv /\ [Next]_vars => IInv' BY NextIInv
<1> QED BY <1>1, <1>2, PTL DEF Spec

(* The type invariant, for every value of the constants (ObjectStatus,     *)
(* AdvanceObject).                                                         *)
THEOREM TypeCorrect == Spec => []TypeOK
<1>1. IInv => TypeOK BY DEF IInv
<1> QED BY <1>1, Invariance, PTL

(* Every status an agent can reach through AdvanceObject passes PSP's      *)
(* validateReportedObject.                                                 *)
THEOREM AlwaysReportable == Spec => []StatusIsReportable
<1>1. IInv => StatusIsReportable BY DEF IInv
<1> QED BY <1>1, Invariance, PTL

(* firstFailedAtMS is the start of the current failure episode, for any    *)
(* behaviour of the wall clock.                                            *)
THEOREM FailureClockExact == Spec => []FailureClock
<1>1. IInv => FailureClock BY DEF IInv
<1> QED BY <1>1, Invariance, PTL

(* TimeoutIssue alerts exactly when an object that is not waiting for      *)
(* another one has been unconverged for Timeout.                           *)
THEOREM TimeoutExact == Spec => []TimeoutIsExact
<1>1. IInv => TimeoutIsExact
  <2> SUFFICES ASSUME IInv PROVE TimeoutIsExact
    OBVIOUS
  <2>1. now \in Nat /\ openSince \in Nat /\ status.firstFailedAtMS = openSince
    BY TimesAssumption DEF IInv, TypeOK, FailureClock
  <2>2. status.state \in {"pending", "rejected"} => openSince > 0
    BY <2>1 DEF IInv, StatusIsReportable, ValidReportedObject
  <2> QED BY <2>1, <2>2, TimeoutAssumption DEF TimeoutIsExact, TimeoutIssue
<1> QED BY <1>1, Invariance, PTL

-----------------------------------------------------------------------------
(* AdvanceCases read as a step of the machine.                             *)
LEMMA StepCases ==
  ASSUME IInv, [Next]_vars
  PROVE  \/ status' = status
         \/ /\ Committed(status'.sinceVersion)
            /\ Newer(status'.sinceVersion, status.sinceVersion)
            /\ status'.state = "pending"
         \/ /\ status'.sinceVersion = status.sinceVersion
            /\ status.state # "none"
            /\ \/ status'.state = "rejected"
               \/ /\ status.state # "rejected"
                  /\ status'.state \in {"applied", "pending", "blocked"}
<1>1. ASSUME NEW tr, Stamped(tr), Deliver(tr)
      PROVE  status' = AdvanceObject(status, tr)
  BY <1>1 DEF Deliver
<1> QED BY <1>1, StepIsDelivery, AdvanceCases DEF IInv

(* No sequence of events brings back a version the agent has refused.      *)
THEOREM RefusedForGood == Spec => []NoResurrection
<1>1. IInv => NoResurrection BY DEF IInv, RefusedAreBehind
<1> QED BY <1>1, Invariance, PTL

(* The version an agent holds for an object only moves forward, to a       *)
(* committed coordinate, whatever PSP or the network offers.               *)
THEOREM VersionMonotone == Spec => VersionNeverRegresses
<1>1. IInv /\ [Next]_vars =>
        [status'.sinceVersion # status.sinceVersion =>
           /\ Committed(status'.sinceVersion)
           /\ Newer(status'.sinceVersion, status.sinceVersion)]_vars
  BY StepCases
<1> QED BY <1>1, Invariance, PTL DEF Spec, VersionNeverRegresses

-----------------------------------------------------------------------------
(* ObjectState implements ObjectLifecycle: every event of the code is a    *)
(* step of the abstract object or leaves it alone.                         *)
THEOREM Refinement == Spec => ImplementsLifecycle
<1>1. Init => Lifecycle!LifecycleInit
  BY DEF Init, NewStatus, Phase, NoVersion,
         Lifecycle!LifecycleInit, Lifecycle!NoVersion
<1>2. IInv /\ [Next]_vars => [Lifecycle!LifecycleNext]_(Lifecycle!lifecycleVars)
  <2> SUFFICES ASSUME IInv, [Next]_vars
               PROVE  [Lifecycle!LifecycleNext]_(Lifecycle!lifecycleVars)
    OBVIOUS
  <2> USE DEF Phase
  <2>t. /\ status.state \in ObjectStates /\ status'.state \in ObjectStates
        /\ status'.sinceVersion \in OfferedVersions \cup {NoVersion}
    BY NextIInv DEF IInv, TypeOK, Statuses
  <2>1. CASE status' = status
    BY <2>1 DEF Lifecycle!lifecycleVars
  <2>2. CASE /\ Committed(status'.sinceVersion)
             /\ Newer(status'.sinceVersion, status.sinceVersion)
             /\ status'.state = "pending"
    <3>1. status'.sinceVersion \in OfferedVersions
      BY <2>t, <2>2 DEF Committed, NoVersion
    <3>2. Lifecycle!Follow(status'.sinceVersion)
      BY <2>2 DEF Newer, Committed,
         Lifecycle!Follow, Lifecycle!Newer, Lifecycle!Committed
    <3> QED BY <3>1, <3>2 DEF Lifecycle!LifecycleNext
  <2>3. CASE /\ status'.sinceVersion = status.sinceVersion
             /\ status.state # "none"
             /\ \/ status'.state = "rejected"
                \/ /\ status.state # "rejected"
                   /\ status'.state \in {"applied", "pending", "blocked"}
    BY <2>3, <2>t DEF ObjectStates, Lifecycle!LifecycleNext, Lifecycle!Converge,
       Lifecycle!Regress, Lifecycle!Refuse
  <2> QED BY <2>1, <2>2, <2>3, StepCases
<1> QED
  BY <1>1, <1>2, Invariance, PTL DEF Spec, ImplementsLifecycle, Lifecycle!LifecycleSpec
=============================================================================
