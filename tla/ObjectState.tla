---------------------------- MODULE ObjectState ----------------------------
(***************************************************************************)
(* One object driven by AdvanceObject (protocol/conformance/               *)
(* object_state.go).  The agent keeps the status, stamps every event with  *)
(* its wall clock and hands it to AdvanceObject; the order of the events   *)
(* is up to the network, the core and the operator, so any event may come  *)
(* at any time, with any coordinate a peer may offer, a half-zero or an    *)
(* old one included, and with its evidence missing.  A refused event       *)
(* returns an error and leaves the status as it was: a stuttering step.    *)
(*                                                                         *)
(* The wall clock may be stepped in either direction between two events.   *)
(* openSince is a history variable: the reading of the clock when the      *)
(* object last stopped being converged, kept without looking at            *)
(* firstFailedAtMS, which is what the code keeps for that purpose; refused *)
(* remembers every version the object was rejected at, of which the code   *)
(* keeps only the last.                                                    *)
(***************************************************************************)
EXTENDS ObjectStatus

CONSTANTS OfferedVersions,    \* coordinates an accepted event may carry
          Times,              \* readings of the wall clock, in ms
          Timeout             \* the operator-visible deadline, in ms

ASSUME OfferedAssumption == OfferedVersions \subseteq Versions
ASSUME TimesAssumption == Times \subseteq Nat \ {0} /\ Times # {}
ASSUME TimeoutAssumption == Timeout \in Nat \ {0}

VARIABLES status,       \* ObjectStatus, as persisted by the agent
          now,          \* the agent's wall clock
          openSince,    \* history: when the current failure episode began
          refused       \* history: the versions rejected so far

vars == <<status, now, openSince, refused>>

Unconverged(s) == s.state \in {"pending", "rejected", "blocked"}

(* Evidence an event does not need is left at its zero value. *)
Event(event, atMS) == [event     |-> event,
                       version   |-> NoVersion,
                       atMS      |-> atMS,
                       issueCode |-> NoName,
                       blockedOn |-> NoName]

Deliver(tr) ==
  /\ status' = AdvanceObject(status, tr)
  /\ openSince' = IF ~Unconverged(status') THEN 0
                  ELSE IF /\ Unconverged(status)
                          /\ status'.sinceVersion = status.sinceVersion
                       THEN openSince
                       ELSE now
  /\ refused' = IF status'.state = "rejected"
                THEN refused \cup {status'.sinceVersion} ELSE refused
  /\ UNCHANGED now

Init ==
  /\ status = NewStatus
  /\ now \in Times
  /\ openSince = 0
  /\ refused = {}

-----------------------------------------------------------------------------
(* One action per event. *)

Accept(v) == Deliver([Event("accepted", now) EXCEPT !.version = v])

Apply == Deliver(Event("applied", now))

Retry == Deliver(Event("retryable_failure", now))

Reject(code) == Deliver([Event("rejected", now) EXCEPT !.issueCode = code])

Block(key) == Deliver([Event("dependency_blocked", now) EXCEPT !.blockedOn = key])

Ready == Deliver(Event("dependency_ready", now))

StepClock ==
  /\ now' \in Times
  /\ UNCHANGED <<status, openSince, refused>>

Next ==
  \/ \E v \in OfferedVersions : Accept(v)
  \/ Apply
  \/ Retry
  \/ \E code \in IssueCodes \cup {NoName} : Reject(code)
  \/ \E key \in ListenerKeys \cup {NoName} : Block(key)
  \/ Ready
  \/ StepClock

Spec == Init /\ [][Next]_vars

-----------------------------------------------------------------------------
(* Properties *)

(* Every field of the status is within its type, and only an object that   *)
(* holds nothing has no version: what the agent persists after any         *)
(* sequence of events (ObjectStatus, AdvanceObject).                       *)
TypeOK ==
  /\ status \in Statuses
  /\ status.sinceVersion \in OfferedVersions \cup {NoVersion}
  /\ status.state = "none" <=> Zero(status.sinceVersion)
  /\ now \in Times
  /\ openSince \in Times \cup {0}
  /\ refused \subseteq OfferedVersions

(* Whatever sequence of events an object has been through, a full report   *)
(* that carries it passes PSP's validateReportedObject: the transition     *)
(* function and the wire validator, written in different packages, agree   *)
(* on the shape of every reachable state.                                  *)
StatusIsReportable ==
  status.state # "none" => ValidReportedObject(status)

(* firstFailedAtMS is the start of the current episode: through retries,   *)
(* blocks, rejections and re-deliveries it is neither moved by a later     *)
(* failure nor left over from an episode that has ended (firstNonZero, and *)
(* the resets in EventApplied and acceptVersion).                          *)
FailureClock ==
  status.firstFailedAtMS = openSince

(* TimeoutIssue raises an alert exactly for an object that has not         *)
(* converged for Timeout by the agent's clock, and only for one that does  *)
(* not wait for another object; a clock stepped back before the start of   *)
(* the episode silences it.                                                *)
TimeoutIsExact ==
  TimeoutIssue(status, now, Timeout) # "none" <=>
    /\ status.state \in {"pending", "rejected"}
    /\ now >= openSince + Timeout

(* A version that was ever rejected is never in effect, retried or blocked *)
(* again, even after other versions have come and gone: re-applying        *)
(* refused content is not among the things a long sequence of deliveries,  *)
(* replays and restores of PSP can lead to (acceptVersion).                *)
NoResurrection ==
  status.sinceVersion \in refused => status.state = "rejected"

(* The persisted version only ever moves to a committed, strictly newer    *)
(* coordinate, whatever coordinates arrive and in whatever order           *)
(* (acceptVersion's ordering tests).                                       *)
VersionNeverRegresses ==
  [][status'.sinceVersion # status.sinceVersion =>
       /\ Committed(status'.sinceVersion)
       /\ Newer(status'.sinceVersion, status.sinceVersion)]_vars

-----------------------------------------------------------------------------
(* The abstract lifecycle this object implements. *)

Phase ==
  CASE status.state = "none"                   -> "absent"
    [] status.state \in {"pending", "blocked"} -> "converging"
    [] status.state = "applied"                -> "converged"
    [] status.state = "rejected"               -> "refused"

Lifecycle == INSTANCE ObjectLifecycle
               WITH version <- status.sinceVersion, phase <- Phase

(* Every event of the code is a step of the abstract lifecycle, or none:   *)
(* a refused version stays refused, and versions are followed in order.    *)
ImplementsLifecycle == Lifecycle!LifecycleSpec

-----------------------------------------------------------------------------
(* A caller that leaves AtMS at its zero value: the comment of Transition  *)
(* names the evidence each event requires and AtMS is not part of it, and  *)
(* AdvanceObject does not look at it.                                      *)

UnstampedAccept(v) == Deliver([Event("accepted", 0) EXCEPT !.version = v])

UnstampedNext ==
  \/ Next
  \/ \E v \in OfferedVersions : UnstampedAccept(v)

UnstampedSpec == Init /\ [][UnstampedNext]_vars

(* The un-converged state has a length (protocol/report.go, ObjectStatus:  *)
(* "SinceVersion and FirstFailedAtMS give the un-converged state a         *)
(* LENGTH"): for a pending or rejected object there is a time at which the *)
(* deadline has passed and an issue is raised.                             *)
UnconvergedHasLength ==
  status.state \in {"pending", "rejected"} =>
    TimeoutIssue(status, status.firstFailedAtMS + Timeout, Timeout) # "none"
=============================================================================
