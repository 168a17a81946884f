---------------------------- MODULE ObjectStatus ----------------------------
(***************************************************************************)
(* The convergence state of one object (a listener or a client row) as the *)
(* agent keeps and reports it: ObjectStatus of protocol/report.go, the     *)
(* transition function AdvanceObject and the alert TimeoutIssue of         *)
(* protocol/conformance/object_state.go, and the shape check               *)
(* validateReportedObject of protocol/validate.go that every full report   *)
(* has to pass.                                                            *)
(*                                                                         *)
(* Operators only: ObjectState drives one object with them, Convergence a  *)
(* whole agent.  The stream and the key of a status never change and are   *)
(* left out; an issue code and a blocked_on key are opaque names, with     *)
(* NoName for the empty string.                                            *)
(***************************************************************************)
EXTENDS Version

CONSTANTS IssueCodes,     \* non-empty issue codes a core may give
          ListenerKeys,   \* canonical listener keys
          NoName          \* the empty string

ASSUME NamesAssumption == NoName \notin IssueCodes /\ NoName \notin ListenerKeys

ObjectStates == {"none", "applied", "pending", "rejected", "blocked"}

ObjectEvents == {"accepted", "applied", "retryable_failure", "rejected",
                 "dependency_blocked", "dependency_ready"}

Statuses == [state           : ObjectStates,
             sinceVersion    : Versions,
             firstFailedAtMS : Int,
             issueCode       : IssueCodes \cup {NoName},
             blockedOn       : ListenerKeys \cup {NoName}]

(* The zero value of the Go struct: nothing accepted yet ("none" is ""). *)
NewStatus == [state           |-> "none",
              sinceVersion    |-> NoVersion,
              firstFailedAtMS |-> 0,
              issueCode       |-> NoName,
              blockedOn       |-> NoName]

Transitions == [event     : ObjectEvents,
                version   : Versions,
                atMS      : Int,
                issueCode : IssueCodes \cup {NoName},
                blockedOn : ListenerKeys \cup {NoName}]

(* Mutant: the latest failure wins instead of the first. *)
LatestWins(current, candidate) == candidate

FirstNonZero(current, candidate) == IF current # 0 THEN current ELSE candidate

-----------------------------------------------------------------------------
(* acceptVersion *)

Redelivered(current, tr) == current.sinceVersion = tr.version

(* Mutant: the ordering test is dropped, any document is taken. *)
AcceptAnyVersion(current, tr) == Committed(tr.version)

AcceptPermitted(current, tr) ==
  /\ Committed(tr.version)
  /\ \/ Redelivered(current, tr)
     \/ Zero(current.sinceVersion)
     \/ Newer(tr.version, current.sinceVersion)

(* Mutant: a blocked object takes the new version over and stays blocked. *)
ReopenedUnlessBlocked(current, tr) ==
  [state           |-> IF current.state = "blocked" THEN "blocked" ELSE "pending",
   sinceVersion    |-> tr.version,
   firstFailedAtMS |-> tr.atMS,
   issueCode       |-> NoName,
   blockedOn       |-> current.blockedOn]

Reopened(current, tr) == [state           |-> "pending",
                          sinceVersion    |-> tr.version,
                          firstFailedAtMS |-> tr.atMS,
                          issueCode       |-> NoName,
                          blockedOn       |-> NoName]

(* Mutant: a document delivered twice is a new attempt. *)
AcceptReopens(current, tr) == Reopened(current, tr)

(* Re-delivery of the version already held changes nothing at all. *)
AcceptVersion(current, tr) ==
  IF Redelivered(current, tr) THEN current ELSE Reopened(current, tr)

-----------------------------------------------------------------------------
(* AdvanceObject: per event, the checks that return an error and the       *)
(* status returned when none of them fires.                                *)

(* Mutant: any object the agent holds may become applied. *)
ApplyAnything(current) == current.state # "none"

ApplyPermitted(current) == current.state \in {"pending", "blocked", "applied"}

(* Mutant: the failure start outlives the failure. *)
AppliedKeepsStart(current, tr) ==
  [current EXCEPT !.state = "applied", !.issueCode = NoName, !.blockedOn = NoName]

Applied(current, tr) ==
  [current EXCEPT !.state = "applied", !.firstFailedAtMS = 0,
                  !.issueCode = NoName, !.blockedOn = NoName]

RetryPermitted(current) == current.state \notin {"rejected", "none"}

RetryableFailure(current, tr) ==
  [current EXCEPT !.state = "pending", !.blockedOn = NoName,
                  !.firstFailedAtMS = FirstNonZero(@, tr.atMS)]

RejectPermitted(current, tr) ==
  /\ current.state \in {"pending", "rejected", "applied"}
  /\ tr.issueCode # NoName

Rejected(current, tr) ==
  [current EXCEPT !.state = "rejected", !.issueCode = tr.issueCode,
                  !.blockedOn = NoName,
                  !.firstFailedAtMS = FirstNonZero(@, tr.atMS)]

BlockPermitted(current, tr) ==
  /\ current.state \in {"pending", "applied", "blocked"}
  /\ tr.blockedOn # NoName

(* Mutant: the listener's key is written where the issue code belongs. *)
BlockedMisfiled(current, tr) ==
  [current EXCEPT !.state = "blocked", !.issueCode = tr.blockedOn,
                  !.blockedOn = NoName,
                  !.firstFailedAtMS = FirstNonZero(@, tr.atMS)]

DependencyBlocked(current, tr) ==
  [current EXCEPT !.state = "blocked", !.issueCode = NoName,
                  !.blockedOn = tr.blockedOn,
                  !.firstFailedAtMS = FirstNonZero(@, tr.atMS)]

DependencyReady(current, tr) ==
  [current EXCEPT !.state = "pending", !.blockedOn = NoName]

Permitted(current, tr) ==
  \/ tr.event = "accepted"           /\ AcceptPermitted(current, tr)
  \/ tr.event = "applied"            /\ ApplyPermitted(current)
  \/ tr.event = "retryable_failure"  /\ RetryPermitted(current)
  \/ tr.event = "rejected"           /\ RejectPermitted(current, tr)
  \/ tr.event = "dependency_blocked" /\ BlockPermitted(current, tr)
  \/ tr.event = "dependency_ready"   /\ current.state = "blocked"

Advanced(current, tr) ==
  CASE tr.event = "accepted"           -> AcceptVersion(current, tr)
    [] tr.event = "applied"            -> Applied(current, tr)
    [] tr.event = "retryable_failure"  -> RetryableFailure(current, tr)
    [] tr.event = "rejected"           -> Rejected(current, tr)
    [] tr.event = "dependency_blocked" -> DependencyBlocked(current, tr)
    [] tr.event = "dependency_ready"   -> DependencyReady(current, tr)

(* An error returns the status unchanged. *)
AdvanceObject(current, tr) ==
  IF Permitted(current, tr) THEN Advanced(current, tr) ELSE current

-----------------------------------------------------------------------------
(* TimeoutIssue: the code of the issue raised, or "none".  Only a          *)
(* positive timeout is asked for: the code refuses any other.              *)

(* Mutant: a pending object is left to itself. *)
TimeoutIssueRejectedOnly(status, nowMS, timeoutMS) ==
  IF /\ status.state = "rejected"
     /\ status.firstFailedAtMS > 0
     /\ nowMS - status.firstFailedAtMS >= timeoutMS
  THEN "object_rejected_timeout"
  ELSE "none"

TimeoutIssue(status, nowMS, timeoutMS) ==
  IF /\ status.state \in {"pending", "rejected"}
     /\ status.firstFailedAtMS > 0
     /\ nowMS - status.firstFailedAtMS >= timeoutMS
  THEN IF status.state = "rejected" THEN "object_rejected_timeout"
                                    ELSE "object_pending_timeout"
  ELSE "none"

-----------------------------------------------------------------------------
(* validateReportedObject: the shape each state must have on the wire.     *)

ValidReportedObject(status) ==
  LET hasStart == status.firstFailedAtMS # 0
      hasIssue == status.issueCode # NoName
      isHeld   == status.blockedOn # NoName
  IN /\ Committed(status.sinceVersion)
     /\ status.firstFailedAtMS >= 0
     /\ \/ status.state = "applied"  /\ ~hasStart /\ ~hasIssue /\ ~isHeld
        \/ status.state = "pending"  /\ hasStart  /\ ~hasIssue /\ ~isHeld
        \/ status.state = "rejected" /\ hasStart  /\ hasIssue  /\ ~isHeld
        \/ status.state = "blocked"  /\ hasStart  /\ ~hasIssue /\ isHeld
=============================================================================
