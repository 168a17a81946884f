------------------------------ MODULE Envelope ------------------------------
(***************************************************************************)
(* The round-level values of a response (protocol/envelope.go) and the     *)
(* rules both peers apply to them: ValidateEnvelope, which decides whether *)
(* the round trip counts at all, and the two report cadences, which PSP    *)
(* must be able to predict.  Operators only.  The bounds of                *)
(* protocol/limits.go are parameters; seconds and bytes are integers.      *)
(***************************************************************************)
EXTENDS Integers

CONSTANTS DefaultNextPollSeconds, MaxNextPollSeconds, MaxFullReportSeconds,
          MinHostReportSeconds, MaxHostReportSeconds

ASSUME LimitsAssumption ==
  /\ DefaultNextPollSeconds \in Nat \ {0}
  /\ MaxNextPollSeconds \in Nat /\ DefaultNextPollSeconds <= MaxNextPollSeconds
  /\ MaxFullReportSeconds \in Nat \ {0}
  /\ MinHostReportSeconds \in Nat /\ MaxHostReportSeconds \in Nat

(* The values that state how old the aggregate is, and its residual. *)
ValidAggregate(e) ==
  /\ e.computedAtMS >= 0
  /\ e.numeratorAsOfMS >= 0
  /\ e.numeratorOldestReportAgeMS >= 0
  /\ e.overburnHeadroomBytes >= 0

(* Mutant: no upper bound on the poll interval. *)
ScheduleWithoutCeiling(e) ==
  /\ e.nextPollSeconds >= 0
  /\ e.fullReportSeconds \in 0..MaxFullReportSeconds
  /\ \/ e.hostReportSeconds = 0
     \/ e.hostReportSeconds \in MinHostReportSeconds..MaxHostReportSeconds

ValidSchedule(e) ==
  /\ e.nextPollSeconds \in 0..MaxNextPollSeconds
  /\ e.fullReportSeconds \in 0..MaxFullReportSeconds
  /\ \/ e.hostReportSeconds = 0
     \/ e.hostReportSeconds \in MinHostReportSeconds..MaxHostReportSeconds

ValidateEnvelope(e) == ValidAggregate(e) /\ ValidSchedule(e)

(* Mutant: an interval of zero silences the enumerations. *)
FullOnlyWhenDue(e, sinceLastFullSeconds) ==
  \/ e.wantFullReport
  \/ e.fullReportSeconds > 0 /\ sinceLastFullSeconds >= e.fullReportSeconds

(* An interval of zero means every report. *)
ShouldSendFull(e, sinceLastFullSeconds) ==
  \/ e.wantFullReport
  \/ e.fullReportSeconds <= 0
  \/ sinceLastFullSeconds >= e.fullReportSeconds

ShouldSendHost(e, sinceLastHostSeconds) ==
  \/ e.wantHostReport
  \/ e.hostReportSeconds <= 0
  \/ sinceLastHostSeconds >= e.hostReportSeconds

PollPeriod(nextPollSeconds) ==
  IF nextPollSeconds <= 0 THEN DefaultNextPollSeconds ELSE nextPollSeconds

(* Mutant: the interval is rounded down to a whole number of polls. *)
WholePolls(intervalSeconds, pollSeconds) ==
  (intervalSeconds \div pollSeconds) * pollSeconds

(* The first multiple of the poll period at or after the interval. *)
RoundedUpToPolls(intervalSeconds, pollSeconds) ==
  LET cycles == intervalSeconds \div pollSeconds IN
  IF intervalSeconds % pollSeconds # 0
  THEN (cycles + 1) * pollSeconds ELSE cycles * pollSeconds

EffectiveFullReportPeriod(fullReportSeconds, nextPollSeconds) ==
  LET poll == PollPeriod(nextPollSeconds) IN
  IF fullReportSeconds <= 0 \/ poll >= fullReportSeconds THEN poll
  ELSE RoundedUpToPolls(fullReportSeconds, poll)

(* Mutant: the interval asked for is taken for the one delivered. *)
RequestedHostReportPeriod(hostReportSeconds, nextPollSeconds) ==
  LET poll == PollPeriod(nextPollSeconds) IN
  IF hostReportSeconds <= 0 \/ poll >= hostReportSeconds THEN poll
  ELSE hostReportSeconds

EffectiveHostReportPeriod(hostReportSeconds, nextPollSeconds) ==
  LET poll == PollPeriod(nextPollSeconds) IN
  IF hostReportSeconds <= 0 \/ poll >= hostReportSeconds THEN poll
  ELSE RoundedUpToPolls(hostReportSeconds, poll)
=============================================================================
