------------------------------ MODULE Cadence ------------------------------
(***************************************************************************)
(* When an agent ships the full enumerations and a host sample, round      *)
(* after round (protocol/envelope.go).  The agent decides each report with *)
(* ShouldSendFull and ShouldSendHost from the last envelope it accepted    *)
(* and the seconds since it last sent one; PSP predicts the outcome with   *)
(* the two Effective...Period functions.                                   *)
(*                                                                         *)
(* The sync loop is not in the repository.  Taken from what the functions  *)
(* say of their arguments: the agent polls exactly one poll period after   *)
(* the previous round; a report counts as full when it is sent; a host     *)
(* sample that was due but dropped for its size does not count; before the *)
(* first one of a session both counts exceed any interval; and an envelope *)
(* that does not validate, or never arrives, leaves the last one in force. *)
(*                                                                         *)
(* One step is one round: report, answer, and the wait for the next poll.  *)
(***************************************************************************)
EXTENDS Envelope

CONSTANTS Schedules,    \* the envelopes PSP may answer with
          Never,        \* a count of seconds above any interval
          MaxDrops      \* bound: samples dropped in a row

ASSUME NeverAssumption ==
  /\ MaxDrops \in Nat /\ Never \in Nat
  /\ Never > MaxFullReportSeconds + MaxNextPollSeconds
  /\ Never > MaxHostReportSeconds + (MaxDrops + 1) * MaxNextPollSeconds

(* Whatever PSP answers, it decodes to integers and booleans. *)
ASSUME SchedulesAssumption ==
  \A e \in Schedules :
    /\ {e.nextPollSeconds, e.fullReportSeconds, e.hostReportSeconds} \subseteq Int
    /\ {e.wantFullReport, e.wantHostReport} \subseteq BOOLEAN

VARIABLES envelope,     \* the last envelope accepted
          sinceFull,    \* seconds since the last full report, at the next poll
          sinceHost,    \* seconds since the last host sample, at the next poll
          sent,         \* what the last report carried, and how old it was
          steadyFull,   \* history: no new envelope since the last full report
          steadyHost,   \* history: no new envelope since the last host sample
          drops         \* history: samples dropped since the last one sent

vars == <<envelope, sinceFull, sinceHost, sent, steadyFull, steadyHost, drops>>

(* Before any envelope: every cadence at its fail-safe value. *)
NoEnvelope == [computedAtMS |-> 0, numeratorAsOfMS |-> 0,
               numeratorOldestReportAgeMS |-> 0, overburnHeadroomBytes |-> 0,
               nextPollSeconds |-> 0, fullReportSeconds |-> 0,
               hostReportSeconds |-> 0,
               wantFullReport |-> FALSE, wantHostReport |-> FALSE]

Init ==
  /\ envelope = NoEnvelope
  /\ sinceFull = Never /\ sinceHost = Never
  /\ sent = [full |-> FALSE, host |-> FALSE, fullAge |-> 0, hostAge |-> 0]
  /\ steadyFull = FALSE /\ steadyHost = FALSE
  /\ drops = 0

(* Past Never nothing depends on the count any more. *)
Later(since, seconds) == IF since + seconds > Never THEN Never ELSE since + seconds

Round(answer, dropped) ==
  LET full == ShouldSendFull(envelope, sinceFull)
      host == ShouldSendHost(envelope, sinceHost) /\ ~dropped
      next == IF ValidateEnvelope(answer) THEN answer ELSE envelope
      wait == PollPeriod(next.nextPollSeconds)
  IN /\ dropped => drops < MaxDrops /\ ShouldSendHost(envelope, sinceHost)
     /\ sent' = [full |-> full, host |-> host,
                 fullAge |-> sinceFull, hostAge |-> sinceHost]
     /\ envelope' = next
     /\ sinceFull' = Later(IF full THEN 0 ELSE sinceFull, wait)
     /\ sinceHost' = Later(IF host THEN 0 ELSE sinceHost, wait)
     /\ steadyFull' = (full \/ (steadyFull /\ next = envelope))
     /\ steadyHost' = (host \/ (steadyHost /\ next = envelope))
     /\ drops' = IF host THEN 0 ELSE IF dropped THEN drops + 1 ELSE drops

(* No answer: the round trip failed and the agent polls again. *)
LostRound(dropped) == Round(envelope, dropped)

Next ==
  \/ \E answer \in Schedules, dropped \in BOOLEAN : Round(answer, dropped)
  \/ \E dropped \in BOOLEAN : LostRound(dropped)

Spec == Init /\ [][Next]_vars

-----------------------------------------------------------------------------
(* Properties *)

(* The counts stay within what the code's comparisons tell apart, and the  *)
(* schedule in force is within the protocol's limits.                      *)
TypeOK ==
  /\ envelope \in Schedules \cup {NoEnvelope}
  /\ envelope.nextPollSeconds \in 0..MaxNextPollSeconds
  /\ sinceFull \in 0..Never /\ sinceHost \in 0..Never
  /\ sent \in [full : BOOLEAN, host : BOOLEAN, fullAge : 0..Never, hostAge : 0..Never]
  /\ steadyFull \in BOOLEAN /\ steadyHost \in BOOLEAN
  /\ drops \in 0..MaxDrops

(* PSP predicts the agent: with one envelope in force from one full report *)
(* to the next, and lost rounds in between or not, the two are exactly     *)
(* EffectiveFullReportPeriod apart, whether or not the interval is a       *)
(* multiple of the poll period.                                            *)
FullPeriodIsPredicted ==
  [][steadyFull /\ sent'.full /\ ~envelope.wantFullReport =>
       sent'.fullAge = EffectiveFullReportPeriod(envelope.fullReportSeconds,
                                                 envelope.nextPollSeconds)]_vars

(* The same of host samples: a healthy node is never stale by the          *)
(* threshold PSP computes with EffectiveHostReportPeriod, and every sample *)
(* dropped for its size costs one poll, not another interval.              *)
HostPeriodIsPredicted ==
  [][steadyHost /\ sent'.host /\ ~envelope.wantHostReport =>
       sent'.hostAge = EffectiveHostReportPeriod(envelope.hostReportSeconds,
                                                 envelope.nextPollSeconds)
                         + drops * PollPeriod(envelope.nextPollSeconds)]_vars

(* No sequence of envelopes, valid or not, keeps the counters quiet: at    *)
(* every poll the last full report is less than the longest interval plus  *)
(* one poll period old, before the first one excepted.                     *)
CountersNeverGoQuiet ==
  sinceFull < Never => sinceFull < MaxFullReportSeconds + MaxNextPollSeconds
=============================================================================
