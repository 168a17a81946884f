---------------------------- MODULE CadenceProofs ----------------------------
(***************************************************************************)
(* No sequence of envelopes silences the counters, and what PSP predicts   *)
(* of the agent's reports is exact, for every value of the protocol's      *)
(* limits and every set of envelopes PSP may answer with.                  *)
(*                                                                         *)
(* The bound is inductive together with the types.  A report that is full  *)
(* restarts the count at one poll period; one that is not proves that the  *)
(* count is still below the interval in force, which ValidateEnvelope has  *)
(* bounded, and the next poll adds at most the longest poll period.        *)
(*                                                                         *)
(* The predictions rest on the beat of the polls (Rhythm): under one       *)
(* envelope a count is a whole number of polls, all but the last of which  *)
(* came before the interval had run out, dropped samples apart.            *)
(***************************************************************************)
EXTENDS Cadence, TLAPS

IInv == TypeOK /\ ValidSchedule(envelope) /\ CountersNeverGoQuiet

(* The schedule of an envelope in force is made of integers and booleans.  *)
LEMMA InForceIsTyped ==
  ASSUME NEW e \in Schedules \cup {NoEnvelope}
  PROVE  /\ e.nextPollSeconds \in Int /\ e.fullReportSeconds \in Int
         /\ e.hostReportSeconds \in Int
         /\ e.wantFullReport \in BOOLEAN /\ e.wantHostReport \in BOOLEAN
<1>1. CASE e \in Schedules
  <2>1. /\ {e.nextPollSeconds, e.fullReportSeconds, e.hostReportSeconds} \subseteq Int
        /\ {e.wantFullReport, e.wantHostReport} \subseteq BOOLEAN
    BY <1>1, SchedulesAssumption
  <2> QED BY <2>1
<1>2. CASE e = NoEnvelope
  BY <1>2 DEF NoEnvelope
<1> QED BY <1>1, <1>2

(* A poll period is never longer than the protocol's limit.                *)
LEMMA PollPeriodIsBounded ==
  ASSUME NEW seconds \in 0..MaxNextPollSeconds
  PROVE  PollPeriod(seconds) \in 1..MaxNextPollSeconds
BY LimitsAssumption DEF PollPeriod

(* Before the first round nothing has been sent and the fail-safe schedule *)
(* is in force.                                                            *)
LEMMA InitIInv == Init => IInv
<1> SUFFICES ASSUME Init PROVE IInv
  OBVIOUS
<1>1. 0 \in 0..Never /\ Never \in 0..Never /\ 0 \in 0..MaxDrops
  BY NeverAssumption
<1>2. ValidSchedule(envelope) /\ envelope.nextPollSeconds \in 0..MaxNextPollSeconds
  BY LimitsAssumption DEF Init, ValidSchedule, NoEnvelope
<1>3. sent \in [full : BOOLEAN, host : BOOLEAN, fullAge : 0..Never, hostAge : 0..Never]
  BY <1>1 DEF Init
<1>4. TypeOK
  BY <1>1, <1>2, <1>3 DEF Init, TypeOK
<1>5. CountersNeverGoQuiet
  BY NeverAssumption DEF Init, CountersNeverGoQuiet
<1> QED BY <1>2, <1>4, <1>5 DEF IInv

(* Counting on from a report, the count stays in its range.                *)
LEMMA LaterIsBounded ==
  ASSUME NEW since \in 0..Never, NEW seconds \in 1..MaxNextPollSeconds
  PROVE  /\ Later(since, seconds) \in 0..Never
         /\ Later(since, seconds) < Never => Later(since, seconds) = since + seconds
BY NeverAssumption, LimitsAssumption DEF Later

(* A full report is sent whenever the interval in force has run out.       *)
LEMMA LightReportIsRecent ==
  ASSUME NEW e \in Schedules \cup {NoEnvelope}, ValidSchedule(e),
         NEW since \in 0..Never, ~ShouldSendFull(e, since)
  PROVE  since < MaxFullReportSeconds
BY InForceIsTyped, LimitsAssumption DEF ShouldSendFull, ValidSchedule

(* A round preserves the invariant, whatever PSP answers.                  *)
LEMMA RoundKeepsIInv ==
  ASSUME IInv, NEW answer \in Schedules \cup {NoEnvelope}, NEW dropped \in BOOLEAN,
         Round(answer, dropped)
  PROVE  IInv'
<1> DEFINE full == ShouldSendFull(envelope, sinceFull)
           host == ShouldSendHost(envelope, sinceHost) /\ ~dropped
           next == IF ValidateEnvelope(answer) THEN answer ELSE envelope
           wait == PollPeriod(next.nextPollSeconds)
<1>1. /\ envelope \in Schedules \cup {NoEnvelope} /\ ValidSchedule(envelope)
      /\ sinceFull \in 0..Never /\ sinceHost \in 0..Never
      /\ steadyFull \in BOOLEAN /\ steadyHost \in BOOLEAN /\ drops \in 0..MaxDrops
  BY DEF IInv, TypeOK
<1>2. /\ dropped => drops < MaxDrops
      /\ sent' = [full |-> full, host |-> host, fullAge |-> sinceFull, hostAge |-> sinceHost]
      /\ envelope' = next
      /\ sinceFull' = Later(IF full THEN 0 ELSE sinceFull, wait)
      /\ sinceHost' = Later(IF host THEN 0 ELSE sinceHost, wait)
      /\ steadyFull' = (full \/ (steadyFull /\ next = envelope))
      /\ steadyHost' = (host \/ (steadyHost /\ next = envelope))
      /\ drops' = IF host THEN 0 ELSE IF dropped THEN drops + 1 ELSE drops
  BY DEF Round
<1>3. next \in Schedules \cup {NoEnvelope} /\ ValidSchedule(next)
  BY <1>1 DEF ValidateEnvelope
<1>4. next.nextPollSeconds \in 0..MaxNextPollSeconds /\ wait \in 1..MaxNextPollSeconds
  BY <1>3, PollPeriodIsBounded DEF ValidSchedule
<1>5. 0 \in 0..Never
  BY NeverAssumption, LimitsAssumption
<1>6. full \in BOOLEAN /\ host \in BOOLEAN
  BY DEF ShouldSendFull, ShouldSendHost
<1> HIDE DEF full, host, next, wait
<1>7. sinceFull' \in 0..Never /\ sinceHost' \in 0..Never
  <2>1. (IF full THEN 0 ELSE sinceFull) \in 0..Never
    BY <1>1, <1>5
  <2>2. (IF host THEN 0 ELSE sinceHost) \in 0..Never
    BY <1>1, <1>5
  <2> QED BY <1>2, <1>4, <2>1, <2>2, LaterIsBounded
<1>8. CountersNeverGoQuiet'
  <2> SUFFICES ASSUME sinceFull' < Never
               PROVE  sinceFull' < MaxFullReportSeconds + MaxNextPollSeconds
    BY DEF CountersNeverGoQuiet
  <2>1. CASE full
    <3>1. sinceFull' = 0 + wait
      BY <1>2, <1>4, <1>5, <2>1, LaterIsBounded
    <3> QED BY <3>1, <1>4, LimitsAssumption
  <2>2. CASE ~full
    <3>1. sinceFull < MaxFullReportSeconds
      BY <1>1, <2>2, LightReportIsRecent DEF full
    <3>2. sinceFull' = sinceFull + wait
      BY <1>1, <1>2, <1>4, <2>2, LaterIsBounded
    <3> QED BY <3>1, <3>2, <1>1, <1>4, LimitsAssumption
  <2> QED BY <2>1, <2>2
<1>9. sent' \in [full : BOOLEAN, host : BOOLEAN, fullAge : 0..Never, hostAge : 0..Never]
  BY <1>1, <1>2, <1>6
<1>10. steadyFull' \in BOOLEAN /\ steadyHost' \in BOOLEAN
  BY <1>2
<1>11. drops' \in 0..MaxDrops
  BY <1>1, <1>2, NeverAssumption
<1> QED
  BY <1>2, <1>3, <1>4, <1>7, <1>8, <1>9, <1>10, <1>11 DEF IInv, TypeOK

(* Neither an answered nor a lost round breaks the invariant.              *)
LEMMA NextIInv == IInv /\ [Next]_vars => IInv'
<1> SUFFICES ASSUME IInv, [Next]_vars PROVE IInv'
  OBVIOUS
<1>1. ASSUME NEW answer \in Schedules, NEW dropped \in BOOLEAN, Round(answer, dropped)
      PROVE  IInv'
  BY <1>1, RoundKeepsIInv
<1>2. ASSUME NEW dropped \in BOOLEAN, LostRound(dropped)
      PROVE  IInv'
  BY <1>2, RoundKeepsIInv DEF LostRound, IInv, TypeOK
<1>3. CASE UNCHANGED vars
  BY <1>3 DEF vars, IInv, TypeOK, ValidSchedule, CountersNeverGoQuiet
<1> QED BY <1>1, <1>2, <1>3 DEF Next

(* The inductive invariant holds round after round.                        *)
THEOREM Invariance == Spec => []IInv
<1>1. Init => IInv BY InitIInv
<1>2. IInv /\ [Next]_vars => IInv' BY NextIInv
<1> QED BY <1>1, <1>2, PTL DEF Spec

(* The agent's schedule stays within the protocol's limits and its counts  *)
(* within their range (ValidateEnvelope, ShouldSendFull, ShouldSendHost).  *)
THEOREM TypeCorrect == Spec => []TypeOK
<1>1. IInv => TypeOK BY DEF IInv
<1> QED BY <1>1, Invariance, PTL

(* At every poll the last full report is less than the longest interval    *)
(* plus one poll period old (ShouldSendFull, ValidateEnvelope).            *)
THEOREM CountersKeepFlowing == Spec => []CountersNeverGoQuiet
<1>1. IInv => CountersNeverGoQuiet BY DEF IInv
<1> QED BY <1>1, Invariance, PTL

-----------------------------------------------------------------------------
(* The predicted periods.  With one envelope in force since the last       *)
(* report of its kind, the count is a whole number of polls: m that were   *)
(* too early, one that was not, and those whose sample was dropped.        *)

OnBeat(since, interval, want, poll, missed) ==
  \E m \in Nat :
    /\ since = (m + 1) * poll + missed * poll
    /\ m = 0 \/ (~want /\ m * poll < interval)
    /\ missed > 0 => want \/ interval <= (m + 1) * poll

Rhythm ==
  /\ steadyFull => OnBeat(sinceFull, envelope.fullReportSeconds, envelope.wantFullReport,
                          PollPeriod(envelope.nextPollSeconds), 0)
  /\ steadyHost => OnBeat(sinceHost, envelope.hostReportSeconds, envelope.wantHostReport,
                          PollPeriod(envelope.nextPollSeconds), drops)

(* Products by a period grow with their factor.                            *)
LEMMA Products ==
  ASSUME NEW p \in Nat \ {0}, NEW a \in Nat, NEW b \in Nat
  PROVE  /\ a * p \in Nat
         /\ a <= b => a * p <= b * p
         /\ a * p < b * p => a < b
         /\ (a + 1) * p = a * p + p
<1>1. a * p \in Nat /\ b * p \in Nat /\ (a + 1) * p = a * p + p
  OBVIOUS
<1>2. ASSUME a <= b PROVE a * p <= b * p
  <2>1. b - a \in Nat /\ b = a + (b - a)
    BY <1>2
  <2>2. (b - a) * p \in Nat
    BY <2>1
  <2>3. b * p = a * p + (b - a) * p
    BY <2>1
  <2> QED BY <1>1, <2>2, <2>3
<1>3. ASSUME b <= a PROVE b * p <= a * p
  <2>1. a - b \in Nat /\ a = b + (a - b)
    BY <1>3
  <2>2. (a - b) * p \in Nat
    BY <2>1
  <2>3. a * p = b * p + (a - b) * p
    BY <2>1
  <2> QED BY <1>1, <2>2, <2>3
<1> QED BY <1>1, <1>2, <1>3

(* The first whole number of polls that is not before the interval.        *)
LEMMA RoundedUp ==
  ASSUME NEW interval \in Nat, NEW p \in Nat \ {0}, NEW m \in Nat,
         m * p < interval, interval <= (m + 1) * p
  PROVE  RoundedUpToPolls(interval, p) = (m + 1) * p
<1> DEFINE c == interval \div p
           r == interval % p
<1>1. c \in Nat /\ r \in 0..(p - 1) /\ interval = c * p + r
  <2>1. c \in Int /\ r \in 0..(p - 1) /\ interval = p * c + r
    OBVIOUS
  <2>2. p * c = c * p
    BY <2>1
  <2>3. c >= 0
    <3> SUFFICES ASSUME c <= -1 PROVE FALSE
      BY <2>1
    <3> HIDE DEF c, r
    <3>1. -1 - c \in Nat
      BY <2>1
    <3>2. (-1 - c) * p \in Nat
      BY <3>1
    <3>3. (-1 - c) * p = -p - c * p
      BY <2>1
    <3> QED BY <2>1, <2>2, <3>2, <3>3
  <2> HIDE DEF c, r
  <2> QED BY <2>1, <2>2, <2>3
<1>2. RoundedUpToPolls(interval, p) = IF r # 0 THEN (c + 1) * p ELSE c * p
  BY DEF RoundedUpToPolls
<1> HIDE DEF c, r
<1>3. m * p \in Nat /\ c * p \in Nat /\ (m + 1) * p = m * p + p /\ (c + 1) * p = c * p + p
  BY <1>1, Products
<1>4. CASE r = 0
  <2>1. m * p < c * p /\ c * p <= (m + 1) * p
    BY <1>1, <1>3, <1>4
  <2>2. m < c
    BY <1>1, <2>1, Products
  <2>3. c <= m + 1
    <3> SUFFICES ASSUME m + 2 <= c PROVE FALSE
      BY <1>1
    <3>1. (m + 2) * p <= c * p /\ (m + 2) * p = (m + 1) * p + p
      BY <1>1, Products
    <3> QED BY <1>3, <2>1, <3>1
  <2>4. c = m + 1
    BY <1>1, <2>2, <2>3
  <2> QED BY <1>2, <1>4, <2>4
<1>5. CASE r # 0
  <2>1. c * p < (m + 1) * p /\ m * p < (c + 1) * p
    BY <1>1, <1>3, <1>5
  <2>2. c < m + 1 /\ m < c + 1
    BY <1>1, <2>1, Products
  <2>3. c = m
    BY <1>1, <2>2
  <2> QED BY <1>2, <1>5, <2>3
<1> QED BY <1>4, <1>5

(* What a count on the beat says when the report is sent at last: how the  *)
(* two Effective...Period functions define the period.                     *)
LEMMA PeriodIsKept ==
  ASSUME NEW since \in Nat, NEW interval \in Nat, NEW p \in Nat \ {0}, NEW missed \in Nat,
         OnBeat(since, interval, FALSE, p, missed),
         interval <= 0 \/ since >= interval
  PROVE  since = (IF interval <= 0 \/ p >= interval THEN p ELSE RoundedUpToPolls(interval, p))
                   + missed * p
<1>1. PICK m \in Nat : /\ since = (m + 1) * p + missed * p
                       /\ m = 0 \/ m * p < interval
                       /\ missed > 0 => interval <= (m + 1) * p
  BY DEF OnBeat
<1>2. (m + 1) * p \in Nat /\ missed * p \in Nat /\ (0 + 1) * p = p
  BY Products
<1>3. interval <= (m + 1) * p
  <2>1. CASE missed > 0
    BY <1>1, <2>1
  <2>2. CASE missed = 0
    <3>1. missed * p = 0
      BY <2>2
    <3> QED BY <1>1, <1>2, <3>1
  <2> QED BY <2>1, <2>2
<1>4. CASE interval <= 0 \/ p >= interval
  <2>1. m = 0
    <3> SUFFICES ASSUME m >= 1, m * p < interval PROVE FALSE
      BY <1>1
    <3>1. 1 * p <= m * p
      BY Products
    <3> QED BY <1>4, <3>1
  <2>2. (m + 1) * p = p
    BY <1>2, <2>1
  <2> QED BY <1>1, <1>4, <2>2
<1>5. CASE ~(interval <= 0 \/ p >= interval)
  <2>1. m # 0
    BY <1>2, <1>3, <1>5
  <2>2. RoundedUpToPolls(interval, p) = (m + 1) * p
    BY <1>1, <1>3, <2>1, RoundedUp
  <2> QED BY <1>1, <1>5, <2>2
<1> QED BY <1>4, <1>5

(* A poll that is too early adds a beat; a dropped sample adds a miss.     *)
LEMMA BeatGoesOn ==
  ASSUME NEW since \in Nat, NEW interval \in Nat, NEW p \in Nat \ {0}, NEW missed \in Nat,
         NEW want \in BOOLEAN, OnBeat(since, interval, want, p, missed)
  PROVE  /\ ~want /\ since < interval => missed = 0 /\ OnBeat(since + p, interval, want, p, missed)
         /\ want \/ interval <= 0 \/ since >= interval =>
              OnBeat(since + p, interval, want, p, missed + 1)
<1>1. PICK m \in Nat : /\ since = (m + 1) * p + missed * p
                       /\ m = 0 \/ (~want /\ m * p < interval)
                       /\ missed > 0 => want \/ interval <= (m + 1) * p
  BY DEF OnBeat
<1>2. /\ (m + 1) * p \in Nat /\ missed * p \in Nat
      /\ ((m + 1) + 1) * p = (m + 1) * p + p
      /\ (missed + 1) * p = missed * p + p
  BY Products
<1>3. ASSUME ~want, since < interval
      PROVE  missed = 0 /\ OnBeat(since + p, interval, want, p, missed)
  <2>1. missed = 0
    BY <1>1, <1>2, <1>3
  <2>2. missed * p = 0
    BY <2>1
  <2>3. /\ since + p = ((m + 1) + 1) * p + missed * p
        /\ ~want /\ (m + 1) * p < interval
    BY <1>1, <1>2, <1>3, <2>2
  <2>4. m + 1 \in Nat /\ ~(missed > 0)
    BY <2>1
  <2> QED BY <2>1, <2>3, <2>4 DEF OnBeat
<1>4. ASSUME want \/ interval <= 0 \/ since >= interval
      PROVE  OnBeat(since + p, interval, want, p, missed + 1)
  <2>1. want \/ interval <= (m + 1) * p
    <3>1. CASE missed > 0
      BY <1>1, <3>1
    <3>2. CASE missed = 0
      <4>1. missed * p = 0
        BY <3>2
      <4> QED BY <1>1, <1>2, <1>4, <4>1
    <3> QED BY <3>1, <3>2
  <2>2. since + p = (m + 1) * p + (missed + 1) * p
    BY <1>1, <1>2
  <2> QED BY <1>1, <2>1, <2>2 DEF OnBeat
<1> QED BY <1>3, <1>4

(* The first count after a report is on the beat.                          *)
LEMMA BeatStarts ==
  ASSUME NEW interval \in Nat, NEW p \in Nat \ {0}, NEW want
  PROVE  OnBeat(p, interval, want, p, 0)
<1>1. p = (0 + 1) * p + 0 * p /\ 0 \in Nat /\ ~(0 > 0)
  OBVIOUS
<1> QED BY <1>1 DEF OnBeat

(* A count on the beat is one that Later has not cut off.                  *)
LEMMA BeatIsBounded ==
  ASSUME NEW since \in Nat, NEW interval \in Nat, NEW p \in Nat \ {0}, NEW missed \in Nat,
         NEW want, NEW most \in Nat, NEW longest \in Nat, NEW ceiling \in Nat,
         OnBeat(since, interval, want, p, missed),
         missed <= most, p <= longest, interval <= ceiling
  PROVE  since <= ceiling + (most + 1) * longest
<1>1. PICK m \in Nat : /\ since = (m + 1) * p + missed * p
                       /\ m = 0 \/ m * p < interval
  BY DEF OnBeat
<1>2. /\ (m + 1) * p = m * p + p /\ m * p \in Nat /\ 0 * p = 0
      /\ (missed + 1) * p = missed * p + p /\ missed * p \in Nat
      /\ (missed + 1) * p <= (most + 1) * p
  BY Products
<1>3. (most + 1) * p <= (most + 1) * longest
  <2>1. longest \in Nat \ {0} /\ most + 1 \in Nat \ {0}
    OBVIOUS
  <2>2. p * (most + 1) <= longest * (most + 1)
    BY <2>1, Products
  <2>3. p * (most + 1) = (most + 1) * p /\ longest * (most + 1) = (most + 1) * longest
    OBVIOUS
  <2> QED BY <2>2, <2>3
<1>4. m * p <= ceiling
  BY <1>1, <1>2
<1>5. (most + 1) * p \in Nat /\ (most + 1) * longest \in Nat
  OBVIOUS
<1> QED BY <1>1, <1>2, <1>3, <1>4, <1>5

(* Nothing has been counted yet.                                           *)
LEMMA RhythmAtFirst == Init => Rhythm
BY DEF Init, Rhythm

(* A round adds a poll to the count, restarts it, or changes the envelope  *)
(* and so the rhythm.                                                      *)
LEMMA RoundKeepsRhythm ==
  ASSUME IInv, Rhythm, NEW answer \in Schedules \cup {NoEnvelope}, NEW dropped \in BOOLEAN,
         Round(answer, dropped)
  PROVE  Rhythm'
<1> DEFINE full == ShouldSendFull(envelope, sinceFull)
           due  == ShouldSendHost(envelope, sinceHost)
           host == due /\ ~dropped
           next == IF ValidateEnvelope(answer) THEN answer ELSE envelope
           wait == PollPeriod(next.nextPollSeconds)
           poll == PollPeriod(envelope.nextPollSeconds)
           F    == envelope.fullReportSeconds
           H    == envelope.hostReportSeconds
<1>1. /\ envelope \in Schedules \cup {NoEnvelope} /\ ValidSchedule(envelope)
      /\ sinceFull \in Nat /\ sinceHost \in Nat /\ sinceFull \in 0..Never /\ sinceHost \in 0..Never
      /\ drops \in Nat /\ drops <= MaxDrops
  BY NeverAssumption DEF IInv, TypeOK
<1>2. /\ dropped => drops < MaxDrops /\ due
      /\ envelope' = next
      /\ sinceFull' = Later(IF full THEN 0 ELSE sinceFull, wait)
      /\ sinceHost' = Later(IF host THEN 0 ELSE sinceHost, wait)
      /\ steadyFull' = (full \/ (steadyFull /\ next = envelope))
      /\ steadyHost' = (host \/ (steadyHost /\ next = envelope))
      /\ drops' = IF host THEN 0 ELSE IF dropped THEN drops + 1 ELSE drops
  BY DEF Round
<1>3. next \in Schedules \cup {NoEnvelope} /\ ValidSchedule(next)
  BY <1>1 DEF ValidateEnvelope
<1>4. \A e \in Schedules \cup {NoEnvelope} : ValidSchedule(e) =>
        /\ PollPeriod(e.nextPollSeconds) \in Nat \ {0}
        /\ PollPeriod(e.nextPollSeconds) <= MaxNextPollSeconds
        /\ e.fullReportSeconds \in Nat /\ e.fullReportSeconds <= MaxFullReportSeconds
        /\ e.hostReportSeconds \in Nat /\ e.hostReportSeconds <= MaxHostReportSeconds
        /\ e.wantFullReport \in BOOLEAN /\ e.wantHostReport \in BOOLEAN
  <2> SUFFICES ASSUME NEW e \in Schedules \cup {NoEnvelope}, ValidSchedule(e)
               PROVE  /\ PollPeriod(e.nextPollSeconds) \in Nat \ {0}
                      /\ PollPeriod(e.nextPollSeconds) <= MaxNextPollSeconds
                      /\ e.fullReportSeconds \in Nat /\ e.fullReportSeconds <= MaxFullReportSeconds
                      /\ e.hostReportSeconds \in Nat /\ e.hostReportSeconds <= MaxHostReportSeconds
                      /\ e.wantFullReport \in BOOLEAN /\ e.wantHostReport \in BOOLEAN
    OBVIOUS
  <2>1. PollPeriod(e.nextPollSeconds) \in 1..MaxNextPollSeconds
    BY PollPeriodIsBounded DEF ValidSchedule
  <2> QED BY <2>1, InForceIsTyped, LimitsAssumption DEF ValidSchedule
<1>5. \A since \in Nat, most \in Nat, ceiling \in Nat :
         /\ since + wait <= ceiling + (most + 1) * MaxNextPollSeconds
         /\ ceiling + (most + 1) * MaxNextPollSeconds < Never
         => Later(since, wait) = since + wait
  <2>1. wait \in Nat /\ MaxNextPollSeconds \in Nat /\ Never \in Nat
    BY <1>3, <1>4, LimitsAssumption, NeverAssumption
  <2> HIDE DEF wait
  <2>2. \A most \in Nat : (most + 1) * MaxNextPollSeconds \in Nat
    BY <2>1
  <2> QED BY <2>1, <2>2 DEF Later
<1>6. /\ MaxFullReportSeconds + (0 + 1) * MaxNextPollSeconds < Never
      /\ MaxHostReportSeconds + (MaxDrops + 1) * MaxNextPollSeconds < Never
      /\ MaxFullReportSeconds \in Nat /\ MaxHostReportSeconds \in Nat /\ MaxDrops \in Nat
      /\ MaxNextPollSeconds \in Nat /\ Never \in Nat
  <2>1. (0 + 1) * MaxNextPollSeconds = MaxNextPollSeconds
    BY LimitsAssumption
  <2> QED BY <2>1, NeverAssumption, LimitsAssumption
<1> DEFINE nF == next.fullReportSeconds
           nH == next.hostReportSeconds
<1>7. /\ wait \in Nat \ {0} /\ wait <= MaxNextPollSeconds
      /\ nF \in Nat /\ nF <= MaxFullReportSeconds /\ nH \in Nat /\ nH <= MaxHostReportSeconds
      /\ F \in Nat /\ F <= MaxFullReportSeconds /\ H \in Nat /\ H <= MaxHostReportSeconds
      /\ poll \in Nat \ {0} /\ poll <= MaxNextPollSeconds
      /\ envelope.wantFullReport \in BOOLEAN /\ envelope.wantHostReport \in BOOLEAN
  BY <1>1, <1>3, <1>4
<1>8. next = envelope => wait = poll
  OBVIOUS
<1>9. ~full => ~envelope.wantFullReport /\ sinceFull < F
  BY <1>1, <1>7 DEF ShouldSendFull
<1>10. /\ ~due => ~envelope.wantHostReport /\ sinceHost < H
       /\ due => envelope.wantHostReport \/ H <= 0 \/ sinceHost >= H
  BY <1>1, <1>7 DEF ShouldSendHost
<1>11. ASSUME steadyFull'
       PROVE  OnBeat(sinceFull', nF, next.wantFullReport, wait, 0)
  <2>1. CASE full
    <3>1. OnBeat(wait, nF, next.wantFullReport, wait, 0)
      BY <1>7, BeatStarts
    <3>2. sinceFull' = Later(0, wait) /\ 0 + wait = wait
      BY <1>2, <1>7, <2>1
    <3> HIDE DEF wait, nF, next, full
    <3>3. 0 \in Nat /\ 0 <= 0
      OBVIOUS
    <3>4. wait <= MaxFullReportSeconds + (0 + 1) * MaxNextPollSeconds
      BY <1>6, <1>7, <3>1, <3>3, BeatIsBounded
    <3>5. Later(0, wait) = 0 + wait
      BY <1>5, <1>6, <3>2, <3>3, <3>4
    <3> QED BY <3>1, <3>2, <3>5
  <2>2. CASE ~full
    <3>1. steadyFull /\ next = envelope
      BY <1>2, <1>11, <2>2
    <3>2. OnBeat(sinceFull, F, envelope.wantFullReport, poll, 0)
      BY <3>1 DEF Rhythm
    <3>3. OnBeat(sinceFull + poll, F, envelope.wantFullReport, poll, 0)
      <4>1. /\ sinceFull \in Nat /\ F \in Nat /\ poll \in Nat \ {0} /\ 0 \in Nat
            /\ envelope.wantFullReport \in BOOLEAN
        BY <1>1, <1>7
      <4>2. ~envelope.wantFullReport /\ sinceFull < F
        BY <1>9, <2>2
      <4> HIDE DEF IInv, F, poll
      <4> QED BY <3>2, <4>1, <4>2, BeatGoesOn
    <3>4. sinceFull + poll <= MaxFullReportSeconds + (0 + 1) * MaxNextPollSeconds
      <4> HIDE DEF poll, F
      <4>1. sinceFull + poll \in Nat /\ 0 \in Nat /\ 0 <= 0
        BY <1>1, <1>7
      <4> QED BY <1>6, <1>7, <3>3, <4>1, BeatIsBounded
    <3>5. sinceFull' = Later(sinceFull, wait) /\ wait = poll
      BY <1>2, <1>8, <2>2, <3>1
    <3> HIDE DEF wait, poll
    <3>6. sinceFull' = sinceFull + poll
      BY <1>1, <1>5, <1>6, <3>4, <3>5
    <3> QED BY <3>1, <3>3, <3>5, <3>6
  <2> QED BY <2>1, <2>2
<1>12. ASSUME steadyHost'
       PROVE  OnBeat(sinceHost', nH, next.wantHostReport, wait, drops')
  <2>1. CASE host
    <3>1. OnBeat(wait, nH, next.wantHostReport, wait, 0)
      BY <1>7, BeatStarts
    <3>2. sinceHost' = Later(0, wait) /\ 0 + wait = wait /\ drops' = 0
      BY <1>2, <1>7, <2>1
    <3> HIDE DEF wait, nH, next, host
    <3>3. 0 \in Nat /\ 0 <= MaxDrops
      BY <1>6
    <3>4. wait <= MaxHostReportSeconds + (MaxDrops + 1) * MaxNextPollSeconds
      BY <1>6, <1>7, <3>1, <3>3, BeatIsBounded
    <3>5. Later(0, wait) = 0 + wait
      BY <1>5, <1>6, <3>2, <3>3, <3>4
    <3> QED BY <3>1, <3>2, <3>5
  <2>2. CASE ~host
    <3>1. steadyHost /\ next = envelope
      BY <1>2, <1>12, <2>2
    <3>2. OnBeat(sinceHost, H, envelope.wantHostReport, poll, drops)
      BY <3>1 DEF Rhythm
    <3>3. drops' \in Nat /\ drops' <= MaxDrops
          /\ OnBeat(sinceHost + poll, H, envelope.wantHostReport, poll, drops')
      <4>1. CASE dropped
        <5>1. drops' = drops + 1 /\ drops < MaxDrops /\ due
          BY <1>2, <2>2, <4>1
        <5>2. OnBeat(sinceHost + poll, H, envelope.wantHostReport, poll, drops + 1)
          <6>1. /\ sinceHost \in Nat /\ H \in Nat /\ poll \in Nat \ {0} /\ drops \in Nat
                /\ envelope.wantHostReport \in BOOLEAN
            BY <1>1, <1>7
          <6>2. envelope.wantHostReport \/ H <= 0 \/ sinceHost >= H
            BY <1>10, <5>1
          <6> HIDE DEF IInv, H, poll
          <6> QED BY <3>2, <6>1, <6>2, BeatGoesOn
        <5> QED BY <1>1, <1>6, <5>1, <5>2
      <4>2. CASE ~dropped
        <5>1. drops' = drops /\ ~due
          BY <1>2, <2>2, <4>2
        <5>2. OnBeat(sinceHost + poll, H, envelope.wantHostReport, poll, drops)
          <6>1. /\ sinceHost \in Nat /\ H \in Nat /\ poll \in Nat \ {0} /\ drops \in Nat
                /\ envelope.wantHostReport \in BOOLEAN
            BY <1>1, <1>7
          <6>2. ~envelope.wantHostReport /\ sinceHost < H
            BY <1>10, <5>1
          <6> HIDE DEF IInv, H, poll
          <6> QED BY <3>2, <6>1, <6>2, BeatGoesOn
        <5>3. drops \in Nat /\ drops <= MaxDrops
          BY <1>1
        <5> QED BY <5>1, <5>2, <5>3, Zenon
      <4> QED BY <4>1, <4>2
    <3>4. sinceHost + poll <= MaxHostReportSeconds + (MaxDrops + 1) * MaxNextPollSeconds
      <4> HIDE DEF poll, H
      <4>1. sinceHost + poll \in Nat
        BY <1>1, <1>7
      <4> QED BY <1>6, <1>7, <3>3, <4>1, BeatIsBounded
    <3>5. sinceHost' = Later(sinceHost, wait) /\ wait = poll
      BY <1>2, <1>8, <2>2, <3>1
    <3> HIDE DEF wait, poll
    <3>6. sinceHost' = sinceHost + poll
      BY <1>1, <1>5, <1>6, <3>4, <3>5
    <3> QED BY <3>1, <3>3, <3>5, <3>6
  <2> QED BY <2>1, <2>2
<1> QED
  <2>1. /\ envelope'.fullReportSeconds = nF /\ envelope'.wantFullReport = next.wantFullReport
        /\ envelope'.hostReportSeconds = nH /\ envelope'.wantHostReport = next.wantHostReport
        /\ PollPeriod(envelope'.nextPollSeconds) = wait
    BY <1>2
  <2> HIDE DEF next, wait, nF, nH
  <2> QED BY <1>11, <1>12, <2>1 DEF Rhythm

(* Under one envelope the counts stay on the beat of the polls, round      *)
(* after round (ShouldSendFull, ShouldSendHost).                           *)
THEOREM RhythmIsKept == Spec => [](IInv /\ Rhythm)
<1>1. ASSUME IInv, Rhythm, [Next]_vars PROVE Rhythm'
  <2>1. ASSUME NEW answer \in Schedules, NEW dropped \in BOOLEAN, Round(answer, dropped)
        PROVE  Rhythm'
    BY <1>1, <2>1, RoundKeepsRhythm
  <2>2. ASSUME NEW dropped \in BOOLEAN, LostRound(dropped)
        PROVE  Rhythm'
    BY <1>1, <2>2, RoundKeepsRhythm DEF LostRound, IInv, TypeOK
  <2>3. CASE UNCHANGED vars
    BY <1>1, <2>3 DEF vars, Rhythm, OnBeat
  <2> QED BY <1>1, <2>1, <2>2, <2>3 DEF Next
<1>2. Init => IInv /\ Rhythm
  BY InitIInv, RhythmAtFirst
<1>3. IInv /\ Rhythm /\ [Next]_vars => (IInv /\ Rhythm)'
  BY <1>1, NextIInv
<1> QED BY <1>2, <1>3, PTL DEF Spec

(* What a round sends, in terms of the counts that led to it.              *)
LEMMA RoundSends ==
  ASSUME IInv, [Next]_vars
  PROVE  \/ UNCHANGED vars
         \/ /\ sent'.fullAge = sinceFull /\ sent'.hostAge = sinceHost
            /\ sent'.full => ShouldSendFull(envelope, sinceFull)
            /\ sent'.host => ShouldSendHost(envelope, sinceHost)
BY DEF Next, LostRound, Round

(* Whatever is in force and counted is a number.                           *)
LEMMA InForceIsNatural ==
  ASSUME IInv
  PROVE  /\ PollPeriod(envelope.nextPollSeconds) \in Nat \ {0}
         /\ envelope.fullReportSeconds \in Nat /\ envelope.hostReportSeconds \in Nat
         /\ sinceFull \in Nat /\ sinceHost \in Nat /\ drops \in Nat
         /\ envelope.wantFullReport \in BOOLEAN /\ envelope.wantHostReport \in BOOLEAN
<1>1. PollPeriod(envelope.nextPollSeconds) \in 1..MaxNextPollSeconds
  BY PollPeriodIsBounded DEF IInv, ValidSchedule
<1> QED BY <1>1, InForceIsTyped, LimitsAssumption DEF IInv, TypeOK, ValidSchedule

(* PSP's prediction of full reports is exact for every interval and poll   *)
(* period, multiples of each other or not, over lost rounds                *)
(* (EffectiveFullReportPeriod, ShouldSendFull).                            *)
THEOREM FullReportsArePredicted == Spec => FullPeriodIsPredicted
<1> DEFINE P == EffectiveFullReportPeriod(envelope.fullReportSeconds, envelope.nextPollSeconds)
<1>1. ASSUME IInv, Rhythm, [Next]_vars
      PROVE  [steadyFull /\ sent'.full /\ ~envelope.wantFullReport => sent'.fullAge = P]_vars
  <2> SUFFICES ASSUME steadyFull, sent'.full, ~envelope.wantFullReport, ~UNCHANGED vars
               PROVE  sent'.fullAge = P
    OBVIOUS
  <2> DEFINE poll == PollPeriod(envelope.nextPollSeconds)
             F    == envelope.fullReportSeconds
  <2>1. sent'.fullAge = sinceFull /\ (F <= 0 \/ sinceFull >= F)
    BY <1>1, RoundSends DEF ShouldSendFull
  <2>2. OnBeat(sinceFull, F, FALSE, poll, 0)
    BY <1>1, InForceIsNatural DEF Rhythm
  <2>3. P = IF F <= 0 \/ poll >= F THEN poll ELSE RoundedUpToPolls(F, poll)
    BY DEF EffectiveFullReportPeriod
  <2>4. poll \in Nat \ {0} /\ F \in Nat /\ sinceFull \in Nat /\ 0 \in Nat
    BY <1>1, InForceIsNatural
  <2> HIDE DEF P, poll, F
  <2>5. sinceFull = P + 0 * poll
    BY <2>1, <2>2, <2>3, <2>4, PeriodIsKept
  <2>6. 0 * poll = 0 /\ P \in Int
    BY <2>3, <2>4 DEF RoundedUpToPolls
  <2>7. P = sinceFull
    BY <2>5, <2>6
  <2> QED BY <2>1, <2>7
<1> QED BY <1>1, RhythmIsKept, PTL DEF FullPeriodIsPredicted, Spec

(* So is that of host samples, every dropped sample costing one poll       *)
(* (EffectiveHostReportPeriod, ShouldSendHost).                            *)
THEOREM HostSamplesArePredicted == Spec => HostPeriodIsPredicted
<1> DEFINE P == EffectiveHostReportPeriod(envelope.hostReportSeconds, envelope.nextPollSeconds)
<1>1. ASSUME IInv, Rhythm, [Next]_vars
      PROVE  [steadyHost /\ sent'.host /\ ~envelope.wantHostReport =>
                sent'.hostAge = P + drops * PollPeriod(envelope.nextPollSeconds)]_vars
  <2> SUFFICES ASSUME steadyHost, sent'.host, ~envelope.wantHostReport, ~UNCHANGED vars
               PROVE  sent'.hostAge = P + drops * PollPeriod(envelope.nextPollSeconds)
    OBVIOUS
  <2> DEFINE poll == PollPeriod(envelope.nextPollSeconds)
             H    == envelope.hostReportSeconds
  <2>1. sent'.hostAge = sinceHost /\ (H <= 0 \/ sinceHost >= H)
    BY <1>1, RoundSends DEF ShouldSendHost
  <2>2. OnBeat(sinceHost, H, FALSE, poll, drops)
    BY <1>1, InForceIsNatural DEF Rhythm
  <2>3. P = IF H <= 0 \/ poll >= H THEN poll ELSE RoundedUpToPolls(H, poll)
    BY DEF EffectiveHostReportPeriod
  <2>4. poll \in Nat \ {0} /\ H \in Nat /\ sinceHost \in Nat /\ drops \in Nat
    BY <1>1, InForceIsNatural
  <2> HIDE DEF P, H
  <2>5. sinceHost = P + drops * poll
    <3> HIDE DEF poll
    <3> QED BY <2>1, <2>2, <2>3, <2>4, PeriodIsKept
  <2> QED BY <2>1, <2>5
<1> QED BY <1>1, RhythmIsKept, PTL DEF HostPeriodIsPredicted, Spec
=============================================================================
