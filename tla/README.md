# Passwall-Protocol in TLA+

Passwall-Protocol is the wire contract between PSP (the panel) and the agents
(Passwall-Node) it controls: types, validators and the executable convergence
rules both sides call. It has no I/O and no threads of its own. What is hard in
it is hard because two processes that crash, restart, lose messages and are
restored from backups call these functions in every possible order. This
directory models the functions as the code has them, drives them with that
environment, model-checks the result with TLC and proves the core with TLAPS.

Run everything from this directory, e.g.

    tlc -workers 2 -config MCConvergence.cfg MCConvergence
    tlapm ObjectStateProofs.tla

## The system

| component | source | state it keeps or rules on | operations | hard behaviour |
|---|---|---|---|---|
| version coordinates | `protocol/version.go` | (epoch, version) per stream | `Newer`, `Zero`, `Committed`, `Converged` | counters that start over after a restore; half-zero pairs; content that is revisited |
| object convergence | `conformance/object_state.go`, `report.go` | `ObjectStatus` of each listener and client: state, since_version, first_failed_at_ms, issue_code, blocked_on | `AdvanceObject` (six events), `TimeoutIssue` | events in any order, replays, clock steps, sequences long enough to undo a rejection |
| attachment ruling | `conformance/attachment.go` | none; two versions, a listener's state, a count of rounds | `EvaluateAttachment` | the roster leads the config, a listener is missing or rejected |
| stream delivery | `segments.go` | per stream: PSP's document, the agent's applied version and ETag | conditional fetch, adoption of a segment | late, lost and partial answers; unchanged segments |
| envelope and cadences | `envelope.go`, `limits.go` | the last envelope accepted, seconds since the last full report and host sample | `ValidateEnvelope`, `ShouldSendFull`, `ShouldSendHost`, `Effective…ReportPeriod` | zero means always; intervals between polls; invalid and missing envelopes; dropped samples |
| fleet quota residual | `conformance/quota.go` | none; sums over rows | `AssessFleetQuota`, `checkedAdd`, `checkedSub` | 64-bit overflow, a negative residual |
| task lists | `validate.go`, `envelope.go` | ids seen, bytes used | `ValidateTasks`, `ValidateTaskResults`, `validateLegacyTaskResults`, `validateOutbox` | aggregate budgets, duplicates, two schemas in one list |
| task exchange | `envelope.go`, `report.go` | PSP: tasks and verdicts; agent: journal, queue, what it can prove of PSP's time | `ComputeTaskInputSHA256`, `ValidateSyncResponse`, the outcomes of `TaskResult` | lost and invalid messages, crashes, reused ids, deadlines without a clock |
| capabilities | `compatibility.go` | none | `AssessCompatibilityIn`, `EffectiveProtocolVersion` | an observation that is stale when used |
| report validation | `validate.go`, `report.go` | entries seen, per list | `ValidateNodeReportBase`, `ValidateNodeReport`, `MarshalJSON` | two wire shapes, two validators; isolation of telemetry |
| quota directive | `segments.go`, `report.go` | baseline, tri-state headroom, one scheduled grant | `RefreshDue`; the gate states and counter epochs it feeds | a grant due while PSP is away; late directives; clock skew; counters that start over |
| host telemetry | `host.go`, `validate.go` | none | `ValidateHostObservation` and its fourteen parts | order of checks, unsigned sums, pairs of pointers |
| diagnostics | `diagnostics.go` | none | argument and result validators, `SortDiagnosticsEvents` | truncation, absent and empty sections |
| exact decoder | `upgrade.go` | fields seen | `decodeExactObjectMayOmit` | duplicates, absent and unknown fields, at the top and below |
| row keys | `keys.go` | none | `New…Key`, `RowID` | two spellings of one id, the ends of the integers |

The parts meet in one round trip. The agent polls with a report (what it holds
per stream, the state of every object, counters, task results); PSP validates
it, answers with an envelope, three segments and tasks; the agent validates
those, commits the segments, and drives every object through `AdvanceObject`
and every attachment through `EvaluateAttachment`. PSP and the agents' loops,
stores and cores live in other repositories: only the rules they must follow are
here, in the functions and in the comments of the types.

What makes each part correct: versions only move forward, and across a restore;
every reachable object state is one PSP's validator accepts; a refused document
is never served; an unconverged object has an age, and the age is right; skew is
told apart from defects; what the agent says it holds was published; the agent
converges once PSP is quiet; PSP predicts the agent's cadence exactly and nothing
silences the counters; arithmetic on quotas is exact or refused; lists are
judged as wholes; a task has one effect, in time, and PSP's verdict on it is
true; a report the sender checked is one the receiver takes, and says the same
in both shapes; silence neither grants quota nor withholds a promised grant; a
diagnostic shows the newest of what the agent found; a sample that is accepted can
be computed with.

## Modules

| module | models | extends / instantiates |
|---|---|---|
| `Version` | the coordinates | – |
| `ObjectStatus` | `AdvanceObject`, `TimeoutIssue`, `validateReportedObject` as operators | `Version` |
| `ObjectLifecycle` | abstract: what an object's convergence promises | `Version` |
| `ObjectState` | one object under every sequence of events | `ObjectStatus`; implements `ObjectLifecycle` |
| `ObjectStateProofs` | its theorems | `ObjectState`, `TLAPS` |
| `Attachment` | `EvaluateAttachment` | `Version` |
| `Stream` | abstract: what a stream promises to its reader | `Version` |
| `Convergence` | the round trip of config and roster, with PSP, network, agent and core | `ObjectStatus`, `Attachment`; implements `Stream` |
| `ConvergenceProofs` | its theorems | `Convergence`, `TLAPS` |
| `Envelope` | `ValidateEnvelope` and the cadence rules | – |
| `Cadence` | the agent's report schedule, round after round | `Envelope` |
| `CadenceProofs` | its theorems | `Cadence`, `TLAPS` |
| `FleetQuota` | `AssessFleetQuota`, and the envelope that carries its result | `Envelope` |
| `FleetQuotaProofs` | its theorems | `FleetQuota`, `TLAPS` |
| `TaskWire` | what one task and one result must be on the wire | – |
| `Outbox` | the validators of task and task-result lists | `TaskWire` |
| `OutboxProofs` | its theorems | `Outbox`, `TLAPS` |
| `Compatibility` | `AssessCompatibilityIn` and the capability names | – |
| `TaskContract` | abstract: what the task protocol promises of an id | – |
| `TaskExchange` | tasks from creation to verdict, with PSP, network, agent and node | `TaskWire`, `Compatibility`; implements `TaskContract` |
| `TaskExchangeProofs` | its theorems | `TaskExchange`, `TLAPS` |
| `Report` | both report validators and `MarshalJSON` | – |
| `QuotaGate` | `RefreshDue`, one row's directive, the gate and PSP's accounting | – |
| `QuotaGateProofs` | its theorems | `QuotaGate`, `TLAPS` |
| `Diagnostics` | the diagnostic's documents, validators, decoder and drop order | – |
| `HostTelemetry` | `ValidateHostObservation` | – |
| `RowKeys` | minting and recovering keys | – |
| `Documents` | one document of any kind, or one fleet, through the functions that judge it | `Outbox`, `FleetQuota`; instantiates `Report`, `HostTelemetry`, `RowKeys`, `Diagnostics` |
| `DocumentsProofs` | theorems about all six | `Documents`, `OutboxProofs`, `FleetQuotaProofs` |
| other `MC…` | the instances TLC checks; `MC…Inputs` enumerate the documents | the module they are named for |

### How state and actions correspond to the code

*ObjectState.* `status` is the persisted `ObjectStatus` without stream and key,
which never change. One action per event calls `AdvanceObject` with the event's
evidence, including empty evidence, which the code refuses: a refused event is a
stuttering step. Operators split the switch into what lets an event pass
(`…Permitted`) and the status it returns. `StepClock` moves the agent's wall
clock in either direction. `openSince` and `refused` are history variables that
no action reads; they state what the code's single timestamp and single version
are meant to remember. `UnstampedSpec` adds a caller that leaves `AtMS` zero,
which nothing in `AdvanceObject` prevents.

*Convergence.* `config` and `roster` are PSP's document rows, `reply` the
response in flight, `heldConfig` and `heldRoster` the agent's `StreamState` with
the body it serves, `listener` and `client` the object statuses. The version
order, the object states, the rulings and the segment are the code's; PSP's
minting, the agent's adoption and its reconciler are external and follow the
comments that rule them:

- PSP mints only when the content differs, computes both documents in one
  transaction and records the config version in the roster (`version.go`, ETag;
  `segments.go`, MinConfigVersion). `min_config_version` is part of the roster's
  content, so a new config is a new roster.
- The agent never records the version of an unchanged segment
  (`segments.go`, Segment.Unchanged). On a higher epoch it clears what it has
  applied and accepts what it is given (`version.go`, Version): an unchanged
  segment of a later epoch makes it forget version and ETag, so that the next
  answer carries the bytes, while the body it serves stays.
- A segment that does not validate is isolated; the other one is committed
  (`envelope.go`, ValidateEnvelope).
- A client's ruling is turned into the event that leads there; out of `blocked`
  the transition function insists on `dependency_ready` first.

Left out: time (`ObjectState` has it), the content of listeners and clients,
attachment sets of more than one listener.

*Cadence.* One step is one round. The agent's loop is external; the code states
its rules in the comments of `ShouldSendFull` and `ShouldSendHost`: "first
report exceeds any interval", "a dropped sample does not start an interval".

*FleetQuota.* One step is one iteration of the loop. `Wrap` is two's complement
at the width of `MaxInt`; the tests of `checkedAdd` and `checkedSub` are computed
with it, as Go would. The two timestamps of the input are checked for sign and
passed through; they are left out. Its specification is named `AssessSpec`, so that
`Documents` can hold it beside the one of `Outbox`.

*Outbox.* One step is one iteration of a validator; the test of one entry is in
`TaskWire`. A payload is a size, a text is a member of a small set named for what
the checks distinguish.

*TaskExchange.* `asked` and `belief` are PSP's tasks and verdicts, `journal`,
`queue` and `window` the agent's durable rows, its pending tasks and what the
last response proved of PSP's time; `exchange` is the one round trip outstanding.
The code states what must hold between two stores it does not contain, so most
actions are external and follow its comments: results are replayed until a round
trip succeeds (`report.go`, TaskResults), an invalid response ends the round trip
before anything is acknowledged (`ValidateEnvelope`, `ValidateSyncResponse`), a
conflicting reuse of an id leaves the row unchanged, a start that can be proved
neither timely nor late is fenced (`report.go`, the issue codes), success, known
failure and no proof are three outcomes (`TaskResult`). The agent has no clock
that PSP trusts: a response was computed between the poll and its reception, so
PSP's time lies between `Earliest` and `Latest`. `Crash` turns what was started
into an indeterminate result; an upgrade task that restarts its own process on
purpose and proves its identity afterwards is not told apart from it. `effect`
and `processed` are history.

*Report.* `report` is what the agent built, `wire` the function of the keys that
are present, `subject` the report under validation, `stage`, `i` and `seen` the
position in the loops. One step is one stage or one entry. A `"careless"` sender
stands for a peer that validates nothing. Nested objects whose checks other
modules model are good or bad. PSP answers by the control half alone, as the
comment of `ValidateNodeReportBase` demands: `Conclude` cannot see the host.

*QuotaGate.* `entry` is the directive the node holds, `account` what PSP knows,
`counter` and `epoch` what the node counts; the node's clock is `time + skew`.
`InForce` is `RefreshDue` and the assignment its comment describes. `since`
remembers, for the properties only, the directive adopted last and what has
passed under it. PSP rules its own period; it sends the schedule until that has
ended. Directives are adopted whenever the answer arrives, however late.

*Diagnostics.* The same decoder state (`wire`, `pos`, `seen`) reads the request
and then the result. `Collect` is the agent's: it takes the newest of what was
asked for and drops further events until the rest fits, setting `truncated` only
for the latter. `Replace` hands PSP another peer's document: one field left out,
added, null or of the wrong type, or a name of an object below it left out, given
twice or unknown. An object below a field is what each name is given, in order;
`ReadObject` is what `json.Unmarshal` makes of it, and `WriteObject` what
`json.Marshal` writes. Sizes are those of the events. The nested host sample is not
validated by `ValidateDiagnosticsResult`, and is an atom here.

*HostTelemetry.* The sample is a record of sections; `Checks` lists the checks of
`ValidateHostObservation` in the order of the code, and one step makes one of
them. `Dereferences` names the pointers a check follows without looking, so that
a wrong order ends in `"panic"`, as it would in Go. Unsigned sums wrap at `Word`.
Fields that no check tells apart are one field.

*RowKeys.* A key is a prefix and a sequence of characters. One step is one
iteration of a validator's loop over the entries of a peer. `strconv` is external
and modelled with its range and its signs.

## What the runs check

| run | bounds | shows |
|---|---|---|
| `MCObjectState` | 4 clock readings, coordinates of two epochs and a half-zero one, one issue code, one listener | seven properties of one object, and that it implements `ObjectLifecycle` |
| `MCObjectStateUnstamped` | the same | **finding**: an accepted event without a time opens an episode without a length |
| `MCConvergence` | one good and one bad listener, one client, 2 versions in each of 2 epochs, 1 core failure | no version the agent holds, or any object is at, leads PSP's, and a version shared with PSP is of the same bytes; reports accepted, blocked on its own listener, `Stream` implemented, eventually settled |
| `MCConvergenceSkew` | 3 versions, content may return, the config segment may be isolated | skew is never reported as PSP's defect, and is surfaced if it lasts |
| `MCConvergenceRollback` | the same without isolation | **finding**: a config that returns to earlier content leaves clients waiting for ever |
| `MCConvergenceIsolated` | 3 versions, the roster segment may be isolated | **finding**: an isolated roster is judged against a newer config and PSP is blamed |
| `MCCadence` | limits of a few seconds; intervals below, at and between multiples of every poll period; four kinds of invalid envelope; 2 dropped samples | the predictions are exact, no envelope silences the counters |
| `MCFleetQuotaDelivery` | the fleets of `MCDocuments` | **finding**: the agent refuses the envelope that carries a negative residual |
| `MCTaskExchange` | one id, two kinds, two deadlines, time to 3, two builds, one crash, one restore | `TaskContract` implemented (one effect per id, true verdicts), no late start, only announced kinds, nothing acknowledged that was not processed, a verdict in the end |
| `MCQuotaGate` | quota 2, next grant none, 0 or 2, time to 3, 5 bytes, a clock 0 or 2 ahead and stepped twice, one restart | accounting is exact across resets, silence grants nothing, the first period stays within its quota on a sound clock and counter, the entitled are served |
| `MCDocuments` | see below | every document is judged as a whole, loses nothing on the way, its rows have one identity, and what is computed from it is exact |
| `MCDiagnosticsExact` | the diagnostics of `MCDocuments` | **finding**: objects below a field are not read exactly |

`Documents` puts the components side by side that are computations over one
input, and `MCDocuments` gives it documents: an initial state holds one input, and the steps are those of the
component that reads it. The instantiated components share their variables, as no two
are at work in one behaviour. Its inputs are

- lists of up to 4 tasks or results, 3 allowed, 2 bytes each and 3 in all:
  verdicts are those of the list as a whole, the budget holds, schemas never mix;
- good reports of both shapes with up to two fields replaced, lists of up to 3
  with 2 allowed, from a sender that checks and one that does not: what the
  sender passes is never refused, neither shape loses or confuses anything,
  verdicts are those of the report as a whole;
- fleets of up to 2 rows, integers from -8 to 7, limits -1, 0 and 7: the residual
  is exact, only overflow and negative input is refused;
- host samples over words below 8, one section at a time over every combination
  of 0, in range, the edge and beyond: no nil pointer is followed, accepted
  samples are measurable;
- keys in base 3 with integers to 7, every spelling of up to 3 characters, 2
  entries: a row has one key, and minted keys come back;
- 20 diagnostic requests, logs of up to 3 events with ties, room for 2, and every
  result with one field, or one name of an object below a field, rewritten: an
  agent's own result is accepted and holds the newest events.

Why the bounds are enough. The transition function looks at one version against
one other, so two epochs with two versions, an equal, an older and a half-zero
one are all the cases of a comparison. The exchange has one response in flight;
two versions let it be overtaken, three let content return, a second epoch lets
PSP be restored under it. Rounding depends on how an
interval lies to the poll period: the sets have intervals shorter than it, equal
to it, multiples of it and between its multiples. Every boundary of
machine arithmetic exists at four bits, and the proofs cover all widths. A task
id is independent of the others but for the exchange they share, which one id
already loses, delays and invalidates; the two deadlines give PSP another task
for a reused id and let one pass while the other has not; the crash and the
restore may come at any point. A byte of quota on either side of a baseline, of a
headroom and of a grant is all the gate compares. The checks of a report and of a
sample look at one field or at two, so two replaced fields, and every combination
within a section, reach every verdict. In base three with integers to seven there
are keys out of range with as many digits as the largest one. `TLC` is told not
to look for deadlocks where a computation ends (the fleet's quota, documents) and where a bound on bytes and time stops the world (gate).

The five findings are disagreements between the code and what its comments or
tests say; each run checks only the property the comment states.

1. *Unstamped transition* (`object_state.go:94`): a zero `AtMS` is accepted; the
   report validator then refuses the status, and `TimeoutIssue` never fires.
2. *Rollback* (`attachment.go:58`): config A, B, A between two polls. The agent's
   ETag matches, the segment is unchanged, its version must not be recorded, but
   the roster demands it. "Self-healing normal" never heals, although
   `version.go:62` says that content, not versions, decides convergence. The
   skew is at least surfaced (`SkewIsSurfaced`).
3. *Isolated roster* (`attachment.go:76`): the ruling covers a config that lags
   the roster, not a roster that lags the config.
4. *Negative residual* (`envelope.go:122` against `quota.go:46`): evidence that
   must not be clamped cannot be delivered either.
5. *Exact at the top only* (`upgrade.go:127`): the decoder refuses missing, repeated
   and unknown keys of the outermost object, since with them "the two peers assign
   different meaning to the same bytes" (`upgrade.go:56`), and then lets
   `json.Unmarshal` read the objects below: the last of two values wins, an unknown
   name is ignored, a missing one is zero: a check without a summary, or with two,
   is accepted.

Four more came up while the modules were written; no run is kept for them.
Inodes and connection tracking (`validate.go:836`, `validate.go:987`) are checked
for being present in pairs, not for a divisor of zero, which `validate.go:486` and
`host.go:232` forbid and the neighbouring validators refuse; `AcceptedIsMeasurable`
leaves these two ratios out. A
directive minted before the end of a period and adopted after it takes its grant
at the live counter (`segments.go:228`), also on a node that took the grant of its
predecessor: bytes fall out of both periods, which `segments.go:122` means to
exclude. For the same reason a clock that runs ahead costs more than the one grant
`segments.go:183` speaks of, as long as PSP, whose period goes on, sends the
schedule again. Both depend on how PSP mints, which is not in this repository. And
`omitempty` on the slice of events (`diagnostics.go:173`) makes "asked, found
nothing" the document of "not asked", which `upgrade.go:60` wants kept apart.

## Fairness

*Convergence.* The agent polls for ever
(weak fairness of `Poll`), its reconciler and its core keep running (weak
fairness of `CoreSettles` and `Evaluate`), and a network that answers again and
again does not lose or mangle every answer (strong fairness of `Receive({})`).
Nothing is assumed of PSP, of restores, of losses and of failures: they are
bounded (`MaxVersion`, `MaxEpoch`, `MaxFailures`), so they end, and
`EventuallySettled` speaks of what happens after they have.

*TaskExchange.* The agent's loop polls and drops invalid responses, its worker
looks at its queue, an effect ends and is recorded (weak fairness of each); PSP
answers some report properly and some response arrives, if this is possible again
and again (strong fairness of `Answer(TRUE)` and `Receive`). Time need not pass.
`EventuallyKnown` asks for a verdict only on tasks PSP goes on asking for from a
build that stays capable. The verdict must come for good: one that a restore takes
back does not count, so after the last restore PSP has to ask again and the agent to
replay a result it had already seen acknowledged (`AckedAfter`). The one excuse is
an id whose row on the agent is of another task, for as long as it is.

*QuotaGate.* Time passes and the node looks at its gate (`Tick`, `Refresh`); PSP
may never answer, since the pre-authorised grant exists for that case.

## Proofs

`ObjectStateProofs` (every set of coordinates, of clock readings, of codes and
keys, every timeout): the inductive invariant `IInv` adds to the checked
invariants that an object without a state is the zero value, and that every
refused version is at or before the current one (`RefusedAreBehind`), without
which `NoResurrection` is not inductive: a new version must be known to differ
from all refused ones, and it does because it is newer than the newest.
`AdvanceObject` is examined once per event (`AdvanceKeepsShape`,
`AdvanceKeepsClock`, `AdvanceCases`), each action is shown to be a delivery of a
stamped event, and the theorems follow, the refinement of `ObjectLifecycle`
included. That refinement rests on `VersionNeverRegresses` and on the fact that
an event within a version cannot undo a rejection.

`FleetQuotaProofs` (every width, every fleet): wrap-around is the identity on
what fits (`WrapIsIdentity`), the tests of `checkedAdd` and `checkedSub` are exact
on non-negative operands, so the accumulators equal the unbounded sums
(`SumsAreExact`), and exactness of the result and of the refusals follows.

`CadenceProofs` (every limit, every set of envelopes): full reports keep coming.
The bound is inductive with the types and `ValidSchedule(envelope)`: a report
that is not full proves the count to be below the interval in force, which
`ValidateEnvelope` has bounded. The predicted periods are exact because a count
stays on the beat of the polls (`Rhythm`): under one envelope it is m early polls,
one more, and one for every dropped sample, and the m-th was still before the
interval. `RoundedUp` shows that this is what `Effective…ReportPeriod` computes
with `/` and `%`; `BeatIsBounded`, that the model's ceiling on counts never cuts
such a count off.

`ConvergenceProofs` (any number of clients, listeners, publications, restores and
failures): of each stream the agent holds what PSP has or something older
(`Behind`), and a response is in between (`InFlight`); no object is at a version
newer than the one held (`Objects`). This gives `AgentNeverLeads`
and, of the config, the refinement of `Stream`. Every object is the zero value
or reportable (`Sound`), and a client has been offered every roster the agent holds
or will next be given (`Offered`), without which a new roster might not reopen a
blocked client. `NoFalseDefect` needs in addition that what the agent is given was
published together (`Paired`), and is proved for `"roster" \notin Isolable`: with an
isolated roster it is false, which is finding 3.

`TaskExchangeProofs` (any ids, tasks, builds, losses, crashes and restores): the
journal says of every id what the node did to it (`Journaled`), and a finished row
changes by its acknowledgement only; so a result, in flight or processed, late or
replayed, is still what its row says (`Reported`), and PSP's verdict is true of the
effect. That is the refinement of `TaskContract`. A response is never computed
before the poll it answers (`InTime`), which keeps deadlines by PSP's clock, and
what is handed over was admitted for the build that polled (`Handed`).

`QuotaGateProofs` (every quota, grant, clock, loss and restart): counters that PSP
has processed, that are in flight and that the node has now are in order within an
epoch (`Ordered`), so one answer changes one term of the sum over epochs
(`Accounted`); the directive adopted last bounds what passes before its grant, and
the grant, taken once, what passes after (`Silent`); and with a sound clock and
counter every directive of the first period reaches up to the quota and no further
(`FirstPeriod`).

`OutboxProofs` (every list and budget): every entry gone past passed the test of
the schema the list was routed to, and `total` is what these weigh together
(`Progress`); the routing is the one the list as a whole calls for (`Routed`). The
weights of a list are non-negative and so grow along it, which is why a list refused at some
entry is too heavy as a whole (`VerdictIsReference`).

`DocumentsProofs` (every document, and every base, width and limit):

- host samples: a check that follows a pointer comes after one, of the same part
  of the sample, that refuses a nil one (`Safe`, kept by concatenation), and the
  checks passed so far hold (`Sampled`). An accepted sample has passed them all, so
  its counters were below 2^63 before they were added, and did not wrap;
- the agent's own diagnostic (`Owned`: from `Collect` on, `result` is what a
  collector may build, `wire` its encoding, and the keys seen those of the fields
  read). What is written below a field is read back as it was (`ObjectIsReadBack`,
  `OwnIsReadBack`). The model sorts by rank, so
  sorting is a permutation in order if ranks are all the positions
  (`RanksAreAll`, `SortSorts`). The cut by number and the cut by size each keep an end
  of the sorted log (`NewestIsEnd`, `FittingIsEnd`; the largest number that fits is
  a greatest element of a bounded set), and an end of an end is one (`EndOfEnd`).
  An end is the newest (`EndsAreNewest`): an event that has fewer occurrences in it
  than in the log has one before the cut, since its occurrences after the cut
  inject into those of the end. The encoding omits only what decodes to the same value
  when absent (`MarshalEncodes`, `UnmarshalDecodes`), and what arrives is valid unless the limit left no
  event where some were found (`OwnIsValid`);
- reports: a loop has taken the entries gone past and knows their identities
  (`SoFar`), so lists are judged as the reference judges them; what passed the
  sender's check decodes to the same report up to nil and empty
  (`EncodingIsFaithful`), and is sound again (`SameIsAsSound`), hence accepted;
- row keys: decimals of any number exist, parse back to it and have no zero in
  front (`FormattedIsParsed`), so a minted key is the only spelling of its row;
- lists and fleets: the theorems of `OutboxProofs` and `FleetQuotaProofs`, of the
  specification that `MCDocuments` checks (`Composed`: a list keeps the invariant of its
  loop, a fleet that of its own, and of any other document there is no verdict on
  a list and no assessment).

The theorems of the library that take an operator cannot be used with the installed
provers, but induction over numbers and sets can: a recursive function is shown to
exist, and its values to be as claimed, by the least counterexample of a
well-founded order (`WFMin`); the sums over lists and epochs, the values of
numerals and the decimals of a number are done so. The specifications have no
`RECURSIVE` operator.

Attempts at proofs changed the models in a few places, none of them a change of
behaviour: two guards of the `CASE` that turns a ruling into an event overlapped, and are an `IF`
chain now; `Marshal` picks the kept fields by rank instead of with `SelectSeq`;
the types of a sample's sections, which the sums depend on, are stated
(`IsSample`), as is what an agent may observe (`ObservedEvent`): without a summary
within its limit and a code PSP knows, its own result would be refused.

The type invariants of `Outbox` and `FleetQuota` are proved, and not checked again
in a run. Assumptions are the named `ASSUME`s of the modules, which TLC evaluates
in the runs; they say that what a peer may send is a document of its Go type (a
slice is a sequence, an unsigned field a word), that limits are natural numbers,
digits distinct, that an agent observes events PSP knows, and that nil and a
value of the wrong type are no value of a field, and nil no verdict.

Every invariant and every safety property of the passing runs is the statement of
a theorem. Model-checked only are

- the findings, which are false;
- liveness under fairness (`EventuallySettled`, `SkewIsSurfaced`,
  `EventuallyKnown`, `EntitledIsServed`) and whatever needs `ENABLED`, which are out of the
  provers' reach.

## Plan

1. Done: `Version`, `ObjectStatus`, `ObjectState`, `ObjectLifecycle` and their
   proofs; `Attachment`, `Stream`, `Convergence`; `Envelope`, `Cadence`;
   `FleetQuota` and `Outbox`, with their proofs.
2. Done: `TaskWire`, `Compatibility`, `TaskContract`, `TaskExchange`; `QuotaGate`;
   `Report`; `Diagnostics`; `HostTelemetry`; `RowKeys`.
3. Done: proofs of every invariant and action property the passing runs check,
   and of the three refinements.
4. Left: liveness, which needs other provers.

## Not modelled

- The directives stream as a third segment: nothing in `src/` reads
  `for_roster_version`, and the rulings its issue codes name have no function
  here. What a directive does once adopted is `QuotaGate`.
- `IPShadowEntry` and `SubjectObservation`: observe-only values without a rule.
- PSP's and the agent's own stores, loops and cores, except for what the comments
  of this repository demand of them (the definitions the map calls external).
- Text: formatting of errors and issue details, UTF-8 and length checks of single
  fields beyond good and bad, JSON below the host sample of a diagnostic, the
  library's matching of names in any case, SHA-256 (a digest is
  what it digests).
- The deprecated `AssessCompatibility`, and the equivalence harness and
  CI configuration, which test builds rather than behaviour.
