---------------------------- MODULE TaskExchange ----------------------------
(***************************************************************************)
(* Tasks: a call turned into state (protocol/envelope.go Task, TaskResult).*)
(* PSP keeps asking for what it has no verdict on; the agent journals      *)
(* every start before the effect, replays a result until a round trip has  *)
(* succeeded (protocol/report.go TaskResults), and starts nothing it       *)
(* cannot prove to be in time.  Reports and responses are lost, responses  *)
(* are invalid, the agent crashes between any two steps and comes back as  *)
(* another build, PSP is restored and forgets or reuses an id.             *)
(*                                                                         *)
(* What is admitted, what identifies an input, what a result looks like    *)
(* and when a response counts are the code's; PSP's queue and the agent's  *)
(* journal live in other repositories and follow the comments that rule    *)
(* them.  The journal is durable.  One exchange is outstanding at a time.  *)
(***************************************************************************)
EXTENDS TaskWire, Compatibility

CONSTANTS Ids,           \* task ids
          Args,          \* argument bytes: "nil", "empty" or a text
          Deadlines,     \* NotAfterMS of the tasks PSP creates
          Builds,        \* reports' version and capabilities, per agent build
          Supported,     \* the GenerationRange PSP declares
          MaxTime, MaxCrashes, MaxRestores

ASSUME TimeAssumption ==
  /\ MaxTime \in Nat /\ MaxCrashes \in Nat /\ MaxRestores \in Nat
  /\ Deadlines \subseteq 1..(MaxTime - 1)

VARIABLES now,        \* true control-plane time
          asked,      \* PSP: the task it wants executed under an id
          belief,     \* PSP: its verdict on that task
          observed,   \* PSP: the build of the last report
          build,      \* agent: the build that runs
          journal,    \* agent, durable: per id, what was started and how it ended
          queue,      \* agent: tasks received and neither started nor dropped
          window,     \* agent: what the last response proved about PSP's time
          issues,     \* agent: <<code, id>> raised
          exchange,   \* the outstanding round trip
          effect,     \* what happened on the node, per id
          faults,     \* crashes and restores so far
          processed   \* every result PSP ever processed

vars == <<now, asked, belief, observed, build, journal, queue, window, issues,
          exchange, effect, faults, processed>>

NoTask == [kind |-> "none", args |-> "nil", notAfterMS |-> 0]
Tasks  == [kind : TaskKinds, args : Args, notAfterMS : Deadlines]

(* Mutant: only the arguments are hashed. *)
DigestOfArgs(kind, args) == <<IF args = "nil" THEN "empty" ELSE args>>

(* ComputeTaskInputSHA256: kind and exact bytes; nil and empty are one.    *)
Digest(kind, args) == <<kind, IF args = "nil" THEN "empty" ELSE args>>

DigestOf(t) == Digest(t.kind, t.args)

(* omitempty: empty arguments do not cross the wire. *)
OnTheWire(t) == [t EXCEPT !.args = IF @ = "empty" THEN "nil" ELSE @]

(* The deadline is compared separately, it is not in the digest. *)
SameTask(row, t) == row.input = DigestOf(t) /\ row.notAfterMS = t.notAfterMS

NoRow == [phase |-> "none"]
Row(t, phase, outcome) ==
  [phase |-> phase, input |-> DigestOf(t), notAfterMS |-> t.notAfterMS,
   outcome |-> outcome, acked |-> FALSE]

Finished(id) == journal[id].phase = "finished"

(* A result on the wire; "digest" is the form of its digest, "input" what  *)
(* it says.  Success, known failure and no proof are three states, and the *)
(* last is never inferred from the code.                                   *)
ResultOf(id, row) ==
  [id |-> id, kind |-> row.input[1], input |-> row.input, digest |-> "matching",
   notAfterMS |-> row.notAfterMS, size |-> 0,
   ok |-> row.outcome = "ok",
   indeterminate |-> row.outcome = "indeterminate",
   errorCode |-> IF row.outcome = "ok" THEN "" ELSE row.outcome,
   error     |-> IF row.outcome = "ok" THEN "" ELSE "canonical"]

VerdictOf(r) ==
  CASE r.ok                       -> "ok"
    [] r.indeterminate            -> "indeterminate"
    [] r.errorCode = "expired"    -> "expired"
    [] OTHER                      -> "failed"

Idle == [phase |-> "idle", sentAt |-> 0, results |-> {}, build |-> 0,
         tasks |-> {}, computedAt |-> 0, valid |-> TRUE]

NoWindow == [sentAt |-> MaxTime + 1, receivedAt |-> MaxTime + 1, computedAt |-> 0]

(* What a task asks for, whatever its arguments went through; only the     *)
(* history variables and the properties use it.                            *)
What(t) == [t EXCEPT !.args = IF @ = "nil" THEN "empty" ELSE @]

NoEffect == [state |-> "none", of |-> What(NoTask), at |-> 0]

-----------------------------------------------------------------------------
Init ==
  /\ now = 0
  /\ asked = [id \in Ids |-> NoTask]
  /\ belief = [id \in Ids |-> "open"]
  /\ observed = 0
  /\ build \in DOMAIN Builds
  /\ journal = [id \in Ids |-> NoRow]
  /\ queue = {} /\ window = NoWindow /\ issues = {}
  /\ exchange = Idle
  /\ effect = [id \in Ids |-> NoEffect]
  /\ faults = [crashes |-> 0, restores |-> 0]
  /\ processed = {}

Tick ==
  /\ now < MaxTime
  /\ now' = now + 1
  /\ UNCHANGED <<asked, belief, observed, build, journal, queue, window, issues,
                 exchange, effect, faults, processed>>

PSPKeeps   == UNCHANGED <<asked, belief, observed, processed>>
AgentKeeps == UNCHANGED <<build, journal, queue, window, issues, effect>>

(* PSP creates a task for a build it has observed to be capable. *)
Create(id, t) ==
  /\ asked[id] = NoTask
  /\ observed # 0 /\ Admitted(t.kind, Builds[observed], Supported)
  /\ t.notAfterMS > now
  /\ asked' = [asked EXCEPT ![id] = t]
  /\ UNCHANGED <<now, belief, observed, exchange, faults, processed>> /\ AgentKeeps

(* PSP is restored: it has forgotten the verdict, or the very task, and    *)
(* gives the id to another one.                                            *)
Restore(id, t) ==
  /\ faults.restores < MaxRestores
  /\ asked[id] # NoTask
  /\ t = asked[id] \/ t.notAfterMS > now
  /\ asked' = [asked EXCEPT ![id] = t]
  /\ belief' = [belief EXCEPT ![id] = "open"]
  /\ faults' = [faults EXCEPT !.restores = @ + 1]
  /\ UNCHANGED <<now, observed, exchange, processed>> /\ AgentKeeps

(* The report: every result that no round trip has acknowledged. *)
Report ==
  /\ exchange.phase = "idle"
  /\ exchange' = [Idle EXCEPT !.phase = "report", !.sentAt = now, !.build = build,
                    !.results = {ResultOf(id, journal[id]) :
                                   id \in {i \in Ids : Finished(i) /\ ~journal[i].acked}}]
  /\ UNCHANGED <<now, faults>> /\ PSPKeeps /\ AgentKeeps

(* A result counts if it is about the task PSP asks for. *)
Answers(r, id) ==
  /\ r.id = id /\ DurableEntry(r)
  /\ asked[id] # NoTask
  /\ r.input = DigestOf(asked[id]) /\ r.notAfterMS = asked[id].notAfterMS

Answer(valid) ==
  /\ exchange.phase = "report"
  /\ belief' = [id \in Ids |->
       IF belief[id] = "open" /\ \E r \in exchange.results : Answers(r, id)
       THEN VerdictOf(CHOOSE r \in exchange.results : Answers(r, id))
       ELSE belief[id]]
  /\ observed' = exchange.build
  /\ processed' = processed \cup exchange.results
  /\ exchange' = [exchange EXCEPT
       !.phase = "reply", !.computedAt = now, !.valid = valid,
       !.tasks = {[id |-> id, task |-> OnTheWire(asked[id])] :
                    id \in {i \in Ids : /\ asked[i] # NoTask /\ belief'[i] = "open"
                                        /\ Admitted(asked[i].kind,
                                                    Builds[exchange.build], Supported)}}]
  /\ UNCHANGED <<now, asked, faults>> /\ AgentKeeps

(* PSP fails halfway: nothing is recorded, and what comes back is invalid. *)
AnswerFails ==
  /\ exchange.phase = "report"
  /\ exchange' = [exchange EXCEPT !.phase = "reply", !.computedAt = now, !.valid = FALSE]
  /\ UNCHANGED <<now, faults>> /\ PSPKeeps /\ AgentKeeps

(* Either message is lost, or the agent gives up. *)
Lose ==
  /\ exchange.phase # "idle"
  /\ exchange' = Idle
  /\ UNCHANGED <<now, faults>> /\ PSPKeeps /\ AgentKeeps

(* Mutant: a response is taken whatever it says. *)
AcceptAnyResponse(response) == TRUE

(* The envelope, then every task; the tasks of PSP are well formed.        *)
ValidateSyncResponse(response) ==
  /\ response.valid
  /\ \A r \in response.tasks :
       TaskEntry([id |-> r.id, kind |-> r.task.kind, digest |-> "matching",
                  notAfterMS |-> r.task.notAfterMS])

(* An invalid response is the end of the round trip: nothing of it counts. *)
Invalid ==
  /\ exchange.phase = "reply"
  /\ ~ValidateSyncResponse(exchange)
  /\ exchange' = Idle
  /\ UNCHANGED <<now, faults>> /\ PSPKeeps /\ AgentKeeps

Acknowledged(id) == \E r \in exchange.results : r.id = id

(* Mutant: a result that was acknowledged is never replayed again. *)
AckedForGood(id, again) == journal[id].acked \/ id \notin again

(* PSP asks again for what it has no verdict on: that result is replayed.  *)
AckedAfter(id, again) == id \notin again

(* The results of this report are acknowledged; a task with a row is       *)
(* either that row, whose result is replayed, or an identity conflict, and *)
(* the row stays as it is.                                                 *)
Receive ==
  /\ exchange.phase = "reply"
  /\ ValidateSyncResponse(exchange)
  /\ LET again    == {r.id : r \in {x \in exchange.tasks : journal[x.id] # NoRow
                                      /\ SameTask(journal[x.id], x.task)}}
         conflict == {r.id : r \in {x \in exchange.tasks : journal[x.id] # NoRow
                                      /\ ~SameTask(journal[x.id], x.task)}}
     IN /\ journal' = [id \in Ids |->
             IF Finished(id) /\ (Acknowledged(id) \/ id \in again)
             THEN [journal[id] EXCEPT !.acked = AckedAfter(id, again)]
             ELSE journal[id]]
        /\ issues' = issues \cup {<<"task_identity_conflict", id>> : id \in conflict}
        /\ queue' = {r \in exchange.tasks : journal[r.id] = NoRow}
  /\ window' = [sentAt |-> exchange.sentAt, receivedAt |-> now,
                computedAt |-> exchange.computedAt]
  /\ exchange' = Idle
  /\ UNCHANGED <<now, build, effect, faults>> /\ PSPKeeps

-----------------------------------------------------------------------------
(* The worker.  PSP computed the response after the poll was sent and      *)
(* before it was received: the agent's monotonic clock bounds PSP's time.  *)

(* Mutant: the response is taken to be as fresh as its reception. *)
LatestFromReception == window.computedAt + (now - window.receivedAt)

Latest   == window.computedAt + (now - window.sentAt)
Earliest == window.computedAt + (now - window.receivedAt)

MayStart(t) == Latest <= t.notAfterMS
IsExpired(t) == Earliest > t.notAfterMS

Drops(r) == queue' = queue \ {r}

WorkerKeeps == UNCHANGED <<now, build, window, exchange, faults>> /\ PSPKeeps

Start(r) ==
  /\ r \in queue /\ journal[r.id] = NoRow
  /\ MayStart(r.task)
  /\ journal' = [journal EXCEPT ![r.id] = Row(r.task, "started", "none")]
  /\ effect' = [effect EXCEPT ![r.id] =
                  [state |-> "underway", of |-> What(r.task), at |-> now]]
  /\ Drops(r) /\ UNCHANGED issues /\ WorkerKeeps

Expire(r) ==
  /\ r \in queue /\ journal[r.id] = NoRow
  /\ IsExpired(r.task)
  /\ journal' = [journal EXCEPT ![r.id] = Row(r.task, "finished", "expired")]
  /\ Drops(r) /\ UNCHANGED <<effect, issues>> /\ WorkerKeeps

(* Neither is proven: a diagnostic, never a made-up outcome. *)
FenceReplay(r) ==
  /\ r \in queue /\ journal[r.id] = NoRow
  /\ ~MayStart(r.task) /\ ~IsExpired(r.task)
  /\ issues' = issues \cup {<<"task_replay_fenced", r.id>>}
  /\ Drops(r) /\ UNCHANGED <<journal, effect>> /\ WorkerKeeps

Complete(id, outcome) ==
  /\ effect[id].state = "underway" /\ journal[id].phase = "started"
  /\ effect' = [effect EXCEPT ![id].state = outcome]
  /\ UNCHANGED <<journal, queue, issues>> /\ WorkerKeeps

Record(id) ==
  /\ effect[id].state \in {"done", "failed"} /\ journal[id].phase = "started"
  /\ journal' = [journal EXCEPT ![id].phase = "finished",
                    ![id].outcome = IF effect[id].state = "done" THEN "ok" ELSE "failed"]
  /\ UNCHANGED <<effect, queue, issues>> /\ WorkerKeeps

(* The process dies and another one, perhaps of another build, finds the   *)
(* journal: of what was started it can prove nothing.                      *)
Crash ==
  /\ faults.crashes < MaxCrashes
  /\ faults' = [faults EXCEPT !.crashes = @ + 1]
  /\ build' \in DOMAIN Builds
  /\ journal' = [id \in Ids |->
       IF journal[id].phase = "started"
       THEN [journal[id] EXCEPT !.phase = "finished", !.outcome = "indeterminate"]
       ELSE journal[id]]
  /\ queue' = {} /\ window' = NoWindow /\ exchange' = Idle
  /\ UNCHANGED <<now, issues, effect>> /\ PSPKeeps

Next ==
  \/ Tick \/ Report \/ AnswerFails \/ Lose \/ Invalid \/ Receive \/ Crash
  \/ \E id \in Ids, t \in Tasks : Create(id, t) \/ Restore(id, t)
  \/ \E valid \in BOOLEAN : Answer(valid)
  \/ \E r \in queue : Start(r) \/ Expire(r) \/ FenceReplay(r)
  \/ \E id \in Ids : Record(id) \/ \E o \in {"done", "failed"} : Complete(id, o)

Spec == Init /\ [][Next]_vars

(* The agent polls and its worker runs; PSP answers; a network and a PSP   *)
(* that answer again and again deliver a valid response in the end.        *)
FairSpec ==
  /\ Spec
  /\ WF_vars(Report) /\ WF_vars(Invalid)
  /\ SF_vars(Answer(TRUE)) /\ SF_vars(Receive)
  /\ WF_vars(\E r \in queue : Start(r) \/ Expire(r) \/ FenceReplay(r))
  /\ \A id \in Ids : WF_vars(Record(id))
  /\ \A id \in Ids : WF_vars(\E o \in {"done", "failed"} : Complete(id, o))

-----------------------------------------------------------------------------
(* Properties *)

(* The effect of an id begins at most once whatever is lost, replayed,     *)
(* crashed or restored, and what PSP believes is true: of the input it     *)
(* asks for, and never a success, a failure or an expiry that nobody       *)
(* could prove (envelope.go TaskResult, ComputeTaskInputSHA256).           *)
Contract == INSTANCE TaskContract WITH
  Ids     <- Ids,
  Inputs  <- {What(t) : t \in Tasks},
  NoInput <- What(NoTask),
  asked   <- [id \in Ids |-> What(asked[id])],
  effect  <- [id \in Ids |-> [state |-> effect[id].state, of |-> effect[id].of]],
  belief  <- belief

ImplementsContract == Contract!ContractSpec

(* Nothing starts after the deadline it was asked with, by PSP's clock,    *)
(* however long the response took and the task waited                      *)
(* (CapabilityTaskExpiryV1: the latest permissible start is fenced).       *)
NoLateStart ==
  \A id \in Ids : journal[id].phase \in {"started", "finished"} /\ effect[id].state # "none"
                    => effect[id].at <= journal[id].notAfterMS

(* A build is never handed a task of a kind it did not announce, although  *)
(* PSP created it for the build that ran before (AssessCompatibilityIn).   *)
OnlyAnnouncedKinds ==
  \A r \in queue :
    {TaskExecution, TaskExpiry, TaskCapability(r.task.kind)} \subseteq Builds[build].capabilities

(* A result leaves the outbox only after PSP has processed it.             *)
AckedWasProcessed ==
  \A id \in Ids : Finished(id) /\ journal[id].acked =>
    ResultOf(id, journal[id]) \in processed

(* The id now stands for another task than the one that was journalled,    *)
(* and the agent has said so.                                              *)
Reused(id) ==
  /\ journal[id] # NoRow /\ ~SameTask(journal[id], asked[id])
  /\ <<"task_identity_conflict", id>> \in issues

(* Once nothing is restored and the build stays capable, PSP gets its      *)
(* verdict on every task it asks for and keeps it, unless it has reused    *)
(* the id: what a restore made it forget is asked for again, and a result  *)
(* that was acknowledged before is replayed (NodeReport.TaskResults).      *)
EventuallyKnown ==
  \A id \in Ids :
    <>[](asked[id] # NoTask /\ Admitted(asked[id].kind, Builds[build], Supported))
      => <>[](belief[id] # "open" \/ Reused(id))
=============================================================================
