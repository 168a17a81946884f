------------------------- MODULE TaskExchangeProofs -------------------------
(***************************************************************************)
(* Proofs about TaskExchange for any number of ids, tasks, builds, lost    *)
(* messages, crashes and restores.                                         *)
(*                                                                         *)
(* The argument: the journal says of every id what the node did to it      *)
(* (Journaled), and once a row is finished nothing but its acknowledgement *)
(* changes.  So a result, in flight or processed, late or replayed, is     *)
(* still what its row says (Reported), and a verdict PSP draws from it is  *)
(* true of the effect if the task is the one that was journaled.  The      *)
(* deadline is kept because a response is never computed before the poll   *)
(* it answers (InTime), and a task only reaches the build that polled for  *)
(* it, as a crash leaves neither exchange nor queue behind (Handed).       *)
(***************************************************************************)
EXTENDS TaskExchange, TLAPS

-----------------------------------------------------------------------------
(* The inductive invariant. *)

(* A task as PSP has it, or with its empty arguments left out.             *)
WireTasks == {t \in [kind : TaskKinds, args : Args \cup {"nil"}, notAfterMS : Deadlines] :
                \E u \in Tasks : What(t) = What(u)}
Offers    == [id : Ids, task : WireTasks]
Outcomes  == {"ok", "failed", "indeterminate", "expired"}
Rows      == [phase : {"started", "finished"},
              input : TaskKinds \X (Args \cup {"empty"}), notAfterMS : Deadlines,
              outcome : Outcomes \cup {"none"}, acked : BOOLEAN]
Results   == {ResultOf(id, row) : id \in Ids, row \in Rows}
Exchanges == [phase : {"idle", "report", "reply"}, sentAt : Nat, results : SUBSET Results,
              build : DOMAIN Builds \cup {0}, tasks : SUBSET Offers,
              computedAt : Nat, valid : BOOLEAN]

TypeOK ==
  /\ now \in Nat
  /\ asked \in [Ids -> Tasks \cup {NoTask}]
  /\ belief \in [Ids -> Outcomes \cup {"open"}]
  /\ observed \in DOMAIN Builds \cup {0} /\ build \in DOMAIN Builds
  /\ journal \in [Ids -> Rows \cup {NoRow}]
  /\ queue \subseteq Offers
  /\ window \in [sentAt : Nat, receivedAt : Nat, computedAt : Nat]
  /\ exchange \in Exchanges
  /\ effect \in [Ids -> [state : {"none", "underway", "done", "failed"},
                         of : {What(t) : t \in WireTasks \cup {NoTask}}, at : Nat]]
  /\ faults \in [crashes : Nat, restores : Nat]

(* What the node did is what the journal says, or more than it can prove.  *)
Agrees(state, row) ==
  \/ row.phase = "started" /\ row.outcome = "none" /\ ~row.acked /\ state # "none"
  \/ /\ row.phase = "finished"
     /\ \/ row.outcome = "ok" /\ state = "done"
        \/ row.outcome = "failed" /\ state = "failed"
        \/ row.outcome = "indeterminate" /\ state # "none"
        \/ row.outcome = "expired" /\ state = "none"

Journaled(id) ==
  IF journal[id] = NoRow THEN effect[id] = NoEffect
  ELSE /\ Agrees(effect[id].state, journal[id])
       /\ IF effect[id].state = "none" THEN effect[id] = NoEffect
          ELSE /\ \E t \in WireTasks : effect[id].of = What(t) /\ SameTask(journal[id], t)
               /\ effect[id].at <= journal[id].notAfterMS

(* A result is its row, as it was and as it is. *)
FromJournal(r) ==
  r.id \in Ids /\ Finished(r.id) /\ r = ResultOf(r.id, journal[r.id])

Reported ==
  /\ \A r \in exchange.results \cup processed : FromJournal(r)
  /\ exchange.phase = "reply" /\ exchange.valid => exchange.results \subseteq processed
  /\ AckedWasProcessed

(* The response in force was computed after the poll it answers. *)
InTime ==
  /\ exchange.phase # "idle" => exchange.sentAt <= now
  /\ exchange.phase = "reply" => exchange.sentAt <= exchange.computedAt
  /\ queue # {} => window.sentAt <= window.computedAt

(* What is handed over is admitted for the build it is handed to. *)
Handed ==
  /\ exchange.phase # "idle" => exchange.build = build
  /\ \A r \in exchange.tasks \cup queue : Admitted(r.task.kind, Builds[build], Supported)

Known(id) ==
  /\ asked[id] = NoTask => belief[id] = "open"
  /\ belief[id] = "expired" => Finished(id) /\ journal[id].outcome = "expired"

IInv ==
  /\ TypeOK /\ Reported /\ InTime /\ Handed
  /\ \A id \in Ids : Journaled(id) /\ Known(id)

-----------------------------------------------------------------------------
(* Tasks, rows and results. *)

(* Times and deadlines are numbers.                                        *)
LEMMA Numbers ==
  /\ MaxTime \in Nat
  /\ \A d \in Deadlines : d \in Nat /\ d > 0
BY TimeAssumption

(* What travels is the task: the same input, the same deadline, the same   *)
(* thing asked for; and no task is the absence of one (OnTheWire).         *)
LEMMA TheWireKeepsTasks ==
  ASSUME NEW t \in Tasks
  PROVE  /\ t \in WireTasks /\ OnTheWire(t) \in WireTasks
         /\ OnTheWire(t).kind = t.kind
         /\ What(OnTheWire(t)) = What(t)
         /\ t # NoTask /\ What(t) # What(NoTask)
<1>1. t.notAfterMS \in Deadlines /\ t.notAfterMS > 0
  BY Numbers DEF Tasks
<1>2. What(OnTheWire(t)) = What(t)
  BY DEF Tasks, What, OnTheWire
<1>3. OnTheWire(t).kind = t.kind
  BY DEF Tasks, OnTheWire
<1>4. t \in WireTasks /\ OnTheWire(t) \in WireTasks
  <2>1. {t, OnTheWire(t)} \subseteq
          [kind : TaskKinds, args : Args \cup {"nil"}, notAfterMS : Deadlines]
    BY DEF Tasks, OnTheWire
  <2> QED BY <1>2, <2>1 DEF WireTasks
<1>5. t # NoTask /\ What(t) # What(NoTask)
  <2>1. NoTask.notAfterMS = 0 /\ What(NoTask).notAfterMS = 0
    BY DEF NoTask, What
  <2>2. What(t).notAfterMS = t.notAfterMS
    BY DEF Tasks, What
  <2> QED BY <1>1, <2>1, <2>2
<1> QED BY <1>2, <1>3, <1>4, <1>5

(* A task that was taken from the wire is one PSP can ask for.             *)
LEMMA InputsOfTheWire ==
  ASSUME NEW t \in WireTasks
  PROVE  /\ What(t).kind = t.kind /\ What(t).notAfterMS = t.notAfterMS
         /\ What(t) = [kind |-> t.kind, args |-> DigestOf(t)[2], notAfterMS |-> t.notAfterMS]
         /\ DigestOf(t) \in TaskKinds \X (Args \cup {"empty"})
         /\ DigestOf(t)[1] = t.kind
BY DEF WireTasks, What, DigestOf, Digest

(* Two tasks with one digest and one deadline ask for the same thing       *)
(* (ComputeTaskInputSHA256).                                               *)
LEMMA SameInputSameTask ==
  ASSUME NEW t \in WireTasks, NEW u \in WireTasks,
         DigestOf(t) = DigestOf(u), t.notAfterMS = u.notAfterMS
  PROVE  What(t) = What(u)
<1>1. t.kind = u.kind
  BY InputsOfTheWire
<1>2. /\ What(t) = [kind |-> t.kind, args |-> DigestOf(t)[2], notAfterMS |-> t.notAfterMS]
      /\ What(u) = [kind |-> u.kind, args |-> DigestOf(u)[2], notAfterMS |-> u.notAfterMS]
  BY InputsOfTheWire
<1> QED BY <1>1, <1>2

(* A result says of a row what does not depend on its acknowledgement.     *)
LEMMA ResultsAreTyped ==
  ASSUME NEW id \in Ids, NEW row \in Rows
  PROVE  ResultOf(id, row) \in Results /\ ResultOf(id, row).id = id
<1>1. ResultOf(id, row) \in Results
  BY DEF Results
<1>2. ResultOf(id, row).id = id
  BY DEF ResultOf
<1> QED BY <1>1, <1>2

(* A row is not the absence of one.                                        *)
LEMMA RowsAreSomething ==
  /\ NoRow \notin Rows /\ NoRow.phase = "none"
  /\ \A t \in WireTasks, phase \in {"started", "finished"}, outcome \in Outcomes \cup {"none"} :
       Row(t, phase, outcome) \in Rows
<1>1. NoRow \notin Rows /\ NoRow.phase = "none"
  BY DEF NoRow, Rows
<1>2. ASSUME NEW t \in WireTasks, NEW phase \in {"started", "finished"},
             NEW outcome \in Outcomes \cup {"none"}
      PROVE  Row(t, phase, outcome) \in Rows
  <2>1. t.notAfterMS \in Deadlines
    BY DEF WireTasks
  <2> QED BY <2>1, InputsOfTheWire DEF Row, Rows
<1> QED BY <1>1, <1>2

(* As long as finished rows stay, results stay what their rows say.        *)
Settled ==
  \A id \in Ids : Finished(id) =>
    /\ Finished(id)' /\ journal'[id].input = journal[id].input
    /\ journal'[id].notAfterMS = journal[id].notAfterMS
    /\ journal'[id].outcome = journal[id].outcome

(* While finished rows stand, so do the results that came of them.         *)
LEMMA ResultsStand ==
  ASSUME Settled
  PROVE  \A r : FromJournal(r) => FromJournal(r)'
BY DEF Settled, FromJournal, ResultOf

(* What PSP reads out of a result is the outcome of its row, and is true.  *)
LEMMA VerdictIsOutcome ==
  ASSUME NEW id \in Ids, NEW row \in Rows, row.outcome \in Outcomes
  PROVE  VerdictOf(ResultOf(id, row)) = row.outcome
<1> DEFINE r == ResultOf(id, row)
<1>1. /\ r.ok = (row.outcome = "ok") /\ r.indeterminate = (row.outcome = "indeterminate")
      /\ r.errorCode = IF row.outcome = "ok" THEN "" ELSE row.outcome
  BY DEF ResultOf
<1> HIDE DEF r
<1>2. VerdictOf(r) = row.outcome
  BY <1>1 DEF VerdictOf, Outcomes
<1> QED BY <1>2 DEF r

-----------------------------------------------------------------------------
(* The invariant, action by action. *)

(* Nothing is asked, recorded or known.                                    *)
LEMMA InitIInv == Init => IInv
<1> SUFFICES ASSUME Init PROVE IInv
  OBVIOUS
<1> USE DEF Init
<1>1. NoWindow \in [sentAt : Nat, receivedAt : Nat, computedAt : Nat]
  BY Numbers DEF NoWindow
<1>2. Idle \in Exchanges
  BY DEF Idle, Exchanges
<1>3. TypeOK
  BY <1>1, <1>2, RowsAreSomething DEF TypeOK, NoEffect
<1>4. \A id \in Ids : ~Finished(id)
  BY RowsAreSomething DEF Finished
<1>5. Reported
  BY <1>4 DEF Reported, AckedWasProcessed, Idle
<1>6. InTime /\ Handed
  BY DEF InTime, Handed, Idle
<1>7. \A id \in Ids : Journaled(id) /\ Known(id)
  BY DEF Journaled, Known
<1> QED BY <1>3, <1>5, <1>6, <1>7 DEF IInv

(* The rows of the journal, and what the type says of one.                 *)
LEMMA JournalRows ==
  ASSUME TypeOK, NEW id \in Ids
  PROVE  /\ journal[id] \in Rows \cup {NoRow}
         /\ journal[id] # NoRow =>
              /\ journal[id] \in Rows /\ journal[id].phase \in {"started", "finished"}
              /\ journal[id].input \in TaskKinds \X (Args \cup {"empty"})
              /\ journal[id].notAfterMS \in Deadlines /\ journal[id].notAfterMS \in Nat
              /\ journal[id].outcome \in Outcomes \cup {"none"}
         /\ Finished(id) => journal[id] \in Rows
<1>1. journal[id] \in Rows \cup {NoRow}
  BY DEF TypeOK
<1>2. Finished(id) => journal[id] # NoRow
  BY RowsAreSomething DEF Finished
<1> QED BY <1>1, <1>2, Numbers DEF Rows

(* Time passes at PSP; what an answer proved of it stays true.             *)
LEMMA TickKeepsIInv ==
  ASSUME IInv, Tick
  PROVE  IInv'
<1> USE DEF IInv, Tick
<1>1. TypeOK'
  BY DEF TypeOK
<1>2. Reported' /\ Handed'
  BY DEF Reported, FromJournal, Finished, AckedWasProcessed, Handed
<1>3. InTime'
  BY DEF InTime, TypeOK, Exchanges
<1>4. \A id \in Ids : Journaled(id)' /\ Known(id)'
  BY DEF Journaled, Known, Finished
<1> QED BY <1>1, <1>2, <1>3, <1>4

(* A task is created or restored for an id.                                *)
LEMMA AskKeepsIInv ==
  ASSUME IInv, NEW id \in Ids, NEW t \in Tasks, Create(id, t) \/ Restore(id, t)
  PROVE  IInv'
<1> USE DEF IInv
<1>1. /\ asked' = [asked EXCEPT ![id] = t]
      /\ belief' = belief \/ belief' = [belief EXCEPT ![id] = "open"]
      /\ faults' \in [crashes : Nat, restores : Nat]
      /\ UNCHANGED <<now, observed, build, journal, queue, window, issues, exchange,
                     effect, processed>>
  BY DEF Create, Restore, AgentKeeps, TypeOK
<1>2. TypeOK'
  BY <1>1 DEF TypeOK
<1>3. Reported' /\ Handed' /\ InTime'
  BY <1>1 DEF Reported, FromJournal, Finished, AckedWasProcessed, Handed, InTime
<1>4. ASSUME NEW other \in Ids PROVE Journaled(other)' /\ Known(other)'
  <2>1. Journaled(other)'
    BY <1>1 DEF Journaled
  <2>2. /\ asked'[other] = asked[other] \/ asked'[other] # NoTask
        /\ belief'[other] = belief[other] \/ belief'[other] = "open"
    BY <1>1, TheWireKeepsTasks DEF TypeOK
  <2>3. Known(other)'
    BY <1>1, <2>2 DEF Known, Finished
  <2> QED BY <2>1, <2>3
<1> QED BY <1>2, <1>3, <1>4

(* A round trip begins with the results of the journal, or ends.           *)
LEMMA ExchangeKeepsIInv ==
  ASSUME IInv, Report \/ AnswerFails \/ Lose \/ Invalid
  PROVE  IInv'
<1> USE DEF IInv
<1>1. UNCHANGED <<now, asked, belief, observed, build, journal, queue, window, issues,
                  effect, faults, processed>>
  BY DEF Report, AnswerFails, Lose, Invalid, PSPKeeps, AgentKeeps
<1>2. /\ exchange' \in Exchanges
      /\ \A r \in exchange'.results : FromJournal(r)
      /\ exchange'.phase = "reply" => ~exchange'.valid
      /\ exchange'.phase # "idle" => exchange'.sentAt <= now /\ exchange'.build = build
      /\ exchange'.phase = "reply" => exchange'.sentAt <= exchange'.computedAt
      /\ exchange'.tasks \subseteq exchange.tasks
  <2>1. CASE Report
    <3> DEFINE ready   == {i \in Ids : Finished(i) /\ ~journal[i].acked}
               results == {ResultOf(id, journal[id]) : id \in ready}
    <3>1. exchange' = [phase |-> "report", sentAt |-> now, results |-> results,
                       build |-> build, tasks |-> {}, computedAt |-> 0, valid |-> TRUE]
      BY <2>1 DEF Report, Idle
    <3>2. \A r \in results : FromJournal(r) /\ r \in Results
      BY JournalRows, ResultsAreTyped DEF FromJournal
    <3> HIDE DEF results
    <3> QED BY <3>1, <3>2 DEF Exchanges, TypeOK
  <2>2. CASE AnswerFails
    BY <2>2 DEF AnswerFails, Exchanges, TypeOK, Reported, InTime, Handed
  <2>3. CASE Lose \/ Invalid
    <3>1. exchange' = Idle
      BY <2>3 DEF Lose, Invalid
    <3> QED BY <3>1 DEF Idle, Exchanges
  <2> QED BY <2>1, <2>2, <2>3
<1>3. TypeOK'
  BY <1>1, <1>2 DEF TypeOK
<1>4. Reported'
  BY <1>1, <1>2 DEF Reported, FromJournal, Finished, AckedWasProcessed
<1>5. Handed' /\ InTime'
  BY <1>1, <1>2 DEF Handed, InTime
<1>6. \A id \in Ids : Journaled(id)' /\ Known(id)'
  BY <1>1 DEF Journaled, Known, Finished
<1> QED BY <1>3, <1>4, <1>5, <1>6

(* A verdict PSP draws is the outcome of the row, of the task it asks for. *)
LEMMA AnswersAreOutcomes ==
  ASSUME IInv, NEW valid, Answer(valid), NEW id \in Ids, belief'[id] # belief[id]
  PROVE  /\ belief[id] = "open" /\ asked[id] \in Tasks
         /\ Finished(id) /\ journal[id] \in Rows /\ journal[id].outcome \in Outcomes
         /\ belief'[id] = journal[id].outcome
         /\ SameTask(journal[id], asked[id])
<1> USE DEF IInv
<1> DEFINE r == CHOOSE x \in exchange.results : Answers(x, id)
<1>1. /\ belief[id] = "open" /\ \E x \in exchange.results : Answers(x, id)
      /\ belief'[id] = VerdictOf(r)
  BY DEF Answer
<1>2. r \in exchange.results /\ Answers(r, id)
  BY <1>1
<1> HIDE DEF r
<1>3. r = ResultOf(id, journal[id]) /\ Finished(id)
  BY <1>2 DEF Answers, Reported, FromJournal
<1>4. journal[id] \in Rows /\ journal[id] # NoRow
  BY <1>3, JournalRows, RowsAreSomething
<1>5. journal[id].outcome \in Outcomes
  BY <1>3, <1>4 DEF Journaled, Agrees, Finished, Outcomes
<1>6. r.input = journal[id].input /\ r.notAfterMS = journal[id].notAfterMS
  BY <1>3 DEF ResultOf
<1> QED BY <1>1, <1>2, <1>3, <1>4, <1>5, <1>6, VerdictIsOutcome
        DEF Answers, SameTask, TypeOK

(* An answer acknowledges what it processed, and hands over what the       *)
(* builds allow.                                                           *)
LEMMA AnswerKeepsIInv ==
  ASSUME IInv, NEW valid \in BOOLEAN, Answer(valid)
  PROVE  IInv'
<1> USE DEF IInv
<1> DEFINE wanted == {i \in Ids : /\ asked[i] # NoTask /\ belief'[i] = "open"
                                  /\ Admitted(asked[i].kind, Builds[exchange.build], Supported)}
           tasks  == {[id |-> id, task |-> OnTheWire(asked[id])] : id \in wanted}
<1>1. /\ exchange.phase = "report"
      /\ observed' = exchange.build /\ processed' = processed \cup exchange.results
      /\ exchange' = [exchange EXCEPT !.phase = "reply", !.computedAt = now, !.valid = valid,
                                      !.tasks = tasks]
      /\ UNCHANGED <<now, asked, build, journal, queue, window, issues, effect, faults>>
  BY DEF Answer, AgentKeeps
<1>2. exchange \in Exchanges /\ exchange.build = build /\ exchange.sentAt <= now
  BY <1>1 DEF TypeOK, Handed, InTime
<1>3. \A x \in tasks : x \in Offers /\ Admitted(x.task.kind, Builds[build], Supported)
  <2> SUFFICES ASSUME NEW i \in wanted
               PROVE  LET x == [id |-> i, task |-> OnTheWire(asked[i])] IN
                      x \in Offers /\ Admitted(x.task.kind, Builds[build], Supported)
    OBVIOUS
  <2>1. asked[i] \in Tasks
    BY DEF TypeOK
  <2> QED BY <1>2, <2>1, TheWireKeepsTasks DEF Offers
<1> HIDE DEF tasks
<1>4. /\ exchange' \in Exchanges /\ exchange'.phase = "reply"
      /\ exchange'.results = exchange.results /\ exchange'.tasks = tasks
      /\ exchange'.sentAt = exchange.sentAt /\ exchange'.computedAt = now
      /\ exchange'.build = build
  BY <1>1, <1>2, <1>3 DEF Exchanges, TypeOK
<1>5. ASSUME NEW id \in Ids
      PROVE  /\ belief'[id] \in Outcomes \cup {"open"}
             /\ Known(id)'
  <2>1. CASE belief'[id] = belief[id]
    BY <1>1, <2>1 DEF TypeOK, Known, Finished
  <2>2. CASE belief'[id] # belief[id]
    <3>1. /\ asked[id] \in Tasks /\ Finished(id)
          /\ belief'[id] = journal[id].outcome /\ journal[id].outcome \in Outcomes
      BY <2>2, AnswersAreOutcomes
    <3> QED BY <1>1, <3>1, TheWireKeepsTasks DEF Known, Finished
  <2> QED BY <2>1, <2>2
<1>6. DOMAIN belief' = Ids /\ belief' = [id \in Ids |-> belief'[id]]
  BY DEF Answer
<1>7. belief' \in [Ids -> Outcomes \cup {"open"}]
  BY <1>5, <1>6
<1>8. TypeOK'
  BY <1>1, <1>2, <1>4, <1>7 DEF TypeOK
<1>9. Reported'
  BY <1>1, <1>4 DEF Reported, FromJournal, Finished, AckedWasProcessed
<1>10. Handed' /\ InTime'
  BY <1>1, <1>2, <1>3, <1>4 DEF Handed, InTime
<1>11. \A id \in Ids : Journaled(id)'
  BY <1>1 DEF Journaled
<1> QED BY <1>5, <1>8, <1>9, <1>10, <1>11

(* The agent marks what was acknowledged or is asked again, and queues     *)
(* what it has not recorded.                                               *)
LEMMA ReceiveKeepsIInv ==
  ASSUME IInv, Receive
  PROVE  IInv'
<1> USE DEF IInv
<1> DEFINE again == {r.id : r \in {x \in exchange.tasks : journal[x.id] # NoRow
                                      /\ SameTask(journal[x.id], x.task)}}
<1>1. /\ exchange.phase = "reply" /\ exchange.valid
      /\ journal' = [id \in Ids |->
             IF Finished(id) /\ (Acknowledged(id) \/ id \in again)
             THEN [journal[id] EXCEPT !.acked = AckedAfter(id, again)]
             ELSE journal[id]]
      /\ queue' \subseteq exchange.tasks
      /\ window' = [sentAt |-> exchange.sentAt, receivedAt |-> now,
                    computedAt |-> exchange.computedAt]
      /\ exchange' = Idle
      /\ UNCHANGED <<now, asked, belief, observed, build, effect, faults, processed>>
  BY DEF Receive, ValidateSyncResponse, PSPKeeps
<1> HIDE DEF again
<1>2. exchange \in Exchanges /\ exchange'.results = {} /\ exchange'.tasks = {}
      /\ exchange'.phase = "idle" /\ exchange' \in Exchanges
  BY <1>1 DEF TypeOK, Idle, Exchanges
<1>3. ASSUME NEW id \in Ids
      PROVE  /\ journal'[id] = journal[id]
                \/ /\ Finished(id) /\ journal'[id] = [journal[id] EXCEPT !.acked = AckedAfter(id, again)]
                   /\ journal'[id].acked => Acknowledged(id)
             /\ journal'[id] \in Rows \cup {NoRow}
             /\ journal'[id] = NoRow <=> journal[id] = NoRow
             /\ journal'[id] # NoRow =>
                  /\ journal'[id].phase = journal[id].phase
                  /\ journal'[id].input = journal[id].input
                  /\ journal'[id].notAfterMS = journal[id].notAfterMS
                  /\ journal'[id].outcome = journal[id].outcome
  <2>1. CASE Finished(id) /\ (Acknowledged(id) \/ id \in again)
    <3>1. journal'[id] = [journal[id] EXCEPT !.acked = AckedAfter(id, again)] /\ journal[id] \in Rows
      BY <1>1, <2>1, JournalRows
    <3>2. /\ journal'[id] \in Rows
          /\ journal'[id].phase = journal[id].phase
          /\ journal'[id].input = journal[id].input
          /\ journal'[id].notAfterMS = journal[id].notAfterMS
          /\ journal'[id].outcome = journal[id].outcome
          /\ journal'[id].acked = (id \notin again)
      BY <3>1 DEF Rows, AckedAfter
    <3> QED BY <2>1, <3>1, <3>2, RowsAreSomething
  <2>2. CASE ~(Finished(id) /\ (Acknowledged(id) \/ id \in again))
    BY <1>1, <2>2, JournalRows
  <2> QED BY <2>1, <2>2
<1>4. Settled
  BY <1>3, JournalRows, RowsAreSomething DEF Settled, Finished
<1>5. TypeOK'
  <2>1. journal' \in [Ids -> Rows \cup {NoRow}]
    BY <1>1, <1>3
  <2>2. window' \in [sentAt : Nat, receivedAt : Nat, computedAt : Nat]
    BY <1>1, <1>2 DEF Exchanges, TypeOK
  <2>3. queue' \subseteq Offers
    BY <1>1, <1>2 DEF Exchanges
  <2> QED BY <1>1, <1>2, <2>1, <2>2, <2>3 DEF TypeOK
<1>6. AckedWasProcessed'
  <2> SUFFICES ASSUME NEW id \in Ids, Finished(id)', journal'[id].acked
               PROVE  ResultOf(id, journal'[id]) \in processed
    BY <1>1 DEF AckedWasProcessed
  <2>1. Finished(id) /\ ResultOf(id, journal'[id]) = ResultOf(id, journal[id])
    BY <1>3, RowsAreSomething DEF Finished, ResultOf
  <2>2. CASE journal'[id] = journal[id]
    BY <2>1, <2>2 DEF Reported, AckedWasProcessed
  <2>3. CASE Acknowledged(id)
    <3>1. PICK r \in exchange.results : r.id = id
      BY <2>3 DEF Acknowledged
    <3>2. r = ResultOf(id, journal[id]) /\ r \in processed
      BY <1>1, <3>1 DEF Reported, FromJournal
    <3> QED BY <2>1, <3>2
  <2> QED BY <1>3, <2>2, <2>3
<1>7. Reported'
  BY <1>1, <1>2, <1>4, <1>6, ResultsStand DEF Reported
<1>8. InTime' /\ Handed'
  BY <1>1, <1>2 DEF InTime, Handed
<1>9. ASSUME NEW id \in Ids PROVE Journaled(id)' /\ Known(id)'
  <2>1. Known(id)'
    BY <1>1, <1>4 DEF Known, Settled
  <2>2. CASE journal[id] = NoRow
    BY <1>1, <1>3, <2>1, <2>2 DEF Journaled
  <2>3. CASE journal[id] # NoRow
    <3>1. Agrees(effect[id].state, journal'[id])
      <4>1. Agrees(effect[id].state, journal[id])
        BY <2>3 DEF Journaled
      <4>2. /\ journal'[id] = journal[id] \/ journal[id].phase = "finished"
            /\ journal'[id].phase = journal[id].phase
            /\ journal'[id].outcome = journal[id].outcome
        BY <1>3, <2>3 DEF Finished
      <4> HIDE DEF IInv
      <4> QED BY <4>1, <4>2 DEF Agrees
    <3>2. IF effect[id].state = "none" THEN effect[id] = NoEffect
          ELSE /\ \E t \in WireTasks : effect[id].of = What(t) /\ SameTask(journal[id], t)
               /\ effect[id].at <= journal[id].notAfterMS
      BY <2>3 DEF Journaled
    <3>3. /\ effect'[id] = effect[id] /\ journal'[id] # NoRow
          /\ journal'[id].input = journal[id].input
          /\ journal'[id].notAfterMS = journal[id].notAfterMS
      BY <1>1, <1>3, <2>3
    <3> HIDE DEF IInv
    <3>4. \A t \in WireTasks : SameTask(journal[id], t) => SameTask(journal'[id], t)
      BY <3>3 DEF SameTask
    <3>5. Journaled(id)'
      BY <3>1, <3>2, <3>3, <3>4 DEF Journaled
    <3> QED BY <2>1, <3>5
  <2> QED BY <2>2, <2>3
<1> QED BY <1>5, <1>7, <1>8, <1>9

(* What the worker does to one id whose row is not finished yet.           *)
Worked(id, row, done) ==
  /\ journal' = [journal EXCEPT ![id] = row]
  /\ effect' = [effect EXCEPT ![id] = done]
  /\ queue' \subseteq queue
  /\ UNCHANGED <<now, asked, belief, observed, build, window, exchange, faults, processed>>

(* A row that is not finished changes together with its effect, as the     *)
(* journal accounts for.                                                   *)
LEMMA WorkKeepsIInv ==
  ASSUME IInv, NEW id \in Ids, NEW row \in Rows, ~row.acked, ~Finished(id),
         NEW done \in [state : {"none", "underway", "done", "failed"},
                       of : {What(t) : t \in WireTasks \cup {NoTask}}, at : Nat],
         Worked(id, row, done), Journaled(id)'
  PROVE  IInv'
<1> USE DEF IInv
<1>1. /\ journal'[id] = row /\ \A i \in Ids \ {id} : journal'[i] = journal[i]
      /\ effect'[id] = done /\ \A i \in Ids \ {id} : effect'[i] = effect[i]
  BY DEF Worked, TypeOK
<1>2. TypeOK'
  BY DEF Worked, TypeOK
<1>3. Settled
  BY <1>1 DEF Settled, Finished
<1>4. AckedWasProcessed'
  <2> SUFFICES ASSUME NEW i \in Ids, Finished(i)', journal'[i].acked
               PROVE  ResultOf(i, journal'[i]) \in processed
    BY DEF AckedWasProcessed, Worked
  <2>1. i # id
    BY <1>1
  <2> QED BY <1>1, <2>1 DEF Reported, AckedWasProcessed, Finished
<1>5. Reported'
  BY <1>3, <1>4, ResultsStand DEF Reported, Worked
<1>6. InTime' /\ Handed'
  BY DEF InTime, Handed, Worked
<1>7. ASSUME NEW i \in Ids PROVE Journaled(i)' /\ Known(i)'
  <2>1. Known(i)'
    BY <1>3 DEF Known, Settled, Worked
  <2>2. CASE i # id
    BY <1>1, <2>1, <2>2 DEF Journaled
  <2> QED BY <2>1, <2>2
<1> QED BY <1>2, <1>5, <1>6, <1>7

(* A task of the queue is a task, of an id nothing has begun for.          *)
LEMMA QueuedTasks ==
  ASSUME IInv, NEW r \in queue, journal[r.id] = NoRow
  PROVE  /\ r.id \in Ids /\ r.task \in WireTasks /\ r.task.notAfterMS \in Nat
         /\ ~Finished(r.id) /\ effect[r.id] = NoEffect
<1>1. r.id \in Ids /\ r.task \in WireTasks
  BY DEF IInv, TypeOK, Offers
<1>2. r.task.notAfterMS \in Nat
  BY <1>1, Numbers DEF WireTasks
<1>3. ~Finished(r.id)
  BY RowsAreSomething DEF Finished
<1>4. effect[r.id] = NoEffect
  BY <1>1 DEF IInv, Journaled
<1> QED BY <1>1, <1>2, <1>3, <1>4

(* An effect that begins is in time: PSP's clock had not passed the poll   *)
(* when it computed the response, so it is not ahead of Latest.            *)
LEMMA StartKeepsIInv ==
  ASSUME IInv, NEW r \in queue, Start(r)
  PROVE  IInv'
<1> DEFINE row  == Row(r.task, "started", "none")
           done == [state |-> "underway", of |-> What(r.task), at |-> now]
<1>1. /\ journal[r.id] = NoRow /\ Worked(r.id, row, done) /\ MayStart(r.task)
  BY DEF Start, Drops, WorkerKeeps, PSPKeeps, Worked
<1>2. /\ r.id \in Ids /\ r.task \in WireTasks /\ r.task.notAfterMS \in Nat
      /\ ~Finished(r.id)
  BY <1>1, QueuedTasks
<1>3. now <= r.task.notAfterMS
  <2>1. /\ window.sentAt <= window.computedAt
        /\ window.sentAt \in Nat /\ window.computedAt \in Nat /\ now \in Nat
    BY DEF IInv, InTime, TypeOK
  <2> QED BY <1>1, <1>2, <2>1 DEF MayStart, Latest
<1>4. /\ row \in Rows /\ row # NoRow /\ ~row.acked /\ SameTask(row, r.task)
      /\ row.phase = "started" /\ row.outcome = "none" /\ row.notAfterMS = r.task.notAfterMS
  BY <1>2, RowsAreSomething DEF Row, SameTask
<1>5. done \in [state : {"none", "underway", "done", "failed"},
                of : {What(t) : t \in WireTasks \cup {NoTask}}, at : Nat]
  BY <1>2 DEF IInv, TypeOK
<1>6. Journaled(r.id)'
  <2>1. journal'[r.id] = row /\ effect'[r.id] = done
    BY <1>1, <1>2 DEF Worked, IInv, TypeOK
  <2>2. /\ Agrees(done.state, row) /\ done.state # "none"
        /\ done.of = What(r.task) /\ done.at <= row.notAfterMS
    BY <1>3, <1>4 DEF Agrees
  <2> HIDE DEF row, done
  <2> QED BY <1>2, <1>4, <2>1, <2>2 DEF Journaled
<1> HIDE DEF row, done
<1> QED BY <1>1, <1>2, <1>4, <1>5, <1>6, WorkKeepsIInv

(* What is provably late is refused without an effect.                     *)
LEMMA ExpireKeepsIInv ==
  ASSUME IInv, NEW r \in queue, Expire(r)
  PROVE  IInv'
<1> DEFINE row == Row(r.task, "finished", "expired")
<1>1. journal[r.id] = NoRow
  BY DEF Expire
<1>2. /\ r.id \in Ids /\ r.task \in WireTasks /\ ~Finished(r.id)
      /\ effect[r.id] = NoEffect
  BY <1>1, QueuedTasks
<1>3. /\ row \in Rows /\ row # NoRow /\ ~row.acked
      /\ row.phase = "finished" /\ row.outcome = "expired"
  <2>1. "expired" \in Outcomes
    BY DEF Outcomes
  <2>2. row \in Rows
    BY <1>2, <2>1, RowsAreSomething
  <2> QED BY <2>2, RowsAreSomething DEF Row
<1>4. Worked(r.id, row, effect[r.id])
  BY <1>2 DEF Expire, Drops, WorkerKeeps, PSPKeeps, Worked, IInv, TypeOK
<1>5. Journaled(r.id)'
  <2>1. journal'[r.id] = row /\ effect'[r.id] = NoEffect
    BY <1>2, <1>4 DEF Worked, IInv, TypeOK
  <2> HIDE DEF row
  <2> QED BY <1>3, <2>1 DEF Journaled, Agrees, NoEffect
<1>6. effect[r.id] \in [state : {"none", "underway", "done", "failed"},
                         of : {What(t) : t \in WireTasks \cup {NoTask}}, at : Nat]
  BY <1>2 DEF IInv, TypeOK
<1> HIDE DEF row
<1> QED BY <1>2, <1>3, <1>4, <1>5, <1>6, WorkKeepsIInv

(* A row that was started says what its effect comes to.                   *)
LEMMA EffectKeepsIInv ==
  ASSUME IInv, NEW id \in Ids,
         Record(id) \/ \E outcome \in {"done", "failed"} : Complete(id, outcome)
  PROVE  IInv'
<1>1. journal[id].phase = "started"
  BY DEF Record, Complete
<1>2. /\ journal[id] # NoRow /\ ~Finished(id)
  BY <1>1, RowsAreSomething DEF Finished
<1>3. journal[id] \in Rows
  BY <1>2, JournalRows DEF IInv
<1>4. /\ ~journal[id].acked /\ effect[id].state # "none" /\ journal[id].outcome = "none"
      /\ effect[id].at <= journal[id].notAfterMS
      /\ \E t \in WireTasks : effect[id].of = What(t) /\ SameTask(journal[id], t)
  BY <1>1, <1>2 DEF IInv, Journaled, Agrees
<1>5. effect[id] \in [state : {"none", "underway", "done", "failed"},
                      of : {What(t) : t \in WireTasks \cup {NoTask}}, at : Nat]
  BY DEF IInv, TypeOK
<1>6. CASE Record(id)
  <2> DEFINE row == [journal[id] EXCEPT !.phase = "finished",
                       !.outcome = IF effect[id].state = "done" THEN "ok" ELSE "failed"]
  <2>1. Worked(id, row, effect[id])
    <3>1. journal' = [journal EXCEPT ![id] = row]
      BY <1>6 DEF Record, IInv, TypeOK
    <3> QED BY <1>6, <3>1 DEF Record, WorkerKeeps, PSPKeeps, Worked, IInv, TypeOK
  <2>2. /\ row \in Rows /\ ~row.acked /\ row.phase = "finished"
        /\ row.outcome = IF effect[id].state = "done" THEN "ok" ELSE "failed"
        /\ row.input = journal[id].input /\ row.notAfterMS = journal[id].notAfterMS
    BY <1>3, <1>4 DEF Rows, Outcomes
  <2> HIDE DEF row
  <2>3. Agrees(effect[id].state, row)
    BY <1>6, <2>2 DEF Record, Agrees
  <2>4. journal'[id] = row /\ effect'[id] = effect[id]
    BY <2>1 DEF Worked, IInv, TypeOK
  <2>5. Journaled(id)'
    BY <1>4, <2>2, <2>3, <2>4, RowsAreSomething DEF Journaled, SameTask
  <2> QED BY <1>2, <1>5, <2>1, <2>2, <2>5, WorkKeepsIInv
<1>7. ASSUME NEW outcome \in {"done", "failed"}, Complete(id, outcome)
      PROVE  IInv'
  <2> DEFINE done == [effect[id] EXCEPT !.state = outcome]
  <2>1. Worked(id, journal[id], done)
    BY <1>7 DEF Complete, WorkerKeeps, PSPKeeps, Worked, IInv, TypeOK
  <2>2. /\ done \in [state : {"none", "underway", "done", "failed"},
                      of : {What(t) : t \in WireTasks \cup {NoTask}}, at : Nat]
        /\ done.state = outcome /\ done.of = effect[id].of /\ done.at = effect[id].at
    BY <1>5
  <2> HIDE DEF done
  <2>3. journal'[id] = journal[id] /\ effect'[id] = done
    BY <2>1 DEF Worked, IInv, TypeOK
  <2>4. Journaled(id)'
    BY <1>1, <1>2, <1>4, <2>2, <2>3 DEF Journaled, Agrees, SameTask
  <2> QED BY <1>2, <1>3, <1>4, <2>1, <2>2, <2>4, WorkKeepsIInv
<1> QED BY <1>6, <1>7

(* What is neither provably late nor timely is fenced.                     *)
LEMMA FenceKeepsIInv ==
  ASSUME IInv, NEW r \in queue, FenceReplay(r)
  PROVE  IInv'
<1>1. /\ queue' \subseteq queue
      /\ UNCHANGED <<now, asked, belief, observed, build, journal, window, exchange, effect,
                     faults, processed>>
  BY DEF FenceReplay, Drops, WorkerKeeps, PSPKeeps
<1> QED BY <1>1 DEF IInv, TypeOK, Reported, FromJournal, Finished, AckedWasProcessed, InTime,
                Handed, Journaled, Known

(* What a crash leaves of a row that was started proves nothing.           *)
LEMMA CrashKeepsIInv ==
  ASSUME IInv, Crash
  PROVE  IInv'
<1> USE DEF IInv
<1>1. /\ build' \in DOMAIN Builds /\ faults' \in [crashes : Nat, restores : Nat]
      /\ journal' = [id \in Ids |->
           IF journal[id].phase = "started"
           THEN [journal[id] EXCEPT !.phase = "finished", !.outcome = "indeterminate"]
           ELSE journal[id]]
      /\ queue' = {} /\ window' = NoWindow /\ exchange' = Idle
      /\ UNCHANGED <<now, asked, belief, observed, effect, processed>>
  <2>1. faults' \in [crashes : Nat, restores : Nat]
    <3>1. faults' = [faults EXCEPT !.crashes = @ + 1]
      BY Zenon DEF Crash
    <3> QED BY <3>1 DEF TypeOK
  <2>2. UNCHANGED <<now, asked, belief, observed, effect, processed>>
    <3>1. PSPKeeps /\ UNCHANGED <<now, issues, effect>>
      BY Zenon DEF Crash
    <3> QED BY <3>1 DEF PSPKeeps
  <2> QED BY <2>1, <2>2, Zenon DEF Crash
<1>2. /\ exchange' \in Exchanges /\ exchange'.results = {} /\ exchange'.tasks = {}
      /\ exchange'.phase = "idle"
  BY <1>1 DEF Idle, Exchanges
<1>3. window' \in [sentAt : Nat, receivedAt : Nat, computedAt : Nat]
  <2>1. NoWindow \in [sentAt : Nat, receivedAt : Nat, computedAt : Nat]
    BY Numbers DEF NoWindow
  <2> QED BY <1>1, <2>1
<1>4. ASSUME NEW id \in Ids
      PROVE  \/ journal'[id] = journal[id] /\ journal[id].phase # "started"
             \/ /\ journal[id] \in Rows /\ journal[id].phase = "started"
                /\ journal'[id] \in Rows /\ journal'[id].phase = "finished"
                /\ journal'[id].outcome = "indeterminate"
                /\ journal'[id].acked = journal[id].acked
                /\ journal'[id].input = journal[id].input
                /\ journal'[id].notAfterMS = journal[id].notAfterMS
  <2>1. CASE journal[id].phase = "started"
    <3>1. journal[id] \in Rows
      BY <2>1, JournalRows, RowsAreSomething
    <3>2. journal'[id] = [journal[id] EXCEPT !.phase = "finished", !.outcome = "indeterminate"]
      BY <1>1, <2>1
    <3> QED BY <2>1, <3>1, <3>2 DEF Rows, Outcomes
  <2>2. CASE journal[id].phase # "started"
    BY <1>1, <2>2
  <2> QED BY <2>1, <2>2
<1>5. TypeOK'
  <2>1. journal' \in [Ids -> Rows \cup {NoRow}]
    BY <1>1, <1>4, JournalRows
  <2> QED BY <1>1, <1>2, <1>3, <2>1 DEF TypeOK
<1>6. Settled
  BY <1>4 DEF Settled, Finished
<1>7. ASSUME NEW id \in Ids PROVE Journaled(id)' /\ Known(id)'
  <2>1. Known(id)'
    BY <1>1, <1>6 DEF Known, Settled
  <2>2. CASE journal'[id] = journal[id]
    BY <1>1, <2>1, <2>2 DEF Journaled
  <2>3. CASE journal[id].phase = "started" /\ journal'[id] # journal[id]
    <3>1. Agrees(effect[id].state, journal[id]) /\ journal[id] # NoRow /\ journal'[id] # NoRow
      BY <1>4, <2>3, RowsAreSomething DEF Journaled
    <3>2. Agrees(effect[id].state, journal'[id])
      BY <1>4, <2>3, <3>1 DEF Agrees
    <3>3. /\ journal'[id].input = journal[id].input
          /\ journal'[id].notAfterMS = journal[id].notAfterMS
      BY <1>4, <2>3
    <3>4. Journaled(id) /\ effect'[id] = effect[id]
      BY <1>1
    <3> QED BY <2>1, <3>1, <3>2, <3>3, <3>4 DEF Journaled, SameTask
  <2> QED BY <1>4, <2>2, <2>3
<1>8. AckedWasProcessed'
  <2> SUFFICES ASSUME NEW id \in Ids, Finished(id)', journal'[id].acked
               PROVE  ResultOf(id, journal'[id]) \in processed
    BY <1>1 DEF AckedWasProcessed
  <2>1. journal'[id] = journal[id]
    BY <1>4, RowsAreSomething DEF Journaled, Agrees
  <2> QED BY <2>1 DEF Reported, AckedWasProcessed, Finished
<1>9. Reported'
  BY <1>1, <1>2, <1>6, <1>8, ResultsStand DEF Reported
<1>10. InTime' /\ Handed'
  BY <1>1, <1>2 DEF InTime, Handed
<1> QED BY <1>5, <1>7, <1>9, <1>10

(* Every step preserves the invariant.                                     *)
LEMMA NextIInv == IInv /\ [Next]_vars => IInv'
<1> SUFFICES ASSUME IInv, [Next]_vars PROVE IInv'
  OBVIOUS
<1>1. CASE Tick
  BY <1>1, TickKeepsIInv
<1>2. CASE Report \/ AnswerFails \/ Lose \/ Invalid
  BY <1>2, ExchangeKeepsIInv
<1>3. CASE Receive
  BY <1>3, ReceiveKeepsIInv
<1>4. CASE Crash
  BY <1>4, CrashKeepsIInv
<1>5. CASE \E id \in Ids, t \in Tasks : Create(id, t) \/ Restore(id, t)
  BY <1>5, AskKeepsIInv
<1>6. CASE \E valid \in BOOLEAN : Answer(valid)
  BY <1>6, AnswerKeepsIInv
<1>7. CASE \E r \in queue : Start(r) \/ Expire(r) \/ FenceReplay(r)
  BY <1>7, StartKeepsIInv, ExpireKeepsIInv, FenceKeepsIInv
<1>8. CASE \E id \in Ids : Record(id) \/ \E o \in {"done", "failed"} : Complete(id, o)
  BY <1>8, EffectKeepsIInv
<1>9. CASE UNCHANGED vars
  BY <1>9 DEF vars, IInv, TypeOK, Reported, FromJournal, Finished, AckedWasProcessed, InTime,
              Handed, Journaled, Known
<1> QED BY <1>1, <1>2, <1>3, <1>4, <1>5, <1>6, <1>7, <1>8, <1>9 DEF Next

-----------------------------------------------------------------------------
(* Theorems *)

(* The invariant of the exchange of tasks: journal, effect and verdict.    *)
THEOREM Invariance == Spec => []IInv
<1>1. IInv /\ [Next]_vars => IInv'
  BY NextIInv
<1> QED BY <1>1, InitIInv, PTL DEF Spec

(* Whatever the delays, nothing starts after its deadline by PSP's clock   *)
(* (CapabilityTaskExpiryV1).                                               *)
THEOREM StartsInTime == Spec => []NoLateStart
<1>1. IInv => NoLateStart
  BY RowsAreSomething DEF IInv, Journaled, NoLateStart
<1> QED BY <1>1, Invariance, PTL

(* Crashes and upgrades included, a task only waits in the queue of a      *)
(* build that announced its kind and the two capabilities it needs         *)
(* (AssessCompatibilityIn).                                                *)
THEOREM KindsAreAnnounced == Spec => []OnlyAnnouncedKinds
<1>1. ASSUME IInv PROVE OnlyAnnouncedKinds
  <2> SUFFICES ASSUME NEW r \in queue
               PROVE  {TaskExecution, TaskExpiry, TaskCapability(r.task.kind)}
                        \subseteq Builds[build].capabilities
    BY DEF OnlyAnnouncedKinds
  <2>1. Admitted(r.task.kind, Builds[build], Supported)
    BY <1>1 DEF IInv, Handed
  <2>2. CASE r.task.kind = UpgradeKind
    <3>1. AgentUpgradeCapabilities \ Builds[build].capabilities = {}
      BY <2>1, <2>2 DEF Admitted, AssessCompatibilityIn, AgentUpgrade
    <3> QED BY <2>2, <3>1 DEF AgentUpgradeCapabilities
  <2>3. CASE r.task.kind # UpgradeKind
    BY <2>1, <2>3 DEF Admitted, AssessCompatibilityIn
  <2> QED BY <2>2, <2>3
<1> QED BY <1>1, Invariance, PTL

(* However often reports and responses are lost, late or invalid, a result *)
(* the agent has stopped sending is one PSP has processed                  *)
(* (protocol/report.go TaskResults).                                       *)
THEOREM NoResultIsLost == Spec => []AckedWasProcessed
<1>1. IInv => AckedWasProcessed
  BY DEF IInv, Reported
<1> QED BY <1>1, Invariance, PTL

-----------------------------------------------------------------------------
(* The refinement. *)

(* The contract's view of the exchange: what is asked for, what happened.  *)
Inputs  == {What(t) : t \in Tasks}
AskedOf == [id \in Ids |-> What(asked[id])]
DoneOf  == [id \in Ids |-> [state |-> effect[id].state, of |-> effect[id].of]]

(* What TaskContract sees of the state.                                    *)
LEMMA ContractView ==
  /\ Contract!contractVars = <<AskedOf, DoneOf, belief>>
  /\ Contract!NoEffect = [state |-> "none", of |-> What(NoTask)]
BY DEF Contract!contractVars, Contract!NoEffect, AskedOf, DoneOf

(* A task is created, or PSP is restored: something is asked.              *)
LEMMA AskIsAsked ==
  ASSUME IInv, NEW id \in Ids, NEW t \in Tasks, Create(id, t) \/ Restore(id, t)
  PROVE  Contract!Ask(id)
<1>1. /\ asked' = [asked EXCEPT ![id] = t] /\ effect' = effect
      /\ asked \in [Ids -> Tasks \cup {NoTask}]
      /\ belief \in [Ids -> Outcomes \cup {"open"}]
  BY DEF Create, Restore, AgentKeeps, IInv, TypeOK
<1>2. belief' = [belief EXCEPT ![id] = "open"]
  <2>1. CASE Create(id, t)
    <3>1. belief' = belief /\ belief[id] = "open"
      BY <2>1 DEF Create, IInv, Known
    <3> QED BY <1>1, <3>1
  <2>2. CASE Restore(id, t)
    BY <2>2 DEF Restore
  <2> QED BY <2>1, <2>2
<1>3. /\ AskedOf' \in [Ids -> Inputs \cup {What(NoTask)}]
      /\ \A other \in Ids \ {id} : AskedOf'[other] = AskedOf[other]
      /\ AskedOf'[id] # What(NoTask)
  <2>1. \A i \in Ids : asked'[i] \in Tasks \cup {NoTask}
    BY <1>1
  <2>2. asked'[id] = t /\ \A other \in Ids \ {id} : asked'[other] = asked[other]
    BY <1>1
  <2>3. AskedOf' = [i \in Ids |-> What(asked'[i])] /\ AskedOf = [i \in Ids |-> What(asked[i])]
    BY DEF AskedOf
  <2>4. \A u \in Tasks \cup {NoTask} : What(u) \in Inputs \cup {What(NoTask)}
    BY DEF Inputs
  <2> QED BY <2>1, <2>2, <2>3, <2>4, TheWireKeepsTasks
<1>4. DoneOf' = DoneOf
  BY <1>1 DEF DoneOf
<1> QED BY <1>2, <1>3, <1>4 DEF Contract!Ask, AskedOf, DoneOf, Inputs

(* PSP processes a report: every verdict it draws is true.                 *)
LEMMA AnswerIsLearned ==
  ASSUME IInv, NEW valid \in BOOLEAN, Answer(valid)
  PROVE  Contract!Learn
<1>1. asked' = asked /\ effect' = effect
  BY DEF Answer, AgentKeeps
<1>2. AskedOf' = AskedOf /\ DoneOf' = DoneOf
  BY <1>1 DEF AskedOf, DoneOf
<1>3. ASSUME NEW id \in Ids, belief'[id] # belief[id]
      PROVE  belief[id] = "open" /\ Contract!True(id, belief'[id])
  <2>1. /\ belief[id] = "open" /\ asked[id] \in Tasks
        /\ Finished(id) /\ journal[id] \in Rows
        /\ belief'[id] = journal[id].outcome
        /\ SameTask(journal[id], asked[id])
    BY <1>3, AnswersAreOutcomes
  <2>2. /\ AskedOf[id] = What(asked[id])
        /\ DoneOf[id] = [state |-> effect[id].state, of |-> effect[id].of]
    BY DEF AskedOf, DoneOf
  <2>3. journal[id] # NoRow /\ journal[id].phase = "finished"
    BY <2>1, RowsAreSomething DEF Finished
  <2>4. Agrees(effect[id].state, journal[id])
    BY <2>3 DEF IInv, Journaled
  <2>5. CASE effect[id].state = "none"
    <3>1. effect[id] = NoEffect /\ journal[id].outcome = "expired"
      BY <2>3, <2>4, <2>5 DEF IInv, Journaled, Agrees
    <3>2. DoneOf[id] = Contract!NoEffect
      BY <2>2, <3>1, ContractView DEF NoEffect
    <3> QED BY <2>1, <3>1, <3>2 DEF Contract!True, DoneOf
  <2>6. CASE effect[id].state # "none"
    <3>1. PICK t \in WireTasks : effect[id].of = What(t) /\ SameTask(journal[id], t)
      BY <2>3, <2>6 DEF IInv, Journaled
    <3>2. effect[id].of = What(asked[id])
      BY <2>1, <3>1, TheWireKeepsTasks, SameInputSameTask DEF SameTask
    <3>3. DoneOf[id] = [state |-> effect[id].state, of |-> AskedOf[id]]
      BY <2>2, <3>2
    <3>4. DoneOf[id] # Contract!NoEffect
      BY <2>6, <3>3, ContractView
    <3>5. \/ journal[id].outcome = "ok" /\ effect[id].state = "done"
          \/ journal[id].outcome = "failed" /\ effect[id].state = "failed"
          \/ journal[id].outcome = "indeterminate"
      BY <2>3, <2>4, <2>6 DEF Agrees
    <3> QED BY <2>1, <3>3, <3>4, <3>5 DEF Contract!True, DoneOf, AskedOf
  <2> QED BY <2>1, <2>5, <2>6
<1> QED BY <1>2, <1>3 DEF Contract!Learn, AskedOf, DoneOf

(* A start begins the effect of an id for the first time.                  *)
LEMMA StartIsBegun ==
  ASSUME IInv, NEW r \in queue, Start(r)
  PROVE  Contract!Begin(r.id)
<1>1. /\ journal[r.id] = NoRow /\ asked' = asked /\ belief' = belief
      /\ effect' = [effect EXCEPT ![r.id] =
                      [state |-> "underway", of |-> What(r.task), at |-> now]]
  BY DEF Start, WorkerKeeps, PSPKeeps
<1>2. /\ r.id \in Ids /\ r.task \in WireTasks /\ ~Finished(r.id)
      /\ effect[r.id] = NoEffect
  BY <1>1, QueuedTasks
<1>3. DoneOf[r.id] = Contract!NoEffect
  BY <1>2, ContractView DEF DoneOf, NoEffect
<1>4. belief[r.id] # "expired"
  BY <1>2 DEF IInv, Known
<1>5. What(r.task) \in Inputs
  BY <1>2 DEF WireTasks, Inputs
<1>6. DoneOf' = [DoneOf EXCEPT ![r.id] = [state |-> "underway", of |-> What(r.task)]]
  <2>1. DOMAIN effect = Ids
    BY DEF IInv, TypeOK
  <2> QED BY <1>1, <2>1 DEF DoneOf
<1>7. AskedOf' = AskedOf
  BY <1>1 DEF AskedOf
<1> QED BY <1>1, <1>3, <1>4, <1>5, <1>6, <1>7 DEF Contract!Begin, DoneOf, AskedOf, Inputs

(* An effect that was begun completes.                                     *)
LEMMA CompleteIsCompleted ==
  ASSUME IInv, NEW id \in Ids, NEW outcome \in {"done", "failed"}, Complete(id, outcome)
  PROVE  Contract!Complete(id)
<1>1. /\ effect[id].state = "underway" /\ asked' = asked /\ belief' = belief
      /\ effect' = [effect EXCEPT ![id].state = outcome]
  BY DEF Complete, WorkerKeeps, PSPKeeps
<1>2. /\ DOMAIN effect = Ids
      /\ \A i \in Ids : effect[i] \in [state : {"none", "underway", "done", "failed"},
                                       of : {What(t) : t \in WireTasks \cup {NoTask}}, at : Nat]
  BY DEF IInv, TypeOK
<1>3. DoneOf' = [DoneOf EXCEPT ![id].state = outcome]
  BY <1>1, <1>2 DEF DoneOf
<1>4. AskedOf' = AskedOf /\ DoneOf[id].state = "underway"
  BY <1>1 DEF AskedOf, DoneOf
<1> QED BY <1>1, <1>3, <1>4 DEF Contract!Complete, DoneOf, AskedOf

(* Reports, responses, journals and clocks together keep the promise of    *)
(* envelope.go: the effect of an id begins at most once, and what PSP      *)
(* believes of what it asked for is true (TaskContract).                   *)
THEOREM ContractIsKept == Spec => ImplementsContract
<1>1. Init => Contract!ContractInit
  <2> SUFFICES ASSUME Init PROVE Contract!ContractInit
    OBVIOUS
  <2>1. /\ asked = [id \in Ids |-> NoTask] /\ belief = [id \in Ids |-> "open"]
        /\ effect = [id \in Ids |-> NoEffect]
    BY DEF Init
  <2>2. AskedOf = [id \in Ids |-> What(NoTask)] /\ DoneOf = [id \in Ids |-> Contract!NoEffect]
    BY <2>1, ContractView DEF AskedOf, DoneOf, NoEffect
  <2> QED BY <2>1, <2>2 DEF Contract!ContractInit, AskedOf, DoneOf
<1>2. ASSUME IInv, [Next]_vars
      PROVE  [Contract!ContractNext]_(Contract!contractVars)
  <2> USE DEF Contract!ContractNext
  <2>1. CASE UNCHANGED <<asked, effect, belief>>
    BY <2>1 DEF Contract!contractVars
  <2>2. CASE \E id \in Ids, t \in Tasks : Create(id, t) \/ Restore(id, t)
    BY <1>2, <2>2, AskIsAsked
  <2>3. CASE \E valid \in BOOLEAN : Answer(valid)
    BY <1>2, <2>3, AnswerIsLearned
  <2>4. ASSUME NEW r \in queue, Start(r) PROVE Contract!ContractNext
    BY <1>2, <2>4, StartIsBegun, QueuedTasks DEF Start
  <2>5. CASE \E id \in Ids, o \in {"done", "failed"} : Complete(id, o)
    BY <1>2, <2>5, CompleteIsCompleted
  <2>6. CASE Tick \/ Report \/ AnswerFails \/ Lose \/ Invalid \/ Receive
    BY <2>1, <2>6 DEF Tick, Report, AnswerFails, Lose, Invalid, Receive, PSPKeeps, AgentKeeps
  <2>7. CASE Crash
    <3>1. PSPKeeps /\ effect' = effect
      BY <2>7, Zenon DEF Crash
    <3> QED BY <2>1, <3>1 DEF PSPKeeps
  <2>8. ASSUME NEW r \in queue, Expire(r) \/ FenceReplay(r)
        PROVE  UNCHANGED <<asked, effect, belief>>
    BY <2>8 DEF Expire, FenceReplay, WorkerKeeps, PSPKeeps
  <2>9. ASSUME NEW id \in Ids, Record(id)
        PROVE  UNCHANGED <<asked, effect, belief>>
    BY <2>9 DEF Record, WorkerKeeps, PSPKeeps
  <2>10. CASE UNCHANGED vars
    BY <2>1, <2>10 DEF vars
  <2> QED BY <1>2, <2>1, <2>2, <2>3, <2>4, <2>5, <2>6, <2>7, <2>8, <2>9, <2>10 DEF Next
<1> QED BY <1>1, <1>2, Invariance, PTL DEF Spec, ImplementsContract, Contract!ContractSpec
=============================================================================
