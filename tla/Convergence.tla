---------------------------- MODULE Convergence ----------------------------
(***************************************************************************)
(* The round trip that brings an agent to what PSP wants: PSP publishes a  *)
(* config document (the listeners) and a roster document (the clients and  *)
(* what they attach to) in one transaction, the agent polls with what it   *)
(* holds, PSP answers with the documents whose ETag differs, and the agent *)
(* commits them, drives every object with AdvanceObject and judges every   *)
(* attachment with EvaluateAttachment.                                     *)
(*                                                                         *)
(* From the repository: Version, ObjectStatus and Attachment; the shape of *)
(* a segment and of what an agent holds (protocol/segments.go, report.go). *)
(* External, taken from the contract those files state: when PSP mints,    *)
(* how the agent adopts a segment, and which event a ruling becomes.       *)
(*                                                                         *)
(* A response is computed when the agent polls and may arrive late (PSP    *)
(* publishes meanwhile) or never; one exchange is in flight at a time.  A  *)
(* segment may be isolated as malformed while the other one is committed.  *)
(* PSP may be restored from a backup, which rebuilds its documents under   *)
(* the next epoch.  The core may fail a listener that was in effect.       *)
(*                                                                         *)
(* Abstracted: time (one instant; ObjectState has the clock), the content  *)
(* of a listener or client, and attachment sets: a client attaches to at   *)
(* most one listener, NoName for none.  The ETag of a document is its      *)
(* content, as version.go requires.                                        *)
(***************************************************************************)
EXTENDS ObjectStatus, Attachment, FiniteSets

CONSTANTS Clients,
          BadListeners,          \* listeners the core can only reject
          NoBody,                \* no document, or none in the segment
          EscalateAfterRounds,   \* tolerated rounds of version skew
          Isolable,              \* segments a build may find malformed
          Revisits,              \* may PSP publish content it had before?
          MaxEpoch, MaxVersion, MaxFailures     \* bounds

ASSUME ListenersAssumption == BadListeners \subseteq ListenerKeys
ASSUME ExchangeAssumption ==
  Isolable \subseteq {"config", "roster"} /\ Revisits \in BOOLEAN
ASSUME RoundsAssumption == EscalateAfterRounds \in Nat

(* The two codes the agent gives an object (protocol/report.go).           *)
ASSUME CodesAssumption ==
  {"core_rejected", "attachment_unknown_listener"} \subseteq IssueCodes

VARIABLES config,         \* PSP: [version, body], body the set of listeners
          roster,         \* PSP: [version, body], body [minConfig, attach]
          published,      \* history: every config document PSP has minted
          reply,          \* the response in flight, or NoBody
          heldConfig,     \* agent: [version, etag, body]
          heldRoster,     \* agent: [version, etag, body]
          listener,       \* agent: status of each listener object
          client,         \* agent: status of each client object
          aheadRounds,    \* agent: rounds the roster has led the config
          failures        \* core failures so far

pspVars   == <<config, roster, published>>
agentVars == <<heldConfig, heldRoster, listener, client, aheadRounds>>
vars      == <<pspVars, reply, agentVars, failures>>

ConfigBodies == SUBSET ListenerKeys
Attachments  == [Clients -> ListenerKeys \cup {NoName}]
RosterBodies == [minConfig : Versions, attach : Attachments]

(* A stream as delivered, of either kind. *)
Segments(bodies) ==
  [unchanged : BOOLEAN, version : Versions, body : bodies \cup {NoBody}]
Replies == [config : Segments(ConfigBodies), roster : Segments(RosterBodies)]

(* The absence of a document or of a response is neither. *)
ASSUME NoBodyAssumption ==
  /\ \A listeners \in ConfigBodies : listeners # NoBody
  /\ NoBody \notin RosterBodies /\ NoBody \notin Replies

Unattached == [c \in Clients |-> NoName]

At(event) == [event |-> event, version |-> NoVersion, atMS |-> 1,
              issueCode |-> NoName, blockedOn |-> NoName]

(* Every attachment names a listener of the same publication. *)
Closed(listeners, attach) ==
  \A c \in Clients : attach[c] \in listeners \cup {NoName}

(* A document row as PSP builds it: the counter starts over in its epoch. *)
Rebuilt(body, epoch) == [version |-> [epoch |-> epoch, version |-> 1], body |-> body]

Init ==
  /\ \E listeners \in ConfigBodies, attach \in Attachments :
       /\ Closed(listeners, attach)
       /\ config = Rebuilt(listeners, 1)
       /\ roster = Rebuilt([minConfig |-> config.version, attach |-> attach], 1)
  /\ published = {config}
  /\ reply = NoBody
  /\ heldConfig = [version |-> NoVersion, etag |-> NoBody, body |-> {}]
  /\ heldRoster = [version |-> NoVersion, etag |-> NoBody,
                   body |-> [minConfig |-> NoVersion, attach |-> Unattached]]
  /\ listener = [l \in ListenerKeys |-> NewStatus]
  /\ client = [c \in Clients |-> NewStatus]
  /\ aheadRounds = 0
  /\ failures = 0

-----------------------------------------------------------------------------
(* PSP *)

(* Minting is content-idempotent: identical content mints nothing. *)
Mint(doc, body) ==
  IF body = doc.body THEN doc
  ELSE [version |-> [doc.version EXCEPT !.version = @ + 1], body |-> body]

(* Both documents are computed in one transaction: the roster records the  *)
(* config version it was read with.                                        *)
Publish(listeners, attach) ==
  LET newConfig == Mint(config, listeners)
      newRoster == Mint(roster, [minConfig |-> newConfig.version, attach |-> attach])
  IN /\ Closed(listeners, attach)
     /\ Revisits \/ newConfig = config \/ \A d \in published : d.body # listeners
     /\ newConfig.version.version <= MaxVersion
     /\ newRoster.version.version <= MaxVersion
     /\ newRoster # roster
     /\ config' = newConfig
     /\ roster' = newRoster
     /\ published' = published \cup {newConfig}
     /\ UNCHANGED <<reply, agentVars, failures>>

(* A restore brings back an earlier config, a roster closed over it, and   *)
(* counters that start over in the next epoch.                             *)
Restore(backup, attach) ==
  LET epoch == config.version.epoch + 1 IN
  /\ epoch <= MaxEpoch
  /\ Closed(backup.body, attach)
  /\ config' = Rebuilt(backup.body, epoch)
  /\ roster' = Rebuilt([minConfig |-> config'.version, attach |-> attach], epoch)
  /\ published' = published \cup {config'}
  /\ UNCHANGED <<reply, agentVars, failures>>

-----------------------------------------------------------------------------
(* The exchange *)

(* A stream as delivered: no body when the ETag the agent presented is     *)
(* that of the current document.                                           *)
Segment(doc, held) ==
  [unchanged |-> held.etag = doc.body,
   version   |-> doc.version,
   body      |-> IF held.etag = doc.body THEN NoBody ELSE doc.body]

Poll ==
  /\ reply = NoBody
  /\ reply' = [config |-> Segment(config, heldConfig),
               roster |-> Segment(roster, heldRoster)]
  /\ UNCHANGED <<pspVars, agentVars, failures>>

LoseReply ==
  /\ reply # NoBody
  /\ reply' = NoBody
  /\ UNCHANGED <<pspVars, agentVars, failures>>

(* Mutant: the version of an unchanged segment is recorded as applied, but *)
(* only the version: a stale ETag is left to vouch for it.                 *)
AdoptAnything(held, segment) ==
  IF segment.unchanged
  THEN [held EXCEPT !.version = segment.version]
  ELSE [version |-> segment.version, etag |-> held.etag, body |-> segment.body]

(* Only a version whose bytes arrived is recorded as applied; an unchanged *)
(* segment of a later epoch makes the agent clear what it holds, and ask   *)
(* for the bytes by presenting no ETag, while what runs keeps running.     *)
Adopt(held, segment) ==
  CASE segment.unchanged /\ segment.version.epoch > held.version.epoch ->
         [held EXCEPT !.version = NoVersion, !.etag = NoBody]
    [] ~segment.unchanged /\ Newer(segment.version, held.version) ->
         [version |-> segment.version, etag |-> segment.body, body |-> segment.body]
    [] OTHER -> held

(* Every object of a held document is offered the document's version;      *)
(* AdvanceObject makes nothing of one it already has.                      *)
Offer(status, version) ==
  AdvanceObject(status, [At("accepted") EXCEPT !.version = version])

Receive(isolated) ==
  LET newConfig == IF "config" \in isolated THEN heldConfig
                   ELSE Adopt(heldConfig, reply.config)
      newRoster == IF "roster" \in isolated THEN heldRoster
                   ELSE Adopt(heldRoster, reply.roster)
  IN /\ reply # NoBody
     /\ reply' = NoBody
     /\ heldConfig' = newConfig
     /\ heldRoster' = newRoster
     /\ listener' = [l \in ListenerKeys |->
                       IF l \in newConfig.body
                       THEN Offer(listener[l], newConfig.version) ELSE NewStatus]
     /\ client' = [c \in Clients |-> Offer(client[c], newRoster.version)]
     /\ aheadRounds' = IF Newer(newRoster.body.minConfig, newConfig.version)
                       THEN IF aheadRounds > EscalateAfterRounds
                            THEN aheadRounds ELSE aheadRounds + 1
                       ELSE 0
     /\ UNCHANGED <<pspVars, failures>>

-----------------------------------------------------------------------------
(* The agent's reconciliation *)

(* The core takes a listener into effect, or finds it unservable. *)
CoreSettles(l) ==
  /\ l \in heldConfig.body
  /\ listener[l].state = "pending"
  /\ listener' = [listener EXCEPT ![l] = AdvanceObject(@,
       IF l \in BadListeners
       THEN [At("rejected") EXCEPT !.issueCode = "core_rejected"]
       ELSE At("applied"))]
  /\ UNCHANGED <<pspVars, reply, heldConfig, heldRoster, client, aheadRounds, failures>>

(* The core loses a listener that was in effect. *)
CoreFails(l) ==
  /\ failures < MaxFailures
  /\ listener[l].state = "applied"
  /\ failures' = failures + 1
  /\ listener' = [listener EXCEPT ![l] = AdvanceObject(@, At("retryable_failure"))]
  /\ UNCHANGED <<pspVars, reply, heldConfig, heldRoster, client, aheadRounds>>

Attached(c) == heldRoster.body.attach[c]

Judgement(c) ==
  EvaluateAttachment([rosterMinConfig     |-> heldRoster.body.minConfig,
                      appliedConfig       |-> heldConfig.version,
                      listenerKnown       |-> Attached(c) \in heldConfig.body,
                      listenerState       |-> listener[Attached(c)].state,
                      aheadRounds         |-> aheadRounds,
                      escalateAfterRounds |-> EscalateAfterRounds])

(* The event that moves a client towards the state it was ruled to have;   *)
(* out of "blocked" AdvanceObject lets a ruling other than applied pass    *)
(* only by way of dependency_ready.                                        *)
EventTowards(ruled, c) ==
  IF ruled = "applied" THEN At("applied")
  ELSE IF ruled = "blocked" THEN [At("dependency_blocked") EXCEPT !.blockedOn = Attached(c)]
  ELSE IF client[c].state = "blocked" THEN At("dependency_ready")
  ELSE IF ruled = "pending" THEN At("retryable_failure")
  ELSE [At("rejected") EXCEPT !.issueCode = "attachment_unknown_listener"]

Evaluate(c) ==
  LET ruled == IF Attached(c) = NoName THEN "applied" ELSE Judgement(c).state IN
  /\ client[c].state # "none" /\ ruled # "none"
  /\ client' = [client EXCEPT ![c] = AdvanceObject(@, EventTowards(ruled, c))]
  /\ UNCHANGED <<pspVars, reply, heldConfig, heldRoster, listener, aheadRounds, failures>>

-----------------------------------------------------------------------------
Next ==
  \/ \E listeners \in ConfigBodies, attach \in Attachments : Publish(listeners, attach)
  \/ \E backup \in published, attach \in Attachments : Restore(backup, attach)
  \/ Poll
  \/ LoseReply
  \/ \E isolated \in SUBSET Isolable : Receive(isolated)
  \/ \E l \in ListenerKeys : CoreSettles(l) \/ CoreFails(l)
  \/ \E c \in Clients : Evaluate(c)

(* The agent polls for ever, its reconciliation never stops, and not every *)
(* response is lost.  Nothing makes PSP publish, or the core fail.         *)
Fairness ==
  /\ WF_vars(Poll)
  /\ SF_vars(Receive({}))
  /\ \A l \in ListenerKeys : WF_vars(CoreSettles(l))
  /\ \A c \in Clients : WF_vars(Evaluate(c))

Spec == Init /\ [][Next]_vars /\ Fairness

-----------------------------------------------------------------------------
(* Properties *)

(* The agent's applied version can never lead the one PSP has minted, late *)
(* and lost responses and restores of PSP included: what makes every       *)
(* comparison of the protocol decidable (the comment of Version.Newer).    *)
(* A coordinate the two share stands for the same bytes, and no object is  *)
(* reported at a version its document has not reached: since_version is    *)
(* recorded when a document is offered, and outlives a restore.            *)
Follows(held, doc) ==
  /\ ~Newer(held.version, doc.version)
  /\ held.version = doc.version => held.etag = doc.body

AgentNeverLeads ==
  /\ Follows(heldConfig, config) /\ Follows(heldRoster, roster)
  /\ \A l \in ListenerKeys : ~Newer(listener[l].sinceVersion, config.version)
  /\ \A c \in Clients : ~Newer(client[c].sinceVersion, roster.version)

(* validateStreamState: an ETag and an applied version come together.      *)
ValidStreamState(held) ==
  IF held.etag = NoBody THEN Zero(held.version) ELSE Committed(held.version)

(* Whenever the agent reports, PSP's validators accept what it says it     *)
(* holds and the state of every object, in whatever order documents and    *)
(* rulings reached the object (validateStreamState,                        *)
(* validateReportedObject).                                                *)
ReportIsAccepted ==
  /\ ValidStreamState(heldConfig) /\ ValidStreamState(heldRoster)
  /\ \A l \in heldConfig.body : ValidReportedObject(listener[l])
  /\ \A c \in Clients : client[c].state # "none" => ValidReportedObject(client[c])

(* A blocked client is blocked on the listener its current roster attaches *)
(* it to: no document and no ruling leaves the reason of an earlier        *)
(* attachment behind (acceptVersion, EventDependencyBlocked).              *)
BlockedOnItsListener ==
  \A c \in Clients : client[c].state = "blocked" =>
    client[c].blockedOn = Attached(c) /\ Attached(c) # NoName

(* attachment_unknown_listener is PSP's own defect (protocol/report.go):   *)
(* as PSP only publishes closed pairs, EvaluateAttachment never raises it. *)
NoFalseDefect ==
  \A c \in Clients : Attached(c) # NoName =>
    Judgement(c).disposition \notin {"unknown_listener", "error"}

(* The stream the agent holds for the config implements the abstract one:  *)
(* what it reports as applied was published, bytes and coordinate, and is  *)
(* only ever replaced by something newer or forgotten for a later epoch.   *)
ConfigStream == INSTANCE Stream
  WITH held <- [version |-> heldConfig.version, body |-> heldConfig.etag]

ImplementsStream == ConfigStream!StreamSpec

WaitingForConfig(c) ==
  /\ Attached(c) # NoName
  /\ Judgement(c).disposition = "waiting_for_config"

ClientSettled(c) ==
  client[c].state = CASE roster.body.attach[c] = NoName -> "applied"
                      [] roster.body.attach[c] \in BadListeners -> "blocked"
                      [] OTHER -> "applied"

Settled ==
  /\ heldConfig.etag = config.body
  /\ heldRoster.etag = roster.body
  /\ \A c \in Clients : ClientSettled(c)

(* Once PSP stops publishing, the agent ends up holding both documents,    *)
(* every client whose listener the core serves is in effect and every      *)
(* other one is blocked, never green (EvaluateAttachment, AdvanceObject).  *)
EventuallySettled == <>[]Settled

(* Version skew that does not go away is not silent: a client that keeps   *)
(* waiting for the config ends up with a roster_ahead_of_config issue      *)
(* (EvaluateAttachment's escalation past the tolerated rounds).            *)
SkewIsSurfaced ==
  \A c \in Clients :
    WaitingForConfig(c) ~>
      (~WaitingForConfig(c) \/ Judgement(c).issue = "roster_ahead_of_config")

(* A roster that leads the config is self-healing (protocol/report.go,     *)
(* IssueRosterAheadOfConfig: "SELF-HEALING NORMAL"): the client does not   *)
(* wait for ever.                                                          *)
SkewHeals ==
  \A c \in Clients : WaitingForConfig(c) ~> ~WaitingForConfig(c)
=============================================================================
