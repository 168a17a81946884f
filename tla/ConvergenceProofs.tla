------------------------- MODULE ConvergenceProofs -------------------------
(***************************************************************************)
(* Proofs about Convergence for any number of clients, listeners,          *)
(* publications, restores and failures.                                    *)
(*                                                                         *)
(* The argument: of each of the two streams the agent holds either what    *)
(* PSP has or something older (Behind), and a response is in between       *)
(* (InFlight); both hold of a stream on its own, whatever it carries, and  *)
(* give AgentNeverLeads and the refinement of Stream.  An object is the    *)
(* zero value or reportable (Sound), and a client has been offered every   *)
(* roster the agent holds or will next be given (Offered), which is what   *)
(* lets a new roster reopen a blocked client.  What the agent is given of  *)
(* the two streams was published together (Paired): that an attachment of  *)
(* a roster no config lags behind is known follows, unless a roster may be *)
(* isolated on its own.                                                    *)
(***************************************************************************)
EXTENDS Convergence, TLAPS

-----------------------------------------------------------------------------
(* The inductive invariant. *)

Docs(bodies)  == [version : Versions, body : bodies]
Helds(bodies) == [version : Versions, etag : bodies \cup {NoBody}, body : bodies]

TypeOK ==
  /\ config \in Docs(ConfigBodies) /\ roster \in Docs(RosterBodies)
  /\ published \subseteq Docs(ConfigBodies)
  /\ reply \in Replies \cup {NoBody}
  /\ heldConfig \in Helds(ConfigBodies) /\ heldRoster \in Helds(RosterBodies)
  /\ listener \in [ListenerKeys -> Statuses]
  /\ client \in [Clients -> Statuses]
  /\ aheadRounds \in Nat /\ failures \in Nat

(* What PSP publishes is one pair of documents, the latest of all. *)
Published ==
  /\ Committed(config.version) /\ Committed(roster.version)
  /\ roster.version.epoch = config.version.epoch
  /\ roster.body.minConfig = config.version
  /\ Closed(config.body, roster.body.attach)
  /\ config \in published
  /\ \A d \in published : d = config \/ Newer(config.version, d.version)

(* A held stream is at or behind PSP's document, and says so. *)
Behind(doc, held) ==
  /\ ValidStreamState(held)
  /\ held.etag # NoBody => held.body = held.etag
  /\ ~Newer(held.version, doc.version)
  /\ held.version = doc.version => held.etag = doc.body

(* What a segment says the document is. *)
Content(segment, held) == IF segment.unchanged THEN held.etag ELSE segment.body

InFlight(doc, held, segment) ==
  /\ Committed(segment.version)
  /\ Content(segment, held) # NoBody
  /\ ~Newer(segment.version, doc.version)
  /\ ~Newer(held.version, segment.version)
  /\ segment.version = doc.version => Content(segment, held) = doc.body
  /\ segment.version = held.version => Content(segment, held) = held.etag

Streams ==
  /\ Behind(config, heldConfig) /\ Behind(roster, heldRoster)
  /\ reply # NoBody => /\ InFlight(config, heldConfig, reply.config)
                       /\ InFlight(roster, heldRoster, reply.roster)
                       /\ ~reply.config.unchanged =>
                            [version |-> reply.config.version,
                             body    |-> reply.config.body] \in published

Sound(status) ==
  status = NewStatus \/ (status.state # "none" /\ ValidReportedObject(status))

Objects ==
  /\ \A l \in ListenerKeys : Sound(listener[l])
  /\ \A c \in Clients : Sound(client[c])
  /\ \A l \in heldConfig.body : listener[l].state # "none"
  /\ \A l \in ListenerKeys : ~Newer(listener[l].sinceVersion, config.version)

(* A client was offered the roster held; or that one was forgotten, and    *)
(* what comes next is newer than the last one the client was offered.      *)
Offered(c) ==
  \/ client[c].sinceVersion = heldRoster.version
  \/ /\ heldRoster.version = NoVersion
     /\ Newer(roster.version, client[c].sinceVersion)
     /\ reply # NoBody => Newer(reply.roster.version, client[c].sinceVersion)

IInv ==
  /\ TypeOK /\ Published /\ Streams /\ Objects
  /\ \A c \in Clients : Offered(c)
  /\ BlockedOnItsListener

(* The two documents of the agent belong together unless the config lags.  *)
Paired ==
  /\ ~Newer(heldConfig.version, heldRoster.body.minConfig)
  /\ heldConfig.version = heldRoster.body.minConfig
       => Closed(heldConfig.body, heldRoster.body.attach)
  /\ heldRoster.etag # NoBody => heldRoster.version.epoch = heldRoster.etag.minConfig.epoch
  /\ reply # NoBody =>
       LET served == Content(reply.roster, heldRoster) IN
       /\ served.minConfig = reply.config.version
       /\ served.minConfig.epoch = reply.roster.version.epoch
       /\ Closed(Content(reply.config, heldConfig), served.attach)

-----------------------------------------------------------------------------
(* Coordinates and documents. *)

(* Of two different coordinates exactly one is newer, and being newer is   *)
(* transitive (Version.Newer).                                             *)
LEMMA NewerIsStrictOrder ==
  /\ \A v \in Versions : ~Newer(v, v)
  /\ \A v, w \in Versions : v # w => (Newer(v, w) <=> ~Newer(w, v))
  /\ \A u, v, w \in Versions : Newer(u, v) /\ Newer(v, w) => Newer(u, w)
BY DEF Versions, Newer

(* A committed coordinate is newer than none, and not the zero value.      *)
LEMMA CommittedIsNewer ==
  /\ NoVersion \in Versions /\ Zero(NoVersion) /\ ~Committed(NoVersion)
  /\ \A v \in Versions : Committed(v) => Newer(v, NoVersion) /\ ~Zero(v)
  /\ \A v \in Versions : Zero(v) => v = NoVersion
  /\ \A v \in Versions : ~Newer(NoVersion, v)
BY DEF Versions, Newer, NoVersion, Zero, Committed

(* A document and what the agent holds of it, of either stream.            *)
LEMMA BodiesAreSomething ==
  /\ NoBody \notin ConfigBodies /\ NoBody \notin RosterBodies /\ NoBody \notin Replies
  /\ {} \in ConfigBodies
BY NoBodyAssumption DEF ConfigBodies

(* A poll puts in flight what PSP has now (Segment).                       *)
LEMMA SegmentIsInFlight ==
  ASSUME NEW bodies, NoBody \notin bodies,
         NEW doc \in Docs(bodies), NEW held \in Helds(bodies),
         Committed(doc.version), Behind(doc, held)
  PROVE  /\ Segment(doc, held) \in Segments(bodies)
         /\ Content(Segment(doc, held), held) = doc.body
         /\ Segment(doc, held).version = doc.version
         /\ InFlight(doc, held, Segment(doc, held))
<1>1. doc.version \in Versions /\ doc.body \in bodies /\ held.etag \in bodies \cup {NoBody}
  BY DEF Docs, Helds
<1>2. /\ Segment(doc, held) \in Segments(bodies)
      /\ Segment(doc, held).version = doc.version
      /\ Segment(doc, held).unchanged = (held.etag = doc.body)
      /\ Segment(doc, held).body = IF held.etag = doc.body THEN NoBody ELSE doc.body
  BY <1>1 DEF Segment, Segments
<1>3. Content(Segment(doc, held), held) = doc.body
  BY <1>2 DEF Content
<1> QED BY <1>1, <1>2, <1>3, NewerIsStrictOrder DEF InFlight, Behind

(* A newer document leaves the agent, and what is in flight, behind.       *)
LEMMA NewDocument ==
  ASSUME NEW bodies, NEW doc \in Docs(bodies), NEW newDoc \in Docs(bodies),
         NEW held \in Helds(bodies),
         newDoc = doc \/ Newer(newDoc.version, doc.version)
  PROVE  /\ Behind(doc, held) => Behind(newDoc, held)
         /\ \A segment \in Segments(bodies) :
              InFlight(doc, held, segment) => InFlight(newDoc, held, segment)
<1>1. doc.version \in Versions /\ newDoc.version \in Versions /\ held.version \in Versions
  BY DEF Docs, Helds
<1>2. \A v \in Versions : ~Newer(v, doc.version) =>
        newDoc = doc \/ (~Newer(v, newDoc.version) /\ v # newDoc.version)
  BY <1>1, NewerIsStrictOrder
<1>3. ASSUME NEW segment \in Segments(bodies) PROVE segment.version \in Versions
  BY DEF Segments
<1> QED BY <1>1, <1>2, <1>3 DEF Behind, InFlight

(* What the agent makes of a segment: it forgets, it adopts, or it has the *)
(* document already (Adopt).                                               *)
LEMMA AdoptCases ==
  ASSUME NEW bodies, NoBody \notin bodies,
         NEW doc \in Docs(bodies), NEW held \in Helds(bodies),
         NEW segment \in Segments(bodies),
         Behind(doc, held), InFlight(doc, held, segment),
         NEW new, new = Adopt(held, segment)
  PROVE  /\ new \in Helds(bodies)
         /\ Behind(doc, new)
         /\ \/ /\ segment.unchanged /\ segment.version.epoch > held.version.epoch
               /\ new.version = NoVersion /\ new.etag = NoBody /\ new.body = held.body
            \/ /\ ~segment.unchanged /\ Newer(segment.version, held.version)
               /\ new.version = segment.version
               /\ new.etag = segment.body /\ new.body = segment.body
            \/ /\ new = held /\ held.etag = Content(segment, held)
               /\ held.body = held.etag
<1>1. /\ held.version \in Versions /\ segment.version \in Versions /\ doc.version \in Versions
      /\ held.etag \in bodies \cup {NoBody} /\ held.body \in bodies
      /\ segment.unchanged \in BOOLEAN /\ segment.body \in bodies \cup {NoBody}
  BY DEF Helds, Docs, Segments
<1>2. CASE segment.unchanged /\ segment.version.epoch > held.version.epoch
  <2>1. /\ new \in Helds(bodies) /\ new.version = NoVersion /\ new.etag = NoBody
        /\ new.body = held.body
    BY <1>1, <1>2, CommittedIsNewer DEF Adopt, Helds
  <2>2. Behind(doc, new)
    <3>1. doc.version # NoVersion
      BY <1>1, <1>2, CommittedIsNewer DEF InFlight, Newer, Versions, NoVersion
    <3> QED BY <2>1, <3>1, <1>1, CommittedIsNewer DEF Behind, ValidStreamState
  <2> QED BY <1>2, <2>1, <2>2
<1>3. CASE ~segment.unchanged /\ Newer(segment.version, held.version)
  <2>1. new = [version |-> segment.version, etag |-> segment.body, body |-> segment.body]
    BY <1>3 DEF Adopt
  <2>2. segment.body \in bodies
    BY <1>1, <1>3 DEF InFlight, Content
  <2>3. Behind(doc, new)
    BY <2>1, <2>2, <1>3 DEF Behind, InFlight, ValidStreamState, Content
  <2> QED BY <1>1, <1>3, <2>1, <2>2, <2>3 DEF Helds
<1>4. CASE ~(segment.unchanged /\ segment.version.epoch > held.version.epoch)
           /\ ~(~segment.unchanged /\ Newer(segment.version, held.version))
  <2>1. new = held
    BY <1>4 DEF Adopt
  <2>2. held.etag = Content(segment, held)
    <3>1. CASE segment.unchanged
      BY <3>1 DEF Content
    <3>2. CASE ~segment.unchanged
      <4>1. segment.version = held.version
        BY <3>2, <1>1, <1>4, NewerIsStrictOrder DEF InFlight
      <4> QED BY <4>1 DEF InFlight
    <3> QED BY <3>1, <3>2, <1>1
  <2> QED BY <2>1, <2>2 DEF Behind, InFlight
<1> QED BY <1>2, <1>3, <1>4

-----------------------------------------------------------------------------
(* Objects. *)

(* The zero value of an object holds nothing.                              *)
LEMMA NewIsSound ==
  NewStatus \in Statuses /\ Sound(NewStatus) /\ NewStatus.state = "none"
    /\ NewStatus.sinceVersion = NoVersion
BY DEF Sound, NewStatus, Statuses, ObjectStates, NoVersion, Versions

(* The events of Convergence are events.                                   *)
LEMMA EventsAreTransitions ==
  /\ \A event \in ObjectEvents :
       /\ At(event) \in Transitions /\ At(event).event = event /\ At(event).atMS = 1
       /\ \A v \in Versions :
            LET tr == [At(event) EXCEPT !.version = v] IN
            tr \in Transitions /\ tr.event = event /\ tr.atMS = 1 /\ tr.version = v
       /\ \A code \in IssueCodes :
            LET tr == [At(event) EXCEPT !.issueCode = code] IN
            tr \in Transitions /\ tr.event = event /\ tr.atMS = 1
       /\ \A key \in ListenerKeys \cup {NoName} :
            LET tr == [At(event) EXCEPT !.blockedOn = key] IN
            tr \in Transitions /\ tr.event = event /\ tr.atMS = 1 /\ tr.blockedOn = key
BY CommittedIsNewer DEF At, Transitions

(* AdvanceObject keeps an object reportable, and offers are the only       *)
(* events that touch a version or an object that holds nothing.            *)
LEMMA AdvanceIsSound ==
  ASSUME NEW status \in Statuses, Sound(status),
         NEW tr \in Transitions, tr.atMS = 1,
         NEW next, next = AdvanceObject(status, tr)
  PROVE  /\ next \in Statuses /\ Sound(next)
         /\ status.state # "none" => next.state # "none"
         /\ tr.event # "accepted" =>
              /\ next.sinceVersion = status.sinceVersion
              /\ status.state = "none" => next = status
              /\ next.state = "blocked" =>
                   \/ next.blockedOn = status.blockedOn /\ status.state = "blocked"
                   \/ tr.event = "dependency_blocked" /\ next.blockedOn = tr.blockedOn
         /\ tr.event = "accepted" => next = status \/ next = Reopened(status, tr)
<1> USE DEF Sound, ValidReportedObject, Statuses, ObjectStates, Transitions, NewStatus
<1>s. /\ status.sinceVersion \in Versions /\ status.firstFailedAtMS \in Int
      /\ status.issueCode \in IssueCodes \cup {NoName}
      /\ status.blockedOn \in ListenerKeys \cup {NoName}
      /\ status.state \in ObjectStates
      /\ tr.version \in Versions
      /\ tr.issueCode \in IssueCodes \cup {NoName}
      /\ tr.blockedOn \in ListenerKeys \cup {NoName}
  OBVIOUS
<1>f. /\ FirstNonZero(status.firstFailedAtMS, tr.atMS) \in Int
      /\ status.state # "none" => FirstNonZero(status.firstFailedAtMS, tr.atMS) > 0
  BY <1>s DEF FirstNonZero
<1>0. CASE ~Permitted(status, tr)
  BY <1>0 DEF AdvanceObject
<1>1. CASE Permitted(status, tr) /\ tr.event = "accepted"
  <2>1. next = AcceptVersion(status, tr) /\ AcceptPermitted(status, tr)
    BY <1>1 DEF AdvanceObject, Advanced, Permitted
  <2>2. CASE Redelivered(status, tr)
    BY <1>1, <2>1, <2>2 DEF AcceptVersion
  <2>3. CASE ~Redelivered(status, tr)
    <3>1. next = Reopened(status, tr) /\ Committed(tr.version)
      BY <2>1, <2>3 DEF AcceptVersion, AcceptPermitted
    <3> QED BY <1>1, <3>1, <1>s, NamesAssumption DEF Reopened
  <2> QED BY <2>2, <2>3
<1>2. CASE Permitted(status, tr) /\ tr.event = "applied"
  <2>1. next = Applied(status, tr) /\ ApplyPermitted(status)
    BY <1>2 DEF AdvanceObject, Advanced, Permitted
  <2>2. next = [state |-> "applied", sinceVersion |-> status.sinceVersion,
                firstFailedAtMS |-> 0, issueCode |-> NoName, blockedOn |-> NoName]
    BY <2>1 DEF Applied
  <2>3. status.state # "none"
    BY <2>1 DEF ApplyPermitted
  <2> QED BY <1>2, <1>s, <2>2, <2>3
<1>3. CASE Permitted(status, tr) /\ tr.event = "retryable_failure"
  <2>1. next = RetryableFailure(status, tr) /\ RetryPermitted(status)
    BY <1>3 DEF AdvanceObject, Advanced, Permitted
  <2>2. next = [state |-> "pending", sinceVersion |-> status.sinceVersion,
                firstFailedAtMS |-> FirstNonZero(status.firstFailedAtMS, tr.atMS),
                issueCode |-> status.issueCode, blockedOn |-> NoName]
    BY <2>1 DEF RetryableFailure
  <2>3. status.state \notin {"none", "rejected"}
    BY <2>1 DEF RetryPermitted
  <2> QED BY <1>3, <1>s, <1>f, <2>2, <2>3
<1>4. CASE Permitted(status, tr) /\ tr.event = "rejected"
  <2>1. next = Rejected(status, tr) /\ RejectPermitted(status, tr)
    BY <1>4 DEF AdvanceObject, Advanced, Permitted
  <2>2. next = [state |-> "rejected", sinceVersion |-> status.sinceVersion,
                firstFailedAtMS |-> FirstNonZero(status.firstFailedAtMS, tr.atMS),
                issueCode |-> tr.issueCode, blockedOn |-> NoName]
    BY <2>1 DEF Rejected
  <2>3. status.state # "none" /\ tr.issueCode # NoName
    BY <2>1 DEF RejectPermitted
  <2> QED BY <1>4, <1>s, <1>f, <2>2, <2>3
<1>5. CASE Permitted(status, tr) /\ tr.event = "dependency_blocked"
  <2>1. next = DependencyBlocked(status, tr) /\ BlockPermitted(status, tr)
    BY <1>5 DEF AdvanceObject, Advanced, Permitted
  <2>2. next = [state |-> "blocked", sinceVersion |-> status.sinceVersion,
                firstFailedAtMS |-> FirstNonZero(status.firstFailedAtMS, tr.atMS),
                issueCode |-> NoName, blockedOn |-> tr.blockedOn]
    BY <2>1 DEF DependencyBlocked
  <2>3. status.state # "none" /\ tr.blockedOn # NoName
    BY <2>1 DEF BlockPermitted
  <2> QED BY <1>5, <1>s, <1>f, <2>2, <2>3
<1>6. CASE Permitted(status, tr) /\ tr.event = "dependency_ready"
  <2>1. next = DependencyReady(status, tr) /\ status.state = "blocked"
    BY <1>6 DEF AdvanceObject, Advanced, Permitted
  <2>2. next = [state |-> "pending", sinceVersion |-> status.sinceVersion,
                firstFailedAtMS |-> status.firstFailedAtMS,
                issueCode |-> status.issueCode, blockedOn |-> NoName]
    BY <2>1 DEF DependencyReady
  <2> QED BY <1>6, <1>s, <2>1, <2>2
<1> QED BY <1>0, <1>1, <1>2, <1>3, <1>4, <1>5, <1>6 DEF Permitted

(* An object that is offered a newer version starts over with it; to any   *)
(* other offer it stays what it is (acceptVersion).                        *)
LEMMA OfferCases ==
  ASSUME NEW status \in Statuses, Sound(status), NEW version \in Versions,
         NEW next, next = Offer(status, version)
  PROVE  /\ next \in Statuses /\ Sound(next)
         /\ status.state # "none" => next.state # "none"
         /\ Committed(version) /\ Newer(version, status.sinceVersion) =>
              next.sinceVersion = version /\ next.state = "pending"
         /\ version = NoVersion \/ version = status.sinceVersion => next = status
         /\ Committed(version) => next.state # "none"
         /\ next.sinceVersion \in {status.sinceVersion, version}
<1> DEFINE tr == [At("accepted") EXCEPT !.version = version]
<1>1. tr \in Transitions /\ tr.event = "accepted" /\ tr.atMS = 1 /\ tr.version = version
  BY EventsAreTransitions DEF ObjectEvents
<1>2. next = AdvanceObject(status, tr)
  BY DEF Offer
<1> HIDE DEF tr
<1>3. /\ next \in Statuses /\ Sound(next)
      /\ status.state # "none" => next.state # "none"
  BY <1>1, <1>2, AdvanceIsSound
<1>4. next = IF AcceptPermitted(status, tr) THEN AcceptVersion(status, tr) ELSE status
  BY <1>1, <1>2 DEF AdvanceObject, Permitted, Advanced
<1>5. status.sinceVersion \in Versions
  BY DEF Statuses
<1>6. ASSUME Committed(version), Newer(version, status.sinceVersion)
      PROVE  next.sinceVersion = version /\ next.state = "pending"
  <2>1. version # status.sinceVersion
    BY <1>5, <1>6, NewerIsStrictOrder
  <2>2. next = Reopened(status, tr)
    BY <1>1, <1>4, <1>6, <2>1 DEF AcceptPermitted, AcceptVersion, Redelivered
  <2> QED BY <1>1, <2>2 DEF Reopened
<1>7. ASSUME version = NoVersion \/ version = status.sinceVersion PROVE next = status
  BY <1>1, <1>4, <1>7, CommittedIsNewer DEF AcceptPermitted, AcceptVersion, Redelivered
<1>8. ASSUME Committed(version) PROVE next.state # "none"
  <2>1. CASE status = NewStatus
    BY <1>5, <1>6, <1>8, <2>1, CommittedIsNewer, NewIsSound
  <2>2. CASE status # NewStatus
    BY <1>3, <2>2 DEF Sound
  <2> QED BY <2>1, <2>2
<1>9. next.sinceVersion \in {status.sinceVersion, version}
  <2>1. next = status \/ next = Reopened(status, tr)
    BY <1>1, <1>2, AdvanceIsSound
  <2> QED BY <1>1, <2>1 DEF Reopened
<1> QED BY <1>3, <1>6, <1>7, <1>8, <1>9

-----------------------------------------------------------------------------
(* The invariant, action by action. *)

(* The bodies of the two documents are of their kind.                      *)
LEMMA AttachmentsHaveTypes ==
  /\ Unattached \in Attachments
  /\ [minConfig |-> NoVersion, attach |-> Unattached] \in RosterBodies
  /\ \A v \in Versions, a \in Attachments : [minConfig |-> v, attach |-> a] \in RosterBodies
BY CommittedIsNewer DEF Unattached, Attachments, RosterBodies

(* An agent that holds nothing is behind every PSP.                        *)
LEMMA InitIInv == Init => IInv
<1> SUFFICES ASSUME Init PROVE IInv
  OBVIOUS
<1> USE DEF Init
<1>1. PICK listeners \in ConfigBodies, attach \in Attachments :
        /\ Closed(listeners, attach)
        /\ config = Rebuilt(listeners, 1)
        /\ roster = Rebuilt([minConfig |-> config.version, attach |-> attach], 1)
  OBVIOUS
<1>2. /\ config \in Docs(ConfigBodies) /\ roster \in Docs(RosterBodies)
      /\ config.body = listeners /\ roster.body.minConfig = config.version
      /\ roster.body.attach = attach
      /\ config.version = [epoch |-> 1, version |-> 1]
      /\ roster.version = [epoch |-> 1, version |-> 1]
      /\ Committed(config.version)
  BY <1>1, AttachmentsHaveTypes DEF Rebuilt, Docs, Versions, Committed
<1>3. TypeOK
  BY <1>2, NewIsSound, CommittedIsNewer, AttachmentsHaveTypes, BodiesAreSomething
     DEF TypeOK, Helds
<1>4. Published
  BY <1>1, <1>2 DEF Published
<1>5. /\ Behind(config, heldConfig) /\ Behind(roster, heldRoster)
  BY <1>2, CommittedIsNewer DEF Behind, ValidStreamState, Docs
<1>6. Streams
  BY <1>5 DEF Streams
<1>7. Objects /\ BlockedOnItsListener /\ \A c \in Clients : Offered(c)
  BY <1>2, NewIsSound, CommittedIsNewer DEF Objects, Offered, BlockedOnItsListener, Docs
<1> QED BY <1>3, <1>4, <1>6, <1>7 DEF IInv

(* What PSP does: it replaces its pair of documents by a closed pair in    *)
(* which one that changes is newer.                                        *)
Renewed(doc, newDoc) ==
  /\ Committed(newDoc.version)
  /\ newDoc = doc \/ Newer(newDoc.version, doc.version)

Republished ==
  /\ config' \in Docs(ConfigBodies) /\ roster' \in Docs(RosterBodies)
  /\ Renewed(config, config') /\ Renewed(roster, roster')
  /\ roster'.version.epoch = config'.version.epoch
  /\ roster'.body.minConfig = config'.version
  /\ Closed(config'.body, roster'.body.attach)
  /\ published' = published \cup {config'}
  /\ UNCHANGED <<reply, agentVars>> /\ failures' = failures

(* Minting raises the version if the content differs, and keeps the epoch. *)
LEMMA MintRenews ==
  ASSUME NEW bodies, NEW doc \in Docs(bodies), NEW body \in bodies,
         Committed(doc.version)
  PROVE  /\ Mint(doc, body) \in Docs(bodies)
         /\ Renewed(doc, Mint(doc, body))
         /\ Mint(doc, body).body = body
         /\ Mint(doc, body).version.epoch = doc.version.epoch
BY DEF Mint, Renewed, Docs, Versions, Newer, Committed

(* Publishing moves both documents forward, or leaves what has not         *)
(* changed.                                                                *)
LEMMA PublishRepublishes ==
  ASSUME IInv, NEW listeners \in ConfigBodies, NEW attach \in Attachments,
         Publish(listeners, attach)
  PROVE  Republished
<1> DEFINE newConfig == Mint(config, listeners)
           newRoster == Mint(roster, [minConfig |-> newConfig.version, attach |-> attach])
<1>1. /\ Closed(listeners, attach) /\ config' = newConfig /\ roster' = newRoster
      /\ published' = published \cup {newConfig} /\ UNCHANGED <<reply, agentVars, failures>>
  BY DEF Publish
<1>2. /\ config \in Docs(ConfigBodies) /\ roster \in Docs(RosterBodies)
      /\ Committed(config.version) /\ Committed(roster.version)
  BY DEF IInv, TypeOK, Published
<1>3. /\ newConfig \in Docs(ConfigBodies) /\ Renewed(config, newConfig)
      /\ newConfig.body = listeners /\ newConfig.version.epoch = config.version.epoch
  BY <1>2, MintRenews
<1>4. [minConfig |-> newConfig.version, attach |-> attach] \in RosterBodies
  BY <1>3, AttachmentsHaveTypes DEF Docs
<1> HIDE DEF newConfig
<1>5. /\ newRoster \in Docs(RosterBodies) /\ Renewed(roster, newRoster)
      /\ newRoster.body = [minConfig |-> newConfig.version, attach |-> attach]
      /\ newRoster.version.epoch = roster.version.epoch
  BY <1>2, <1>4, MintRenews
<1> HIDE DEF newRoster
<1> QED BY <1>1, <1>3, <1>5 DEF Republished, IInv, Published

(* A restore does so in a later epoch.                                     *)
LEMMA RestoreRepublishes ==
  ASSUME IInv, NEW backup \in published, NEW attach \in Attachments,
         Restore(backup, attach)
  PROVE  Republished
<1> DEFINE epoch == config.version.epoch + 1
<1>1. /\ Closed(backup.body, attach)
      /\ config' = Rebuilt(backup.body, epoch)
      /\ roster' = Rebuilt([minConfig |-> config'.version, attach |-> attach], epoch)
      /\ published' = published \cup {config'} /\ UNCHANGED <<reply, agentVars, failures>>
  BY DEF Restore
<1>2. /\ backup.body \in ConfigBodies /\ config.version \in Versions
      /\ roster.version \in Versions /\ roster.version.epoch = config.version.epoch
      /\ config.version.epoch \in Nat
  BY DEF IInv, TypeOK, Published, Docs, Versions
<1>3. [epoch |-> epoch, version |-> 1] \in Versions
  BY <1>2 DEF Versions
<1>4. /\ config' = [version |-> [epoch |-> epoch, version |-> 1], body |-> backup.body]
      /\ roster' = [version |-> [epoch |-> epoch, version |-> 1],
                    body |-> [minConfig |-> config'.version, attach |-> attach]]
  BY <1>1 DEF Rebuilt
<1>5. config' \in Docs(ConfigBodies) /\ roster' \in Docs(RosterBodies)
  BY <1>2, <1>3, <1>4, AttachmentsHaveTypes DEF Docs
<1>6. /\ Newer(config'.version, config.version) /\ Newer(roster'.version, roster.version)
      /\ Committed(config'.version) /\ Committed(roster'.version)
  BY <1>2, <1>4 DEF Newer, Committed
<1>7. Renewed(config, config') /\ Renewed(roster, roster')
  BY <1>6 DEF Renewed
<1>8. /\ roster'.version.epoch = config'.version.epoch
      /\ roster'.body.minConfig = config'.version
      /\ config'.body = backup.body /\ roster'.body.attach = attach
  BY <1>4
<1> HIDE DEF epoch
<1> QED BY <1>1, <1>5, <1>7, <1>8 DEF Republished

(* A publication leaves the agent, and what is in flight, behind.          *)
LEMMA RepublishedKeepsIInv ==
  ASSUME IInv, Republished
  PROVE  IInv'
<1> USE DEF IInv
<1>1. /\ UNCHANGED <<reply, heldConfig, heldRoster, listener, client, aheadRounds, failures>>
  BY DEF Republished, agentVars
<1>2. TypeOK'
  BY <1>1 DEF Republished, TypeOK
<1>3. /\ config.version \in Versions /\ config'.version \in Versions
      /\ roster.version \in Versions /\ roster'.version \in Versions
      /\ \A d \in published : d.version \in Versions
  BY <1>2 DEF TypeOK, Docs
<1>4. /\ Committed(config'.version) /\ Committed(roster'.version)
  BY DEF Republished, Renewed
<1>5. \A d \in published : d = config' \/ Newer(config'.version, d.version)
  BY <1>3, NewerIsStrictOrder DEF Republished, Renewed, Published
<1>6. Published'
  BY <1>4, <1>5 DEF Republished, Published
<1>7. Streams'
  <2>1. /\ Behind(config', heldConfig) /\ Behind(roster', heldRoster)
    BY NewDocument DEF Republished, Renewed, Streams, TypeOK
  <2>2. reply # NoBody => /\ InFlight(config', heldConfig, reply.config)
                          /\ InFlight(roster', heldRoster, reply.roster)
    <3> SUFFICES ASSUME reply # NoBody
                 PROVE  /\ InFlight(config', heldConfig, reply.config)
                        /\ InFlight(roster', heldRoster, reply.roster)
      OBVIOUS
    <3>1. reply.config \in Segments(ConfigBodies) /\ reply.roster \in Segments(RosterBodies)
      BY DEF TypeOK, Replies
    <3> QED BY <3>1, NewDocument DEF Republished, Renewed, Streams, TypeOK
  <2> QED BY <1>1, <2>1, <2>2 DEF Streams, Republished
<1>8. \A c \in Clients : Offered(c)'
  <2> SUFFICES ASSUME NEW c \in Clients PROVE Offered(c)'
    OBVIOUS
  <2>1. client[c].sinceVersion \in Versions
    BY DEF TypeOK, Statuses
  <2> QED BY <1>1, <1>3, <2>1, NewerIsStrictOrder DEF Offered, Republished, Renewed
<1>9. \A l \in ListenerKeys : ~Newer(listener[l].sinceVersion, config'.version)
  <2> SUFFICES ASSUME NEW l \in ListenerKeys
               PROVE  ~Newer(listener[l].sinceVersion, config'.version)
    OBVIOUS
  <2>1. listener[l].sinceVersion \in Versions
    BY DEF TypeOK, Statuses
  <2>2. ~Newer(listener[l].sinceVersion, config.version)
    BY DEF Objects
  <2> QED BY <1>3, <2>1, <2>2, NewerIsStrictOrder DEF Republished, Renewed
<1>10. Objects' /\ BlockedOnItsListener'
  BY <1>1, <1>9 DEF Objects, BlockedOnItsListener, Attached
<1> QED BY <1>2, <1>6, <1>7, <1>8, <1>10

(* PSP answers with what it has now.                                       *)
LEMMA PollKeepsIInv ==
  ASSUME IInv, Poll
  PROVE  IInv'
<1> USE DEF IInv
<1>1. /\ UNCHANGED <<config, roster, published, heldConfig, heldRoster, listener, client,
                     aheadRounds, failures>>
      /\ reply' = [config |-> Segment(config, heldConfig),
                   roster |-> Segment(roster, heldRoster)]
  BY DEF Poll, pspVars, agentVars
<1>2. /\ Segment(config, heldConfig) \in Segments(ConfigBodies)
      /\ Content(Segment(config, heldConfig), heldConfig) = config.body
      /\ Segment(config, heldConfig).version = config.version
      /\ InFlight(config, heldConfig, Segment(config, heldConfig))
  BY SegmentIsInFlight, BodiesAreSomething DEF TypeOK, Streams, Published
<1>3. /\ Segment(roster, heldRoster) \in Segments(RosterBodies)
      /\ Segment(roster, heldRoster).version = roster.version
      /\ InFlight(roster, heldRoster, Segment(roster, heldRoster))
  BY SegmentIsInFlight, BodiesAreSomething DEF TypeOK, Streams, Published
<1>4. TypeOK'
  BY <1>1, <1>2, <1>3 DEF TypeOK, Replies
<1>5. ~Segment(config, heldConfig).unchanged =>
        [version |-> config.version, body |-> Segment(config, heldConfig).body] \in published
  <2>1. config = [version |-> config.version, body |-> config.body]
    BY DEF TypeOK, Docs
  <2> QED BY <1>2, <2>1 DEF Published, Content
<1>6. Streams'
  BY <1>1, <1>2, <1>3, <1>5 DEF Streams
<1>7. Published' /\ Objects' /\ BlockedOnItsListener'
  BY <1>1 DEF Published, Objects, BlockedOnItsListener, Attached
<1>8. \A c \in Clients : Offered(c)'
  BY <1>1, <1>3 DEF Offered
<1> QED BY <1>4, <1>6, <1>7, <1>8

(* A lost answer changes nothing the agent holds.                          *)
LEMMA LoseReplyKeepsIInv ==
  ASSUME IInv, LoseReply
  PROVE  IInv'
BY DEF IInv, LoseReply, pspVars, agentVars, TypeOK, Published, Streams, Objects, Offered,
       BlockedOnItsListener, Attached

(* What the agent holds of one stream once a response has been processed,  *)
(* the segment isolated or not.                                            *)
LEMMA HeldAfterReceipt ==
  ASSUME NEW bodies, NoBody \notin bodies,
         NEW doc \in Docs(bodies), NEW held \in Helds(bodies),
         NEW segment \in Segments(bodies),
         Behind(doc, held), InFlight(doc, held, segment),
         NEW new, new = held \/ new = Adopt(held, segment)
  PROVE  /\ new \in Helds(bodies) /\ Behind(doc, new)
         /\ \/ new.body = held.body /\ new.version \in {held.version, NoVersion}
            \/ Committed(new.version)
BY AdoptCases DEF InFlight

(* The agent adopts what was in flight, which PSP had.                     *)
LEMMA ReceiveKeepsIInv ==
  ASSUME IInv, NEW isolated, Receive(isolated)
  PROVE  IInv'
<1> USE DEF IInv
<1> DEFINE newConfig == IF "config" \in isolated THEN heldConfig
                        ELSE Adopt(heldConfig, reply.config)
           newRoster == IF "roster" \in isolated THEN heldRoster
                        ELSE Adopt(heldRoster, reply.roster)
<1>1. /\ reply # NoBody /\ reply' = NoBody
      /\ heldConfig' = newConfig /\ heldRoster' = newRoster
      /\ listener' = [l \in ListenerKeys |->
                        IF l \in newConfig.body
                        THEN Offer(listener[l], newConfig.version) ELSE NewStatus]
      /\ client' = [c \in Clients |-> Offer(client[c], newRoster.version)]
      /\ aheadRounds' = IF Newer(newRoster.body.minConfig, newConfig.version)
                        THEN IF aheadRounds > EscalateAfterRounds
                             THEN aheadRounds ELSE aheadRounds + 1
                        ELSE 0
      /\ UNCHANGED <<config, roster, published, failures>>
  BY DEF Receive, pspVars
<1>2. /\ config \in Docs(ConfigBodies) /\ roster \in Docs(RosterBodies)
      /\ heldConfig \in Helds(ConfigBodies) /\ heldRoster \in Helds(RosterBodies)
      /\ reply.config \in Segments(ConfigBodies) /\ reply.roster \in Segments(RosterBodies)
  BY <1>1 DEF TypeOK, Replies
<1>3. /\ Behind(config, heldConfig) /\ Behind(roster, heldRoster)
      /\ InFlight(config, heldConfig, reply.config)
      /\ InFlight(roster, heldRoster, reply.roster)
  BY <1>1 DEF Streams
<1>4. /\ newConfig = heldConfig \/ newConfig = Adopt(heldConfig, reply.config)
      /\ newRoster = heldRoster \/ newRoster = Adopt(heldRoster, reply.roster)
  OBVIOUS
<1> HIDE DEF newConfig, newRoster
<1>5. /\ newConfig \in Helds(ConfigBodies) /\ Behind(config, newConfig)
      /\ \/ newConfig.body = heldConfig.body
         \/ Committed(newConfig.version)
  BY <1>2, <1>3, <1>4, HeldAfterReceipt, BodiesAreSomething
<1>6. newRoster \in Helds(RosterBodies) /\ Behind(roster, newRoster)
  BY <1>2, <1>3, <1>4, HeldAfterReceipt, BodiesAreSomething
<1>7. /\ newConfig.version \in Versions /\ newRoster.version \in Versions
      /\ heldRoster.version \in Versions /\ newConfig.body \subseteq ListenerKeys
  BY <1>2, <1>5, <1>6 DEF Helds, ConfigBodies
<1>8. Published' /\ Streams'
  BY <1>1, <1>5, <1>6 DEF Published, Streams
<1>9. ASSUME NEW l \in ListenerKeys
      PROVE  /\ listener'[l] \in Statuses /\ Sound(listener'[l])
             /\ l \in newConfig.body => listener'[l].state # "none"
             /\ ~Newer(listener'[l].sinceVersion, config.version)
  <2>1. /\ listener[l] \in Statuses /\ Sound(listener[l])
        /\ ~Newer(listener[l].sinceVersion, config.version)
    BY DEF TypeOK, Objects
  <2>2. CASE l \in newConfig.body
    <3>1. listener'[l] = Offer(listener[l], newConfig.version)
      BY <1>1, <2>2
    <3>2. Committed(newConfig.version) \/ listener[l].state # "none"
      BY <1>5, <2>2 DEF Objects
    <3>3. /\ listener'[l] \in Statuses /\ Sound(listener'[l])
          /\ listener'[l].state # "none"
      BY <1>7, <2>1, <3>1, <3>2, OfferCases
    <3>4. listener'[l].sinceVersion \in {listener[l].sinceVersion, newConfig.version}
      BY <1>7, <2>1, <3>1, OfferCases
    <3>5. ~Newer(newConfig.version, config.version)
      BY <1>5 DEF Behind
    <3> QED BY <2>1, <3>3, <3>4, <3>5
  <2>3. CASE l \notin newConfig.body
    <3>1. listener'[l] = NewStatus
      BY <1>1, <2>3
    <3>2. config.version \in Versions
      BY <1>2 DEF Docs
    <3> QED BY <2>3, <3>1, <3>2, NewIsSound, CommittedIsNewer
  <2> QED BY <2>2, <2>3
<1>10. ASSUME NEW c \in Clients
       PROVE  /\ client[c] \in Statuses /\ Sound(client[c])
              /\ client[c].sinceVersion \in Versions
              /\ client'[c] = Offer(client[c], newRoster.version)
              /\ client'[c] \in Statuses /\ Sound(client'[c])
              /\ Committed(newRoster.version)
                   /\ Newer(newRoster.version, client[c].sinceVersion) =>
                     /\ client'[c].sinceVersion = newRoster.version
                     /\ client'[c].state = "pending"
              /\ newRoster.version \in {NoVersion, client[c].sinceVersion} =>
                   client'[c] = client[c]
  <2>1. client[c] \in Statuses /\ Sound(client[c])
    BY DEF TypeOK, Objects
  <2> QED BY <1>1, <1>7, <2>1, OfferCases DEF Statuses
<1>11. Objects'
  BY <1>1, <1>7, <1>9, <1>10 DEF Objects
<1>12. aheadRounds' \in Nat
  BY <1>1, RoundsAssumption DEF TypeOK
<1>13. TypeOK'
  BY <1>1, <1>5, <1>6, <1>9, <1>10, <1>12 DEF TypeOK
<1>14. ASSUME NEW c \in Clients
       PROVE  Offered(c)' /\ (client'[c].state = "blocked" =>
                /\ client'[c] = client[c] /\ newRoster.body = heldRoster.body)
  <2>1. \/ client[c].sinceVersion = heldRoster.version
        \/ /\ heldRoster.version = NoVersion
           /\ Newer(roster.version, client[c].sinceVersion)
           /\ Newer(reply.roster.version, client[c].sinceVersion)
    BY <1>1 DEF Offered
  <2>2. roster.version \in Versions /\ reply.roster.version \in Versions
    BY <1>2 DEF Docs, Segments
  <2>3. CASE /\ reply.roster.version.epoch > heldRoster.version.epoch
             /\ newRoster.version = NoVersion /\ newRoster.body = heldRoster.body
    <3>1. client'[c] = client[c]
      BY <1>10, <2>3
    <3>2. Newer(reply.roster.version, client[c].sinceVersion)
      BY <2>1, <2>3 DEF Newer
    <3>3. Newer(roster.version, client[c].sinceVersion)
      BY <1>3, <1>10, <2>2, <3>2, NewerIsStrictOrder DEF InFlight
    <3> QED BY <1>1, <2>3, <3>1, <3>3 DEF Offered
  <2>4. CASE /\ Newer(reply.roster.version, heldRoster.version)
             /\ newRoster.version = reply.roster.version
    <3>1. Newer(reply.roster.version, client[c].sinceVersion)
      BY <2>1, <2>4
    <3>2. Committed(reply.roster.version)
      BY <1>3 DEF InFlight
    <3>3. Newer(newRoster.version, client[c].sinceVersion) /\ Committed(newRoster.version)
      BY <2>4, <3>1, <3>2
    <3>4. client'[c].sinceVersion = newRoster.version /\ client'[c].state = "pending"
      BY <1>10, <3>3
    <3> QED BY <1>1, <3>4 DEF Offered
  <2>5. CASE newRoster = heldRoster
    <3>1. client'[c] = client[c]
      BY <1>7, <1>10, <2>1, <2>5
    <3> QED BY <1>1, <2>1, <2>5, <3>1 DEF Offered
  <2> QED BY <1>2, <1>3, <1>4, <2>3, <2>4, <2>5, AdoptCases, BodiesAreSomething
<1>15. BlockedOnItsListener'
  <2> SUFFICES ASSUME NEW c \in Clients, client'[c].state = "blocked"
               PROVE  /\ client'[c].blockedOn = newRoster.body.attach[c]
                      /\ newRoster.body.attach[c] # NoName
    BY <1>1 DEF BlockedOnItsListener, Attached
  <2> QED BY <1>14 DEF BlockedOnItsListener, Attached
<1> QED BY <1>8, <1>11, <1>13, <1>14, <1>15

(* An event other than an offer, to one object.                            *)
LEMMA CoreKeepsIInv ==
  ASSUME IInv, NEW l \in ListenerKeys, CoreSettles(l) \/ CoreFails(l)
  PROVE  IInv'
<1> USE DEF IInv
<1>1. /\ UNCHANGED <<config, roster, published, reply, heldConfig, heldRoster, client,
                     aheadRounds>>
      /\ failures' \in Nat
      /\ \E tr \in Transitions :
           /\ tr.atMS = 1 /\ tr.event # "accepted"
           /\ listener' = [listener EXCEPT ![l] = AdvanceObject(@, tr)]
  <2>1. CASE CoreSettles(l)
    <3> DEFINE tr == IF l \in BadListeners
                     THEN [At("rejected") EXCEPT !.issueCode = "core_rejected"]
                     ELSE At("applied")
    <3>1. tr \in Transitions /\ tr.atMS = 1 /\ tr.event # "accepted"
      BY EventsAreTransitions, CodesAssumption DEF ObjectEvents
    <3>2. listener' = [listener EXCEPT ![l] = AdvanceObject(@, tr)]
      BY <2>1 DEF CoreSettles
    <3> HIDE DEF tr
    <3> QED BY <2>1, <3>1, <3>2 DEF CoreSettles, pspVars, TypeOK
  <2>2. CASE CoreFails(l)
    <3>1. /\ At("retryable_failure") \in Transitions /\ At("retryable_failure").atMS = 1
          /\ At("retryable_failure").event # "accepted"
      BY EventsAreTransitions DEF ObjectEvents
    <3>2. listener' = [listener EXCEPT ![l] = AdvanceObject(@, At("retryable_failure"))]
      BY <2>2 DEF CoreFails
    <3>3. /\ UNCHANGED <<config, roster, published, reply, heldConfig, heldRoster, client,
                         aheadRounds>>
          /\ failures' \in Nat
      BY <2>2 DEF CoreFails, pspVars, TypeOK
    <3> HIDE <2>2
    <3> QED BY <3>1, <3>2, <3>3
  <2> QED BY <2>1, <2>2
<1>2. PICK tr \in Transitions :
        /\ tr.atMS = 1 /\ tr.event # "accepted"
        /\ listener' = [listener EXCEPT ![l] = AdvanceObject(@, tr)]
  BY <1>1
<1>3. /\ listener \in [ListenerKeys -> Statuses]
      /\ listener[l] \in Statuses /\ Sound(listener[l])
  BY DEF TypeOK, Objects
<1>4. listener'[l] = AdvanceObject(listener[l], tr)
  BY <1>2, <1>3
<1>5. /\ listener'[l] \in Statuses /\ Sound(listener'[l])
      /\ listener[l].state # "none" => listener'[l].state # "none"
      /\ listener'[l].sinceVersion = listener[l].sinceVersion
  BY <1>2, <1>3, <1>4, AdvanceIsSound
<1>6. \A k \in ListenerKeys : k # l => listener'[k] = listener[k]
  BY <1>2, <1>3
<1>7. listener' \in [ListenerKeys -> Statuses]
  BY <1>2, <1>3, <1>4, <1>5
<1>8. TypeOK'
  BY <1>1, <1>7 DEF TypeOK
<1>9. Objects'
  <2>1. heldConfig.body \subseteq ListenerKeys
    BY DEF TypeOK, Helds, ConfigBodies
  <2> QED BY <1>1, <1>5, <1>6, <2>1 DEF Objects
<1>10. Published' /\ Streams' /\ BlockedOnItsListener' /\ \A c \in Clients : Offered(c)'
  BY <1>1 DEF Published, Streams, BlockedOnItsListener, Attached, Offered
<1> QED BY <1>8, <1>9, <1>10

(* A ruling becomes an event that is not an offer; the one that blocks the *)
(* client names its listener.                                              *)
LEMMA EventIsRuled ==
  ASSUME TypeOK, NEW c \in Clients, NEW ruled \in ObjectStates,
         ruled = "blocked" => Attached(c) # NoName
  PROVE  /\ EventTowards(ruled, c) \in Transitions
         /\ EventTowards(ruled, c).atMS = 1
         /\ EventTowards(ruled, c).event # "accepted"
         /\ EventTowards(ruled, c).event = "dependency_blocked" =>
              /\ EventTowards(ruled, c).blockedOn = Attached(c)
              /\ Attached(c) # NoName
<1>1. Attached(c) \in ListenerKeys \cup {NoName}
  BY DEF TypeOK, Helds, RosterBodies, Attachments, Attached
<1>2. CASE ruled = "applied"
  BY <1>2, EventsAreTransitions DEF EventTowards, ObjectEvents
<1>3. CASE ruled = "blocked"
  <2>1. EventTowards(ruled, c) = [At("dependency_blocked") EXCEPT !.blockedOn = Attached(c)]
    <3>1. ruled # "applied" /\ ruled = "blocked"
      BY <1>3
    <3> QED BY <3>1, Zenon DEF EventTowards
  <2>2. "dependency_blocked" \in ObjectEvents /\ Attached(c) \in ListenerKeys \cup {NoName}
    BY <1>1 DEF ObjectEvents
  <2> DEFINE tr == [At("dependency_blocked") EXCEPT !.blockedOn = Attached(c)]
  <2>3. /\ tr \in Transitions /\ tr.event = "dependency_blocked" /\ tr.atMS = 1
        /\ tr.blockedOn = Attached(c)
    <3>1. \A key \in ListenerKeys \cup {NoName} :
            LET t == [At("dependency_blocked") EXCEPT !.blockedOn = key] IN
            t \in Transitions /\ t.event = "dependency_blocked" /\ t.atMS = 1 /\ t.blockedOn = key
      BY <2>2, EventsAreTransitions
    <3> QED BY <2>2, <3>1
  <2> QED BY <1>3, <2>1, <2>3
<1>4. CASE ruled \notin {"applied", "blocked"} /\ client[c].state = "blocked"
  <2>1. EventTowards(ruled, c) = At("dependency_ready")
    BY <1>4 DEF EventTowards
  <2> QED BY <2>1, EventsAreTransitions DEF ObjectEvents
<1>5. CASE ruled = "pending" /\ client[c].state # "blocked"
  <2>1. EventTowards(ruled, c) = At("retryable_failure")
    BY <1>5 DEF EventTowards
  <2> QED BY <2>1, EventsAreTransitions DEF ObjectEvents
<1>6. CASE ruled \notin {"applied", "blocked", "pending"} /\ client[c].state # "blocked"
  <2>1. EventTowards(ruled, c) =
          [At("rejected") EXCEPT !.issueCode = "attachment_unknown_listener"]
    BY <1>6 DEF EventTowards
  <2> QED BY <2>1, EventsAreTransitions, CodesAssumption DEF ObjectEvents
<1> QED BY <1>2, <1>3, <1>4, <1>5, <1>6

(* What a client may be ruled to be.                                       *)
LEMMA RulingIsState ==
  ASSUME NEW c \in Clients
  PROVE  Judgement(c).state \in ObjectStates
<1> DEFINE in == [rosterMinConfig     |-> heldRoster.body.minConfig,
                  appliedConfig       |-> heldConfig.version,
                  listenerKnown       |-> Attached(c) \in heldConfig.body,
                  listenerState       |-> listener[Attached(c)].state,
                  aheadRounds         |-> aheadRounds,
                  escalateAfterRounds |-> EscalateAfterRounds]
           ruling == IF in.aheadRounds < 0 \/ in.escalateAfterRounds < 0
                     THEN "error" ELSE Ruling(in)
<1>1. Judgement(c).state = StateFor[ruling]
  BY DEF Judgement, EvaluateAttachment
<1>2. Ruling(in) \in Dispositions
  <2> HIDE DEF in
  <2> QED BY DEF Ruling, Dispositions
<1> HIDE DEF in
<1>3. ruling \in Dispositions
  BY <1>2 DEF Dispositions
<1> HIDE DEF ruling
<1> QED BY <1>1, <1>3 DEF Dispositions, StateFor, ObjectStates

(* The status of one client follows the ruling of its attachment.          *)
LEMMA EvaluateKeepsIInv ==
  ASSUME IInv, NEW c \in Clients, Evaluate(c)
  PROVE  IInv'
<1> USE DEF IInv
<1> DEFINE ruled == IF Attached(c) = NoName THEN "applied" ELSE Judgement(c).state
           tr    == EventTowards(ruled, c)
<1>1. /\ UNCHANGED <<config, roster, published, reply, heldConfig, heldRoster, listener,
                     aheadRounds, failures>>
      /\ client' = [client EXCEPT ![c] = AdvanceObject(@, tr)]
  BY DEF Evaluate, pspVars
<1>2. ruled \in ObjectStates /\ (ruled = "blocked" => Attached(c) # NoName)
  <2>1. "applied" \in ObjectStates /\ "applied" # "blocked"
    BY DEF ObjectStates
  <2> QED BY <2>1, RulingIsState
<1> HIDE DEF ruled
<1>3. /\ tr \in Transitions /\ tr.atMS = 1 /\ tr.event # "accepted"
      /\ tr.event = "dependency_blocked" =>
           tr.blockedOn = Attached(c) /\ Attached(c) # NoName
  BY <1>2, EventIsRuled
<1> HIDE DEF tr
<1>4. /\ client \in [Clients -> Statuses]
      /\ client[c] \in Statuses /\ Sound(client[c])
  BY DEF TypeOK, Objects
<1>5. /\ client'[c] = AdvanceObject(client[c], tr)
      /\ \A d \in Clients : d # c => client'[d] = client[d]
  BY <1>1, <1>4
<1>6. /\ client'[c] \in Statuses /\ Sound(client'[c])
      /\ client'[c].sinceVersion = client[c].sinceVersion
      /\ client'[c].state = "blocked" =>
           \/ client'[c].blockedOn = client[c].blockedOn /\ client[c].state = "blocked"
           \/ tr.event = "dependency_blocked" /\ client'[c].blockedOn = tr.blockedOn
  BY <1>3, <1>4, <1>5, AdvanceIsSound
<1>7. client' \in [Clients -> Statuses]
  BY <1>1, <1>4, <1>5, <1>6
<1>8. TypeOK'
  BY <1>1, <1>7 DEF TypeOK
<1>9. Published' /\ Streams'
  BY <1>1 DEF Published, Streams
<1>10. Objects'
  BY <1>1, <1>5, <1>6 DEF Objects
<1>11. \A d \in Clients : Offered(d)'
  BY <1>1, <1>5, <1>6 DEF Offered
<1>12. BlockedOnItsListener'
  <2> SUFFICES ASSUME NEW d \in Clients, client'[d].state = "blocked"
               PROVE  client'[d].blockedOn = Attached(d) /\ Attached(d) # NoName
    BY <1>1 DEF BlockedOnItsListener, Attached
  <2>1. CASE d = c
    BY <1>3, <1>6, <2>1 DEF BlockedOnItsListener
  <2>2. CASE d # c
    BY <1>5, <2>2 DEF BlockedOnItsListener
  <2> QED BY <2>1, <2>2
<1> QED BY <1>8, <1>9, <1>10, <1>11, <1>12

(* Every step preserves the invariant.                                     *)
LEMMA NextIInv == IInv /\ [Next]_vars => IInv'
<1> SUFFICES ASSUME IInv, [Next]_vars PROVE IInv'
  OBVIOUS
<1>1. CASE \E listeners \in ConfigBodies, attach \in Attachments : Publish(listeners, attach)
  BY <1>1, PublishRepublishes, RepublishedKeepsIInv
<1>2. CASE \E backup \in published, attach \in Attachments : Restore(backup, attach)
  BY <1>2, RestoreRepublishes, RepublishedKeepsIInv
<1>3. CASE Poll
  BY <1>3, PollKeepsIInv
<1>4. CASE LoseReply
  BY <1>4, LoseReplyKeepsIInv
<1>5. CASE \E isolated \in SUBSET Isolable : Receive(isolated)
  BY <1>5, ReceiveKeepsIInv
<1>6. CASE \E l \in ListenerKeys : CoreSettles(l) \/ CoreFails(l)
  BY <1>6, CoreKeepsIInv
<1>7. CASE \E c \in Clients : Evaluate(c)
  BY <1>7, EvaluateKeepsIInv
<1>8. CASE UNCHANGED vars
  BY <1>8 DEF vars, pspVars, agentVars, IInv, TypeOK, Published, Streams, Objects, Offered,
              BlockedOnItsListener, Attached
<1> QED BY <1>1, <1>2, <1>3, <1>4, <1>5, <1>6, <1>7, <1>8 DEF Next

-----------------------------------------------------------------------------
(* Theorems *)

(* The invariant of the exchange: streams, objects and rulings.            *)
THEOREM Invariance == Spec => []IInv
<1>1. Init => IInv BY InitIInv
<1>2. IInv /\ [Next]_vars => IInv' BY NextIInv
<1> QED BY <1>1, <1>2, PTL DEF Spec

(* However many publications, restores, lost and late responses there are, *)
(* no coordinate the agent holds, or has recorded for an object, is one    *)
(* PSP has yet to mint, and one they share stands for the same bytes       *)
(* (Version.Newer).                                                        *)
THEOREM NeverLeads == Spec => []AgentNeverLeads
<1>1. ASSUME IInv PROVE AgentNeverLeads
  <2>1. Follows(heldConfig, config) /\ Follows(heldRoster, roster)
    BY <1>1 DEF IInv, Streams, Behind, Follows
  <2>2. \A l \in ListenerKeys : ~Newer(listener[l].sinceVersion, config.version)
    BY <1>1 DEF IInv, Objects
  <2>3. ASSUME NEW c \in Clients PROVE ~Newer(client[c].sinceVersion, roster.version)
    <3>1. client[c].sinceVersion \in Versions /\ roster.version \in Versions
      BY <1>1 DEF IInv, TypeOK, Statuses, Docs
    <3>2. CASE client[c].sinceVersion = heldRoster.version
      BY <2>1, <3>2 DEF Follows
    <3>3. CASE Newer(roster.version, client[c].sinceVersion)
      BY <3>1, <3>3, NewerIsStrictOrder
    <3> QED BY <1>1, <3>2, <3>3 DEF IInv, Offered
  <2> QED BY <2>1, <2>2, <2>3 DEF AgentNeverLeads
<1> QED BY <1>1, Invariance, PTL

(* Whatever order documents, rulings and failures reach an object in, the  *)
(* agent's report of it and of its streams passes PSP's validators         *)
(* (validateStreamState, validateReportedObject).                          *)
THEOREM ReportsAccepted == Spec => []ReportIsAccepted
<1>1. ASSUME IInv PROVE ReportIsAccepted
  <2>1. ValidStreamState(heldConfig) /\ ValidStreamState(heldRoster)
    BY <1>1 DEF IInv, Streams, Behind
  <2>2. \A l \in heldConfig.body : l \in ListenerKeys
    BY <1>1 DEF IInv, TypeOK, Helds, ConfigBodies
  <2>3. \A l \in heldConfig.body : ValidReportedObject(listener[l])
    BY <1>1, <2>2, NewIsSound DEF IInv, Objects, Sound
  <2>4. \A c \in Clients : client[c].state # "none" => ValidReportedObject(client[c])
    BY <1>1, NewIsSound DEF IInv, Objects, Sound
  <2> QED BY <2>1, <2>3, <2>4 DEF ReportIsAccepted
<1> QED BY <1>1, Invariance, PTL

(* A client that is blocked names the listener it is attached to by the    *)
(* roster in force (acceptVersion, EventDependencyBlocked).                *)
THEOREM BlockedIsExplained == Spec => []BlockedOnItsListener
<1>1. IInv => BlockedOnItsListener
  BY DEF IInv
<1> QED BY <1>1, Invariance, PTL

-----------------------------------------------------------------------------
(* What belongs together. *)

(* A poll puts in flight a pair that was published together, and a         *)
(* response of which the roster is not isolated leaves the agent with its  *)
(* roster, and with a config no newer than it.                             *)
LEMMA ReceiptIsPaired ==
  ASSUME IInv, Paired, NEW isolated, "roster" \notin isolated, Receive(isolated)
  PROVE  Paired'
<1> DEFINE newConfig == IF "config" \in isolated THEN heldConfig
                        ELSE Adopt(heldConfig, reply.config)
           newRoster == Adopt(heldRoster, reply.roster)
           served    == Content(reply.roster, heldRoster)
           given     == Content(reply.config, heldConfig)
<1>1. /\ reply # NoBody /\ reply' = NoBody
      /\ heldConfig' = newConfig /\ heldRoster' = newRoster
  BY DEF Receive
<1>2. /\ config \in Docs(ConfigBodies) /\ roster \in Docs(RosterBodies)
      /\ heldConfig \in Helds(ConfigBodies) /\ heldRoster \in Helds(RosterBodies)
      /\ reply.config \in Segments(ConfigBodies) /\ reply.roster \in Segments(RosterBodies)
  BY <1>1 DEF IInv, TypeOK, Replies
<1>3. /\ Behind(config, heldConfig) /\ Behind(roster, heldRoster)
      /\ InFlight(config, heldConfig, reply.config)
      /\ InFlight(roster, heldRoster, reply.roster)
  BY <1>1 DEF IInv, Streams
<1>4. /\ served.minConfig = reply.config.version
      /\ served.minConfig.epoch = reply.roster.version.epoch
      /\ Closed(given, served.attach)
  BY <1>1 DEF Paired
<1>5. /\ newRoster.body = served
      /\ newRoster.etag # NoBody => newRoster.version.epoch = newRoster.etag.minConfig.epoch
  <2>1. CASE reply.roster.unchanged /\ reply.roster.version.epoch > heldRoster.version.epoch
    <3>1. served = heldRoster.etag /\ heldRoster.etag # NoBody
      BY <2>1, <1>3 DEF Content, InFlight
    <3>2. heldRoster.version.epoch = reply.roster.version.epoch
      BY <3>1, <1>4 DEF Paired
    <3>3. heldRoster.version.epoch \in Nat
      BY <1>2 DEF Helds, Versions
    <3> QED BY <2>1, <3>2, <3>3
  <2>2. CASE /\ ~reply.roster.unchanged
             /\ newRoster.version = reply.roster.version
             /\ newRoster.etag = reply.roster.body /\ newRoster.body = reply.roster.body
    BY <2>2, <1>4 DEF Content
  <2>3. CASE newRoster = heldRoster /\ heldRoster.etag = served /\ heldRoster.body = heldRoster.etag
    BY <2>3 DEF Paired
  <2> HIDE DEF newRoster, served
  <2>4. newRoster = Adopt(heldRoster, reply.roster) /\ served = Content(reply.roster, heldRoster)
    BY DEF newRoster, served
  <2> QED BY <1>2, <1>3, <2>1, <2>2, <2>3, <2>4, AdoptCases, BodiesAreSomething
<1>6. /\ ~Newer(newConfig.version, reply.config.version)
      /\ newConfig.version = reply.config.version => newConfig.body = given
  <2>1. /\ heldConfig.version \in Versions /\ reply.config.version \in Versions
        /\ Committed(reply.config.version)
    BY <1>2, <1>3 DEF Helds, Segments, InFlight
  <2>2. CASE newConfig.version = NoVersion
    BY <2>1, <2>2, CommittedIsNewer
  <2>3. CASE /\ ~reply.config.unchanged
             /\ newConfig.version = reply.config.version /\ newConfig.body = reply.config.body
    BY <2>1, <2>3, NewerIsStrictOrder DEF Content
  <2>4. CASE newConfig = heldConfig
    BY <1>3, <2>4 DEF InFlight, Behind
  <2> HIDE DEF newConfig
  <2>5. newConfig = heldConfig \/ newConfig = Adopt(heldConfig, reply.config)
    BY DEF newConfig
  <2> QED BY <1>2, <1>3, <2>2, <2>3, <2>4, <2>5, AdoptCases, BodiesAreSomething
<1> HIDE DEF newConfig, newRoster, served, given
<1> QED BY <1>1, <1>4, <1>5, <1>6 DEF Paired

(* Nothing but such a response touches what belongs together, unless a     *)
(* roster can be isolated on its own.                                      *)
LEMMA NextIsPaired ==
  ASSUME "roster" \notin Isolable, IInv, Paired, [Next]_vars
  PROVE  Paired'
<1>1. CASE UNCHANGED <<reply, heldConfig, heldRoster>>
  BY <1>1 DEF Paired
<1>2. ASSUME NEW listeners \in ConfigBodies, NEW attach \in Attachments,
             Publish(listeners, attach)
      PROVE  Paired'
  BY <1>1, <1>2 DEF Publish, agentVars
<1>3. ASSUME NEW backup \in published, NEW attach \in Attachments,
             Restore(backup, attach)
      PROVE  Paired'
  BY <1>1, <1>3 DEF Restore, agentVars
<1>4. CASE Poll
  <2>1. /\ UNCHANGED <<heldConfig, heldRoster>>
        /\ reply' = [config |-> Segment(config, heldConfig),
                     roster |-> Segment(roster, heldRoster)]
    BY <1>4 DEF Poll, agentVars
  <2>2. /\ Content(Segment(config, heldConfig), heldConfig) = config.body
        /\ Segment(config, heldConfig).version = config.version
        /\ Content(Segment(roster, heldRoster), heldRoster) = roster.body
        /\ Segment(roster, heldRoster).version = roster.version
    BY SegmentIsInFlight, BodiesAreSomething DEF IInv, TypeOK, Streams, Published
  <2> QED BY <2>1, <2>2 DEF Paired, IInv, Published
<1>5. CASE LoseReply
  BY <1>5 DEF LoseReply, agentVars, Paired
<1>6. ASSUME NEW isolated \in SUBSET Isolable, Receive(isolated)
      PROVE  Paired'
  BY <1>6, ReceiptIsPaired
<1>7. ASSUME NEW l \in ListenerKeys, CoreSettles(l) \/ CoreFails(l)
      PROVE  Paired'
  BY <1>1, <1>7 DEF CoreSettles, CoreFails
<1>8. ASSUME NEW c \in Clients, Evaluate(c)
      PROVE  Paired'
  BY <1>1, <1>8 DEF Evaluate
<1>9. CASE UNCHANGED vars
  BY <1>1, <1>9 DEF vars, agentVars
<1> QED BY <1>2, <1>3, <1>4, <1>5, <1>6, <1>7, <1>8, <1>9 DEF Next

(* attachment_unknown_listener accuses PSP of a roster that names a        *)
(* listener it never published.  As long as a roster is not isolated       *)
(* without its config, the agent never raises it against a PSP that        *)
(* publishes closed pairs (EvaluateAttachment).                            *)
THEOREM DefectsAreReal ==
  ASSUME "roster" \notin Isolable
  PROVE  Spec => []NoFalseDefect
<1>1. Init => Paired
  <2> SUFFICES ASSUME Init PROVE Paired
    OBVIOUS
  <2>1. /\ reply = NoBody /\ heldConfig.version = NoVersion /\ heldRoster.etag = NoBody
        /\ heldRoster.body = [minConfig |-> NoVersion, attach |-> Unattached]
    BY DEF Init
  <2> QED BY <2>1, CommittedIsNewer DEF Paired, Closed, Unattached
<1>2. IInv /\ Paired /\ [Next]_vars => Paired'
  BY NextIsPaired
<1>3. IInv /\ Paired => NoFalseDefect
  <2> SUFFICES ASSUME IInv, Paired, NEW c \in Clients, Attached(c) # NoName
               PROVE  Judgement(c).disposition \notin {"unknown_listener", "error"}
    BY DEF NoFalseDefect
  <2> DEFINE in == [rosterMinConfig     |-> heldRoster.body.minConfig,
                    appliedConfig       |-> heldConfig.version,
                    listenerKnown       |-> Attached(c) \in heldConfig.body,
                    listenerState       |-> listener[Attached(c)].state,
                    aheadRounds         |-> aheadRounds,
                    escalateAfterRounds |-> EscalateAfterRounds]
  <2>1. ~(in.aheadRounds < 0 \/ in.escalateAfterRounds < 0)
    BY RoundsAssumption DEF IInv, TypeOK
  <2>2. Judgement(c).disposition = Ruling(in)
    BY <2>1 DEF Judgement, EvaluateAttachment
  <2>3. CASE Newer(heldRoster.body.minConfig, heldConfig.version)
    BY <2>2, <2>3 DEF Ruling
  <2>4. CASE ~Newer(heldRoster.body.minConfig, heldConfig.version)
    <3>1. heldRoster.body.minConfig \in Versions /\ heldConfig.version \in Versions
      BY DEF IInv, TypeOK, Helds, RosterBodies
    <3>2. Closed(heldConfig.body, heldRoster.body.attach)
      BY <2>4, <3>1, NewerIsStrictOrder DEF Paired
    <3>3. Attached(c) \in heldConfig.body
      BY <3>2 DEF Closed, Attached
    <3>4. Attached(c) \in ListenerKeys
      BY <3>3 DEF IInv, TypeOK, Helds, ConfigBodies
    <3>5. listener[Attached(c)].state \in ObjectStates \ {"none"}
      BY <3>3, <3>4 DEF IInv, TypeOK, Objects, Statuses
    <3>6. listener[Attached(c)].state \in {"applied", "rejected", "pending", "blocked"}
      BY <3>5 DEF ObjectStates
    <3> QED BY <2>2, <2>4, <3>3, <3>6 DEF Ruling
  <2> QED BY <2>3, <2>4
<1> QED BY <1>1, <1>2, <1>3, Invariance, PTL DEF Spec

-----------------------------------------------------------------------------
(* The refinement. *)

(* The coordinates of Stream are those of Convergence.                     *)
LEMMA SameVersions ==
  /\ ConfigStream!NoVersion = NoVersion
  /\ \A v : ConfigStream!Committed(v) <=> Committed(v)
  /\ \A v, w : ConfigStream!Newer(v, w) <=> Newer(v, w)
BY DEF ConfigStream!NoVersion, NoVersion, ConfigStream!Committed, Committed,
       ConfigStream!Newer, Newer

(* What a reader of the held config relies on: every coordinate it ever    *)
(* shows is that of a document PSP published, with its bytes, and is only  *)
(* replaced by a newer one or forgotten for a later epoch (Stream).        *)
THEOREM ConfigIsStream == Spec => ImplementsStream
<1> DEFINE abstract == [version |-> heldConfig.version, body |-> heldConfig.etag]
<1>1. Init => ConfigStream!StreamInit
  BY InitIInv, SameVersions
     DEF Init, IInv, Published, ConfigStream!StreamInit, ConfigStream!Nothing
<1>2. ASSUME IInv, [Next]_vars
      PROVE  [ConfigStream!StreamNext]_(ConfigStream!streamVars)
  <2> USE DEF ConfigStream!StreamNext, ConfigStream!streamVars
  <2>1. CASE UNCHANGED <<published, heldConfig>>
    BY <2>1
  <2>2. CASE Republished
    <3>1. heldConfig' = heldConfig /\ published' = published \cup {config'}
      BY <2>2 DEF Republished, agentVars
    <3>2. CASE config' = config
      BY <2>1, <3>1, <3>2, <1>2 DEF IInv, Published
    <3>3. CASE Newer(config'.version, config.version)
      <4>1. /\ config.version \in Versions /\ config'.version \in Versions
            /\ \A d \in published : d.version \in Versions
        BY <1>2, <2>2 DEF IInv, TypeOK, Docs, Republished
      <4>2. \A d \in published : Newer(config'.version, d.version)
        BY <1>2, <3>3, <4>1, NewerIsStrictOrder DEF IInv, Published
      <4>3. config' \notin published
        BY <4>1, <4>2, NewerIsStrictOrder
      <4>4. ConfigStream!Publish(config')
        BY <3>1, <4>2, SameVersions DEF ConfigStream!Publish
      <4> QED BY <3>1, <4>3, <4>4
    <3> QED BY <2>2, <3>2, <3>3 DEF Republished, Renewed
  <2>3. ASSUME NEW isolated, Receive(isolated)
        PROVE  [ConfigStream!StreamNext]_(ConfigStream!streamVars)
    <3>1. /\ reply # NoBody /\ published' = published
          /\ heldConfig' = heldConfig \/ heldConfig' = Adopt(heldConfig, reply.config)
      BY <2>3 DEF Receive, pspVars
    <3>2. CASE heldConfig' = heldConfig
      BY <2>1, <3>1, <3>2
    <3>3. CASE /\ reply.config.version.epoch > heldConfig.version.epoch
               /\ heldConfig'.version = NoVersion /\ heldConfig'.etag = NoBody
      <4>1. config.version.epoch > heldConfig.version.epoch
        <5>1. /\ config.version \in Versions /\ heldConfig.version \in Versions
              /\ reply.config.version \in Versions
              /\ ~Newer(reply.config.version, config.version)
          BY <1>2, <3>1 DEF IInv, TypeOK, Docs, Helds, Replies, Segments, Streams, InFlight
        <5> QED BY <3>3, <5>1 DEF Newer, Versions
      <4>2. config \in published
        BY <1>2 DEF IInv, Published
      <4>3. abstract' = ConfigStream!Nothing
        BY <3>3, SameVersions DEF ConfigStream!Nothing
      <4> QED BY <3>1, <4>1, <4>2, <4>3 DEF ConfigStream!Forget
    <3>4. CASE /\ ~reply.config.unchanged /\ Newer(reply.config.version, heldConfig.version)
               /\ heldConfig'.version = reply.config.version
               /\ heldConfig'.etag = reply.config.body
      <4>1. abstract' \in published
        BY <1>2, <3>1, <3>4 DEF IInv, Streams
      <4>2. ConfigStream!Hold(abstract')
        BY <3>1, <3>4, SameVersions DEF ConfigStream!Hold
      <4> QED BY <3>1, <4>1, <4>2
    <3>5. /\ config \in Docs(ConfigBodies) /\ heldConfig \in Helds(ConfigBodies)
          /\ reply.config \in Segments(ConfigBodies)
          /\ Behind(config, heldConfig) /\ InFlight(config, heldConfig, reply.config)
      BY <1>2, <3>1 DEF IInv, TypeOK, Replies, Streams
    <3> QED BY <3>1, <3>2, <3>3, <3>4, <3>5, AdoptCases, BodiesAreSomething
  <2>4. CASE Poll \/ LoseReply
    BY <2>1, <2>4 DEF Poll, LoseReply, pspVars, agentVars
  <2>5. ASSUME NEW l \in ListenerKeys, CoreSettles(l) \/ CoreFails(l)
        PROVE  UNCHANGED <<published, heldConfig>>
    BY <2>5 DEF CoreSettles, CoreFails, pspVars
  <2>6. ASSUME NEW c \in Clients, Evaluate(c)
        PROVE  UNCHANGED <<published, heldConfig>>
    BY <2>6 DEF Evaluate, pspVars
  <2>7. CASE UNCHANGED vars
    BY <2>1, <2>7 DEF vars, pspVars, agentVars
  <2> QED BY <1>2, <2>1, <2>2, <2>3, <2>4, <2>5, <2>6, <2>7,
             PublishRepublishes, RestoreRepublishes DEF Next
<1> QED BY <1>1, <1>2, Invariance, PTL DEF Spec, ImplementsStream, ConfigStream!StreamSpec
=============================================================================
