------------------------------ MODULE Session ------------------------------
(***************************************************************************)
(* The auth goroutine of the bridge: disconnectedHandler and               *)
(* sessionHandler of initAuthHandlers (main.go), which complete the        *)
(* telemetry handshake, open a session and enumerate the objects of the    *)
(* flight controller one index at a time.                                  *)
(*                                                                         *)
(* A handler blocks wherever it sends to fcInChan, so an invocation is cut *)
(* into atomic steps at its sends: Receive... runs to the first send, each *)
(* Send... performs one send and runs on to the next one or to the return. *)
(*                                                                         *)
(* The flight controller is open here: Deliver hands the handlers any      *)
(* packet at any time.  SessionSystem closes the model.                    *)
(***************************************************************************)
EXTENDS Publisher

CONSTANTS
  TimeIDs,        \* values of uint16(time.Now().Unix())
  AuthCap,        \* bound on packets on their way to the auth goroutine
  MaxPublishers,  \* bound on publishing goroutines before deliveries stop
  MaxActive       \* bound on activeDefinitions before deliveries stop

ASSUME SessionAssumption ==
  /\ TimeIDs \subseteq SessionIDs
  /\ AuthCap \in Nat \ {0}
  /\ MaxPublishers \in Nat
  /\ MaxActive \in Nat

VARIABLES
  connected,        \* a Connected status was seen since the last Disconnected
  sessionID,        \* 0 until the bridge creates its session
  currentObjectID,  \* uint8, index of the next object to ask for
  numberOfObjects,  \* uint8, the last non-zero count that was reported
  authIn,           \* auth packets that the goroutine has not taken yet
  pc,               \* "idle", or the send that comes before more work
  objectID,         \* ObjectID of the reply being acknowledged
  out               \* the last packet of this invocation, when it remains to send

sessionVars == <<connected, sessionID, currentObjectID, numberOfObjects>>
handlerVars == <<authIn, pc, objectID, out>>
publisherVars == <<publishers, published>>
vars == <<sessionVars, handlerVars, publisherVars, activeDefinitions, fcIn>>

TypeOK ==
  /\ connected \in BOOLEAN
  /\ sessionID \in SessionIDs
  /\ currentObjectID \in UInt8
  /\ numberOfObjects \in UInt8
  /\ authIn \in Seq(FromFlightController)
  /\ pc \in {"idle", "ack", "open"}
  /\ objectID \in ObjectIDs \cup {0}
  /\ out \in Seq(ToFlightController)
  /\ activeDefinitions \in Seq(Definitions)
  /\ fcIn \in Seq(ToFlightController)
  /\ publishers \in Seq(Publishers)
  /\ published \in Seq(Definitions)

\* initAuthHandlers sends the handshake request, then attaches the handlers.
Init ==
  /\ connected = FALSE
  /\ sessionID = 0
  /\ currentObjectID = 0
  /\ numberOfObjects = 0
  /\ authIn = <<>>
  /\ pc = "idle"
  /\ objectID = 0
  /\ out = <<>>
  /\ activeDefinitions = <<>>
  /\ fcIn = <<CreateGCSTelemetryStatsObjectPacket("HandshakeReq")>>
  /\ publishers = <<>>
  /\ published = <<>>

-----------------------------------------------------------------------------
(***************************************************************************)
(* Taking a packet.                                                        *)
(***************************************************************************)
Idle == pc = "idle" /\ out = <<>>

Take(p) ==
  /\ Idle
  /\ authIn' = Tail(authIn)
  /\ UNCHANGED <<publisherVars, activeDefinitions, fcIn>>

HasStatus(p, status) ==
  /\ p.def = "FlightTelemetryStats"
  /\ p.cmd \in DataCmds
  /\ p.data.Status = status

\* Mutant of ReceiveDisconnected: no new handshake is asked for.
ReceiveDisconnectedSilent(p) ==
  /\ Take(p)
  /\ HasStatus(p, "Disconnected")
  /\ connected' = FALSE
  /\ UNCHANGED <<sessionID, currentObjectID, numberOfObjects, pc, objectID, out>>

ReceiveDisconnected(p) ==
  /\ Take(p)
  /\ HasStatus(p, "Disconnected")
  /\ connected' = FALSE
  /\ out' = <<CreateGCSTelemetryStatsObjectPacket("HandshakeReq")>>
  /\ UNCHANGED <<sessionID, currentObjectID, numberOfObjects, pc, objectID>>

ReceiveHandshakeAck(p) ==
  /\ Take(p)
  /\ HasStatus(p, "HandshakeAck")
  /\ out' = <<CreateGCSTelemetryStatsObjectPacket("Connected")>>
  /\ UNCHANGED <<sessionVars, pc, objectID>>

ReceiveConnected(p) ==
  /\ Take(p)
  /\ ~connected
  /\ HasStatus(p, "Connected")
  /\ connected' = TRUE
  /\ out' = <<CreateSessionManagingRequest>>
  /\ UNCHANGED <<sessionID, currentObjectID, numberOfObjects, pc, objectID>>

IsSession(p, cmd) == p.def = "SessionManaging" /\ p.cmd = cmd

NoteNumberOfObjects(p) ==
  numberOfObjects' = IF p.data.NumberOfObjects # 0
                     THEN p.data.NumberOfObjects
                     ELSE numberOfObjects

\* Mutant of ReceiveSession: two unset session identifiers count as equal.
ReceiveSessionUnset(p) ==
  /\ Take(p)
  /\ IsSession(p, "ObjectCmd")
  /\ NoteNumberOfObjects(p)
  /\ pc' = IF sessionID = p.data.SessionID THEN "idle" ELSE "open"
  /\ UNCHANGED <<connected, sessionID, currentObjectID, objectID, out>>

\* The flight controller's current session: nothing to do when it is ours.
ReceiveSession(p) ==
  /\ Take(p)
  /\ IsSession(p, "ObjectCmd")
  /\ NoteNumberOfObjects(p)
  /\ pc' = IF sessionID # 0 /\ sessionID = p.data.SessionID THEN "idle" ELSE "open"
  /\ UNCHANGED <<connected, sessionID, currentObjectID, objectID, out>>

\* A reply to CreateSessionManagingPacket: it has to be acknowledged.
ReceiveReply(p) ==
  /\ Take(p)
  /\ IsSession(p, "ObjectCmdWithAck")
  /\ NoteNumberOfObjects(p)
  /\ objectID' = p.data.ObjectID
  /\ pc' = "ack"
  /\ UNCHANGED <<connected, sessionID, currentObjectID, out>>

\* Packets that both handlers leave alone.
ReceiveOther(p) ==
  /\ Take(p)
  /\ \/ p.def = "GCSTelemetryStats"
     \/ p.cmd \notin DataCmds
     \/ HasStatus(p, "HandshakeReq")
     \/ connected /\ HasStatus(p, "Connected")
  /\ UNCHANGED <<sessionVars, pc, objectID, out>>

-----------------------------------------------------------------------------
(***************************************************************************)
(* The sends.                                                              *)
(***************************************************************************)

\* CreateSessionManagingPacket(0, 0) asks for a new session; the slice that
\* collects its definitions is made afresh.
SendOpen ==
  /\ pc = "open"
  /\ Send(CreateSessionManagingPacket(0, 0))
  /\ activeDefinitions' = <<>>
  /\ pc' = "idle"
  /\ UNCHANGED <<sessionVars, authIn, objectID, out, publisherVars>>

\* The acknowledged object becomes active when it has a definition.
NoteObject ==
  activeDefinitions' = IF objectID \in Definitions
                       THEN Append(activeDefinitions, objectID)
                       ELSE activeDefinitions

\* Mutant of EnumerationDone: off by one, the last object is left out.
EnumerationDoneEarly ==
  /\ currentObjectID + 1 >= numberOfObjects
  /\ StartPublisher
  /\ UNCHANGED <<sessionID, currentObjectID, out>>

\* Every index has been asked for: a goroutine publishes the definitions.
EnumerationDone ==
  /\ currentObjectID >= numberOfObjects
  /\ StartPublisher
  /\ UNCHANGED <<sessionID, currentObjectID, out>>

\* Mutant of AskNextObject: a reply without an object does not count.
AskNextObjectStuck ==
  /\ currentObjectID < numberOfObjects
  /\ sessionID' \in IF currentObjectID = 0 THEN TimeIDs ELSE {sessionID}
  /\ out' = <<CreateSessionManagingPacket(sessionID', currentObjectID)>>
  /\ currentObjectID' = IF objectID = 0 THEN currentObjectID ELSE currentObjectID + 1
  /\ UNCHANGED publishers

\* Mutant of AskNextObject: the second query creates the session again.
AskNextObjectNewSession ==
  /\ currentObjectID < numberOfObjects
  /\ sessionID' \in IF currentObjectID <= 1 THEN TimeIDs ELSE {sessionID}
  /\ out' = <<CreateSessionManagingPacket(sessionID', currentObjectID)>>
  /\ currentObjectID' = (currentObjectID + 1) % (UInt8Max + 1)
  /\ UNCHANGED publishers

\* Mutant of AskNextObject: one index too many is asked for.
AskNextObjectBeyond ==
  /\ currentObjectID <= numberOfObjects
  /\ sessionID' \in IF currentObjectID = 0 THEN TimeIDs ELSE {sessionID}
  /\ out' = <<CreateSessionManagingPacket(sessionID', currentObjectID)>>
  /\ currentObjectID' = (currentObjectID + 1) % (UInt8Max + 1)
  /\ UNCHANGED publishers

\* The first query creates the session; currentObjectID++ on a uint8.
AskNextObject ==
  /\ currentObjectID < numberOfObjects
  /\ sessionID' \in IF currentObjectID = 0 THEN TimeIDs ELSE {sessionID}
  /\ out' = <<CreateSessionManagingPacket(sessionID', currentObjectID)>>
  /\ currentObjectID' = (currentObjectID + 1) % (UInt8Max + 1)
  /\ UNCHANGED publishers

\* Mutant of SendAck: the reply that ends the enumeration is not acknowledged.
SendAckUnlessDone ==
  /\ pc = "ack"
  /\ NoteObject
  /\ \/ EnumerationDone /\ UNCHANGED fcIn
     \/ AskNextObject /\ Send(CreatePacketAck("SessionManaging"))
  /\ pc' = "idle"
  /\ objectID' = 0
  /\ UNCHANGED <<connected, numberOfObjects, authIn, published>>

SendAck ==
  /\ pc = "ack"
  /\ Send(CreatePacketAck("SessionManaging"))
  /\ NoteObject
  /\ EnumerationDone \/ AskNextObject
  /\ pc' = "idle"
  /\ objectID' = 0
  /\ UNCHANGED <<connected, numberOfObjects, authIn, published>>

SendOut ==
  /\ out # <<>>
  /\ Send(Head(out))
  /\ out' = <<>>
  /\ UNCHANGED <<sessionVars, authIn, pc, objectID, publisherVars, activeDefinitions>>

Receive ==
  /\ authIn # <<>>
  /\ \/ ReceiveDisconnected(Head(authIn))
     \/ ReceiveHandshakeAck(Head(authIn))
     \/ ReceiveConnected(Head(authIn))
     \/ ReceiveSession(Head(authIn))
     \/ ReceiveReply(Head(authIn))
     \/ ReceiveOther(Head(authIn))

AuthStep ==
  /\ ~Panicked
  /\ Receive \/ SendOpen \/ SendAck \/ SendOut

\* The handler is at the assignment to activeDefinitions that follows its
\* send: the reset in SendOpen, or the append in SendAck.
WritePending ==
  /\ Len(fcIn) < FcInCap
  /\ \/ pc = "open" /\ activeDefinitions # <<>>
     \/ pc = "ack" /\ objectID \in Definitions

-----------------------------------------------------------------------------
(***************************************************************************)
(* The other goroutines and the flight controller.                         *)
(***************************************************************************)
Publish(g) ==
  /\ ~Panicked
  /\ PublisherStep(g) \/ (WritePending /\ TornRead(g))
  /\ UNCHANGED <<sessionVars, handlerVars>>

\* The writer goroutine takes a packet off fcInChan and writes it out.
Write ==
  /\ ~Panicked
  /\ fcIn # <<>>
  /\ fcIn' = Tail(fcIn)
  /\ UNCHANGED <<sessionVars, handlerVars, publisherVars, activeDefinitions>>

Deliver(p) ==
  /\ Len(authIn) < AuthCap
  /\ Len(publishers) < MaxPublishers
  /\ Len(activeDefinitions) < MaxActive
  /\ authIn' = Append(authIn, p)
  /\ UNCHANGED <<sessionVars, pc, objectID, out, publisherVars,
                 activeDefinitions, fcIn>>

Next ==
  \/ AuthStep
  \/ \E g \in DOMAIN publishers : Publish(g)
  \/ Write
  \/ \E p \in FromFlightController : Deliver(p)

Spec == Init /\ [][Next]_vars

-----------------------------------------------------------------------------
(***************************************************************************)
(* Properties, whatever the flight controller sends.                       *)
(***************************************************************************)

\* A query names an object by its index, under the bridge's session.
IsQuery(p) ==
  /\ p.def = "SessionManaging"
  /\ p.cmd = "ObjectCmd"
  /\ p.data.SessionID # 0

Index(p) == p.data.ObjectOfInterestIndex

\* What the auth goroutine has produced and the writer has not taken,
\* oldest first.
Outgoing == fcIn \o out

\* The queries that wait in fcInChan or in the blocked handler name their
\* objects in strictly increasing order, so no interleaving of replies,
\* retransmissions and new sessions makes the bridge ask for an index twice.
QueriesInOrder ==
  \A j, k \in DOMAIN Outgoing :
    j < k /\ IsQuery(Outgoing[j]) /\ IsQuery(Outgoing[k])
      => Index(Outgoing[j]) < Index(Outgoing[k])

\* No index is skipped either: with a waiting query, every later index up to
\* currentObjectID is waiting behind it, and all of them are in the session
\* the bridge is in now.
QueriesContiguous ==
  \A j \in DOMAIN Outgoing :
    IsQuery(Outgoing[j])
      => /\ Outgoing[j].data.SessionID = sessionID
         /\ \A i \in Index(Outgoing[j]) .. currentObjectID - 1 :
              \E k \in DOMAIN Outgoing :
                IsQuery(Outgoing[k]) /\ Index(Outgoing[k]) = i

\* currentObjectID++ on a uint8 never wraps round to 0, not even when the
\* flight controller reports the largest count a uint8 can hold.
IndexNeverWraps == [][currentObjectID' >= currentObjectID]_vars

\* Once an object was asked for, the bridge keeps its session identifier
\* for good (sessionHandler creates one only at index 0).
SessionFixed == [][currentObjectID > 0 => sessionID' = sessionID]_vars

\* A setter that waits in fcInChan carries the modes of its own definition,
\* unless its goroutine went on to a later definition before the writer
\* took it: the 50 ms pause after each setter is all that prevents this.
SettersCarryTheirModes ==
  \A k \in DOMAIN fcIn :
    fcIn[k].def = "Meta"
      => LET g == fcIn[k].data.map
             last == \A j \in k + 1 .. Len(fcIn) :
                       fcIn[j].def = "Meta" => fcIn[j].data.map # g
         IN  publishers[g].pc # "sendMeta" /\ last
               => publishers[g].modes = Modes(fcIn[k].data.of)
=============================================================================
