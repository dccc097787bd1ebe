-------------------------- MODULE FlightController --------------------------
(***************************************************************************)
(* The flight controller, as far as the handlers of main.go rely on it     *)
(* (its firmware is not part of the repository):                           *)
(*  - it reports its connection status periodically in                     *)
(*    FlightTelemetryStats, and the status follows the GCSTelemetryStats   *)
(*    it received last;                                                    *)
(*  - it answers a SessionManaging request with its SessionManaging        *)
(*    object, and a SessionManaging object by updating its own and sending *)
(*    that back, to be acknowledged: session 0 yields the number of        *)
(*    objects, any other session the object at the index asked for.        *)
(***************************************************************************)
EXTENDS Packets

CONSTANTS
  BootStatuses, \* statuses it may have when the bridge starts
  TickCap       \* bound on waiting packets beyond which no status is reported

VARIABLES
  objects,    \* the object table: a sequence of object identifiers
  status,     \* FlightTelemetryStats.Status
  gcsStatus,  \* the last GCSTelemetryStats.Status received
  session,    \* the data of the SessionManaging object
  unacked,    \* the reply that waits for its acknowledgement, if there is one
  link        \* packets on their way to the bridge

fcVars == <<status, gcsStatus, session, unacked>>

NoSession == [SessionID |-> 0, NumberOfObjects |-> 0, ObjectID |-> 0]

\* Disconnected without a peer; Connected while it still takes a previous
\* bridge process to be there.
FCInit ==
  /\ status \in BootStatuses
  /\ gcsStatus = status
  /\ session = NoSession
  /\ unacked = <<>>

NextStatus ==
  CASE status = "Disconnected" /\ gcsStatus = "HandshakeReq" -> "HandshakeAck"
    [] status = "HandshakeAck" /\ gcsStatus = "Connected" -> "Connected"
    [] status = "Connected" /\ gcsStatus # "Connected" -> "Disconnected"
    [] OTHER -> status

Tick ==
  /\ Len(link) < TickCap
  /\ status' = NextStatus
  /\ link' = Append(link, FlightTelemetryStats("ObjectCmd", status'))
  /\ UNCHANGED <<gcsStatus, session, unacked>>

\* The answer to the object at an index, none beyond the table.
Lookup(index) == IF index < Len(objects) THEN objects[index + 1] ELSE 0

Answer(sid, index) ==
  IF sid = 0
  THEN [NoSession EXCEPT !.NumberOfObjects = Len(objects)]
  ELSE [NoSession EXCEPT !.SessionID = sid, !.ObjectID = Lookup(index)]

ReceiveStatus(q) ==
  /\ q.def = "GCSTelemetryStats"
  /\ gcsStatus' = q.data.Status
  /\ UNCHANGED <<status, session, unacked, link>>

ReceiveRequest(q) ==
  /\ q.def = "SessionManaging" /\ q.cmd = "ObjectRequest"
  /\ link' = Append(link, NewPacket("SessionManaging", "ObjectCmd", session))
  /\ UNCHANGED fcVars

ReceiveObject(q) ==
  /\ q.def = "SessionManaging" /\ q.cmd = "ObjectCmd"
  /\ session' = Answer(q.data.SessionID, q.data.ObjectOfInterestIndex)
  /\ unacked' = <<NewPacket("SessionManaging", "ObjectCmdWithAck", session')>>
  /\ link' = link \o unacked'
  /\ UNCHANGED <<status, gcsStatus>>

ReceiveAck(q) ==
  /\ q.def = "SessionManaging" /\ q.cmd = "ObjectAck"
  /\ unacked' = <<>>
  /\ UNCHANGED <<status, gcsStatus, session, link>>

ReceiveMeta(q) ==
  /\ q.def = "Meta"
  /\ UNCHANGED <<fcVars, link>>

FCReceive(q) ==
  \/ ReceiveStatus(q)
  \/ ReceiveRequest(q)
  \/ ReceiveObject(q)
  \/ ReceiveAck(q)
  \/ ReceiveMeta(q)

\* The reply is sent again when its acknowledgement is late.
Retransmit ==
  /\ unacked # <<>>
  /\ link' = link \o unacked
  /\ UNCHANGED fcVars

\* Nothing was heard from the bridge for too long.
Timeout ==
  /\ status # "Disconnected"
  /\ status' = "Disconnected"
  /\ UNCHANGED <<gcsStatus, session, unacked, link>>

Reboot ==
  /\ status' = "Disconnected"
  /\ gcsStatus' = "Disconnected"
  /\ session' = NoSession
  /\ unacked' = <<>>
  /\ UNCHANGED link
=============================================================================
