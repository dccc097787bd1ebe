------------------------------ MODULE Packets ------------------------------
(***************************************************************************)
(* The UAVTalk packets that the bridge and the flight controller exchange  *)
(* while a telemetry session is set up (uavtalk/uavtalk.go,                *)
(* uavtalk/session.go).  A packet keeps the name of its definition, its    *)
(* command and the part of its data the handlers look at.  Numbers that    *)
(* the code stores in a uint8 are bounded by UInt8Max, 255 in the code.    *)
(***************************************************************************)
EXTENDS Naturals, Sequences

CONSTANTS
  UInt8Max,     \* the largest uint8
  SessionIDs,   \* uint16 session identifiers in use, 0 among them
  ObjectIDs,    \* non-zero identifiers of the flight controller's objects
  Definitions   \* the identifiers with an entry in AllDefinitions

ASSUME PacketsAssumption ==
  /\ UInt8Max \in Nat \ {0}
  /\ SessionIDs \subseteq Nat
  /\ 0 \in SessionIDs
  /\ ObjectIDs \subseteq Nat \ {0}
  /\ Definitions \subseteq ObjectIDs

UInt8 == 0 .. UInt8Max

\* uavtalk.go: ObjectCmd = 0 .. ObjectNack = 4.
DataCmds == {"ObjectCmd", "ObjectCmdWithAck"}
Cmds == DataCmds \cup {"ObjectRequest", "ObjectAck", "ObjectNack"}

\* main.go: the packets the auth manager lets through.
AuthPackets == {"SessionManaging", "FlightTelemetryStats", "GCSTelemetryStats"}

Statuses == {"Disconnected", "HandshakeReq", "HandshakeAck", "Connected"}

\* The Data of a packet whose command carries none (an empty Go map).
NoData == [none |-> TRUE]

NewPacket(def, cmd, data) == [def |-> def, cmd |-> cmd, data |-> data]

(***************************************************************************)
(* Packets for the flight controller (session.go).                         *)
(***************************************************************************)
CreateGCSTelemetryStatsObjectPacket(status) ==
  NewPacket("GCSTelemetryStats", "ObjectCmd", [Status |-> status])

CreateSessionManagingRequest ==
  NewPacket("SessionManaging", "ObjectRequest", NoData)

CreateSessionManagingPacket(sid, index) ==
  NewPacket("SessionManaging", "ObjectCmd",
            [SessionID |-> sid, ObjectOfInterestIndex |-> index])

CreatePacketAck(def) == NewPacket(def, "ObjectAck", NoData)

\* The setter for the metadata of d.  Its Data is a Go map, so the packet
\* holds a reference: the map of the publishing goroutine g.
CreateObjectSetter(d, g) ==
  NewPacket("Meta", "ObjectCmd", [of |-> d, map |-> g])

ToFlightController ==
  [def : {"GCSTelemetryStats"}, cmd : {"ObjectCmd"}, data : [Status : Statuses]]
    \cup {CreateSessionManagingRequest, CreatePacketAck("SessionManaging")}
    \cup [def : {"SessionManaging"}, cmd : {"ObjectCmd"},
          data : [SessionID : SessionIDs, ObjectOfInterestIndex : UInt8]]
    \cup [def : {"Meta"}, cmd : {"ObjectCmd"},
          data : [of : Definitions, map : Nat]]

(***************************************************************************)
(* Packets from the flight controller that pass the auth filter.           *)
(***************************************************************************)
FlightTelemetryStats(cmd, status) ==
  NewPacket("FlightTelemetryStats", cmd, [Status |-> status])

SessionManaging(cmd, sid, num, oid) ==
  NewPacket("SessionManaging", cmd,
            [SessionID |-> sid, NumberOfObjects |-> num, ObjectID |-> oid])

FromFlightController ==
  [def : {"FlightTelemetryStats", "GCSTelemetryStats"}, cmd : DataCmds,
   data : [Status : Statuses]]
    \cup [def : {"SessionManaging"}, cmd : DataCmds,
          data : [SessionID : SessionIDs, NumberOfObjects : UInt8,
                  ObjectID : ObjectIDs \cup {0}]]
    \cup [def : AuthPackets, cmd : Cmds \ DataCmds, data : {NoData}]
=============================================================================
