--------------------------- MODULE SessionSystem ---------------------------
(***************************************************************************)
(* The bridge's session handlers against a flight controller: the closed   *)
(* system, with the faults of the link and of both ends.  The way from the *)
(* flight controller to the auth goroutine (HID reports, framing,          *)
(* fcOutChan, chanCast, the root manager, the auth channel) is the FIFO    *)
(* authIn; the way back is fcIn, which the writer drains onto the link.    *)
(***************************************************************************)
EXTENDS Session, Functions

CONSTANTS
  BootStatuses, TickCap,  \* see FlightController
  Scenarios  \* [objects, faults]: an object table, and how many faults of each
             \* kind may happen

ASSUME FlightControllerAssumption ==
  /\ BootStatuses \subseteq Statuses
  /\ TickCap \in Nat \ {0}

\* The flight controller sends a reply again, gives the bridge up, or reboots;
\* the link drops a packet, in either direction; the bridge restarts.
FaultKinds == {"retransmit", "timeout", "reboot", "loss", "restart"}

ASSUME ScenariosAssumption ==
  \A s \in Scenarios :
    s.objects \in Seq(ObjectIDs) /\ Len(s.objects) \in 1 .. UInt8Max /\ s.faults \in [FaultKinds -> Nat]

VARIABLES
  status, gcsStatus, session, unacked,  \* see FlightController
  scenario,  \* the object table and the faults of this behaviour
  faults     \* the faults that are still to come

FC == INSTANCE FlightController WITH link <- authIn, objects <- scenario.objects

fcVars == <<status, gcsStatus, session, unacked>>
bridgeVars == vars
systemVars == <<bridgeVars, fcVars, scenario, faults>>

SystemInit == Init /\ FC!FCInit /\ scenario \in Scenarios /\ faults = scenario.faults

-----------------------------------------------------------------------------
Bridge ==
  /\ AuthStep \/ \E g \in DOMAIN publishers : Publish(g)
  /\ UNCHANGED <<fcVars, scenario, faults>>

bridgeOnly == <<sessionVars, pc, objectID, out, publisherVars, activeDefinitions>>

\* The writer serialises a packet and the link carries it to its receiver.
Transfer ==
  /\ ~Panicked
  /\ fcIn # <<>>
  /\ fcIn' = Tail(fcIn)
  /\ FC!FCReceive(Head(fcIn))
  /\ UNCHANGED <<bridgeOnly, scenario, faults>>

FlightTick == FC!Tick /\ UNCHANGED <<bridgeOnly, fcIn, scenario, faults>>

Fault(f) ==
  /\ faults[f] > 0
  /\ faults' = [faults EXCEPT ![f] = @ - 1]
  /\ UNCHANGED scenario

RetransmitFault ==
  Fault("retransmit") /\ FC!Retransmit /\ UNCHANGED <<bridgeOnly, fcIn>>

TimeoutFault == Fault("timeout") /\ FC!Timeout /\ UNCHANGED <<bridgeOnly, fcIn>>

RebootFault == Fault("reboot") /\ FC!Reboot /\ UNCHANGED <<bridgeOnly, fcIn>>

\* A frame with a wrong checksum is stripped by its receiver.
LossFault ==
  /\ Fault("loss")
  /\ \/ authIn # <<>> /\ authIn' = Tail(authIn) /\ UNCHANGED fcIn
     \/ fcIn # <<>> /\ fcIn' = Tail(fcIn) /\ UNCHANGED authIn
  /\ UNCHANGED <<bridgeOnly, fcVars>>

\* The process ends (log.Fatal on a link error, or a crash) and is started
\* again.  What it had in memory is lost; packets may still be in the driver.
RestartFault ==
  /\ Fault("restart")
  /\ \E n \in 1 .. Len(authIn) + 1 : authIn' = SubSeq(authIn, n, Len(authIn))
  /\ connected' = FALSE
  /\ sessionID' = 0
  /\ currentObjectID' = 0
  /\ numberOfObjects' = 0
  /\ pc' = "idle"
  /\ objectID' = 0
  /\ out' = <<>>
  /\ activeDefinitions' = <<>>
  /\ fcIn' = <<CreateGCSTelemetryStatsObjectPacket("HandshakeReq")>>
  /\ publishers' = <<>>
  /\ published' = <<>>
  /\ UNCHANGED fcVars

Faults ==
  RetransmitFault \/ TimeoutFault \/ RebootFault \/ LossFault \/ RestartFault

SystemNext == Bridge \/ Transfer \/ FlightTick \/ Faults

Fairness ==
  /\ WF_systemVars(AuthStep /\ UNCHANGED <<fcVars, scenario, faults>>)
  /\ \A g \in 1 .. MaxPublishers :
       WF_systemVars(g \in DOMAIN publishers /\ Publish(g) /\ UNCHANGED <<fcVars, scenario, faults>>)
  /\ WF_systemVars(Transfer)
  /\ WF_systemVars(FlightTick)

SystemSpec == SystemInit /\ [][SystemNext]_systemVars /\ Fairness

-----------------------------------------------------------------------------
\* The definitions of the first i objects of a table, in its order.
DefinitionsOf(objects) ==
  LET listed[i \in 0 .. Len(objects)] ==
        IF i = 0 THEN <<>>
        ELSE IF objects[i] \in Definitions THEN Append(listed[i - 1], objects[i])
        ELSE listed[i - 1]
  IN  listed

\* The definitions of the flight controller's objects.
Available == DefinitionsOf(scenario.objects)[Len(scenario.objects)]

Only(kinds) == \A f \in FaultKinds \ kinds : scenario.faults[f] = 0

\* The enumeration is exact while nothing is lost or sent twice and neither
\* end restarts, timeouts and new handshakes included: one goroutine
\* publishes, it starts when activeDefinitions holds the definition of every
\* object in table order, and it declares them in that order, each once.  The
\* handler is then never at an assignment to activeDefinitions when the
\* goroutine takes the slice, though no lock is held.
EnumerationExact ==
  Only({"timeout"}) =>
    /\ ~Panicked
    /\ Len(publishers) <= 1
    /\ publishers # <<>> => activeDefinitions = Available
    /\ published = SubSeq(Available, 1, Len(published))

\* The handshake settles, whatever happened before: both ends take the
\* connection to be up (a torn read ends the process and excuses it).
EventuallyConnected == <>[](Panicked \/ (connected /\ status = "Connected"))

AllPublished == Range(Available) \subseteq Range(published)

\* Every definition the flight controller has is declared to rotonde in the
\* end (unless a torn read ends the process), though it gives the connection
\* up or sends a reply twice.
EventuallyPublished ==
  <>[](Only({"timeout", "retransmit"}) => Panicked \/ AllPublished)

\* The same whatever happens to the flight controller: all the currently
\* available definitions are sent (the repository's README).
AlwaysPublished == <>[](Panicked \/ AllPublished)

\* Every reply of the flight controller is acknowledged if no packet is lost:
\* no interleaving of sends leaves the handler blocked on fcInChan for good.
RepliesAcknowledged ==
  (unacked # <<>> /\ scenario.faults["loss"] = 0) ~> (Panicked \/ unacked = <<>>)

\* The handler is about to find its own session alive at the flight
\* controller, after a disconnection that interrupted it.
Recovering ==
  /\ Idle
  /\ authIn # <<>>
  /\ IsSession(Head(authIn), "ObjectCmd")
  /\ sessionID # 0
  /\ Head(authIn).data.SessionID = sessionID

\* A session that sessionHandler finds alive and calls "Recovering" is
\* completed, though it may be only partly enumerated: all the currently
\* available definitions are sent (the repository's README).
PartialSessionRecovered == Recovering ~> (Panicked \/ AllPublished)
=============================================================================
