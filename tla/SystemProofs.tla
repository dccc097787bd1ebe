---------------------------- MODULE SystemProofs ----------------------------
(***************************************************************************)
(* Proof that the enumeration of the objects is exact (EnumerationExact),  *)
(* for every object table, however often the flight controller gives the   *)
(* connection up, and for every size of the channels.  HandlerProofs has   *)
(* the invariant and the bridge's steps; here are those of the flight      *)
(* controller, and the theorem.                                            *)
(***************************************************************************)
EXTENDS HandlerProofs

-----------------------------------------------------------------------------
(***************************************************************************)
(* The flight controller.                                                  *)
(***************************************************************************)
LEMMA LinkTypes ==
  /\ \A s \in Statuses : FlightTelemetryStats("ObjectCmd", s) \in FromFlightController
  /\ \A cmd \in DataCmds, sid \in SessionIDs, n \in UInt8, o \in ObjectIDs \cup {0} :
       SessionManaging(cmd, sid, n, o) \in FromFlightController
BY DEF FlightTelemetryStats, SessionManaging, NewPacket, FromFlightController, DataCmds

LEMMA LinkType ==
  ASSUME TypeInv, UNCHANGED bridgeOnly, fcIn' \in Seq(ToFlightController),
         authIn' \in Seq(FromFlightController)
  PROVE  TypeInv'
<1>1. connected' \in BOOLEAN
  BY DEF bridgeOnly, sessionVars, TypeInv, TypeOK
<1> QED
  BY <1>1 DEF bridgeOnly, sessionVars, publisherVars, TypeInv, TypeOK

LEMMA BridgeOnly ==
  ASSUME UNCHANGED bridgeOnly
  PROVE  /\ UNCHANGED <<connected, sessionID, currentObjectID, numberOfObjects, pc, objectID, out,
                        publishers, published, activeDefinitions>>
         /\ Pending' = Pending
BY DEF bridgeOnly, sessionVars, publisherVars, Pending

LEMMA TickEffect ==
  ASSUME FlightTick
  PROVE  /\ status' = Following(status, gcsStatus)
         /\ authIn' = Append(authIn, FlightTelemetryStats("ObjectCmd", Following(status, gcsStatus)))
         /\ UNCHANGED <<gcsStatus, session, fcIn, scenario, faults>> /\ UNCHANGED bridgeOnly
<1>1. FC!NextStatus = Following(status, gcsStatus)
  BY DEF FC!NextStatus, Following
<1> QED
  BY <1>1 DEF FlightTick, FC!Tick, FC!FlightTelemetryStats, FC!NewPacket,
              FlightTelemetryStats, NewPacket

\* A status of the bridge, an acknowledgement or a setter is not answered.
LEMMA SilentEffect ==
  ASSUME Transfer
  PROVE  /\ fcIn # <<>> /\ fcIn' = Tail(fcIn) /\ UNCHANGED bridgeOnly /\ UNCHANGED <<scenario, faults>>
         /\ Head(fcIn) = AskConnection
              => gcsStatus' = "HandshakeReq" /\ UNCHANGED <<status, session, authIn>>
         /\ Head(fcIn) = Confirm
              => gcsStatus' = "Connected" /\ UNCHANGED <<status, session, authIn>>
         /\ Head(fcIn) = CreatePacketAck("SessionManaging")
              => UNCHANGED <<status, gcsStatus, session, authIn>>
         /\ Head(fcIn) \in Setters => UNCHANGED <<status, gcsStatus, session, authIn>>
<1> DEFINE q == Head(fcIn)
<1>1. FC!FCReceive(q)
  BY DEF Transfer
<1> USE DEF FC!FCReceive, FC!ReceiveStatus, FC!ReceiveRequest, FC!ReceiveObject, FC!ReceiveAck,
            FC!ReceiveMeta, FC!fcVars
<1>2. ASSUME q = AskConnection
      PROVE  gcsStatus' = "HandshakeReq" /\ UNCHANGED <<status, session, authIn>>
  <2>1. q.def = "GCSTelemetryStats" /\ q.data.Status = "HandshakeReq"
    BY <1>2 DEF AskConnection, CreateGCSTelemetryStatsObjectPacket, NewPacket
  <2> HIDE DEF q
  <2> QED
    BY <1>1, <2>1
<1>3. ASSUME q = Confirm
      PROVE  gcsStatus' = "Connected" /\ UNCHANGED <<status, session, authIn>>
  <2>1. q.def = "GCSTelemetryStats" /\ q.data.Status = "Connected"
    BY <1>3 DEF Confirm, CreateGCSTelemetryStatsObjectPacket, NewPacket
  <2> HIDE DEF q
  <2> QED
    BY <1>1, <2>1
<1>4. ASSUME q = CreatePacketAck("SessionManaging")
      PROVE  UNCHANGED <<status, gcsStatus, session, authIn>>
  <2>1. q.def = "SessionManaging" /\ q.cmd = "ObjectAck"
    BY <1>4 DEF CreatePacketAck, NewPacket
  <2> HIDE DEF q
  <2> QED
    BY <1>1, <2>1
<1>5. ASSUME q \in Setters
      PROVE  UNCHANGED <<status, gcsStatus, session, authIn>>
  <2>1. \A d, g : CreateObjectSetter(d, g).def = "Meta"
    BY DEF CreateObjectSetter, NewPacket
  <2>2. q.def = "Meta"
    BY <1>5, <2>1 DEF Setters
  <2> HIDE DEF q
  <2> QED
    BY <1>1, <2>2
<1> QED
  BY <1>2, <1>3, <1>4, <1>5 DEF Transfer

LEMMA RequestEffect ==
  ASSUME Transfer, session \in SessionData, Head(fcIn) = CreateSessionManagingRequest
  PROVE  /\ authIn' = Append(authIn, SessionManaging("ObjectCmd", session.SessionID,
                                                     session.NumberOfObjects, session.ObjectID))
         /\ UNCHANGED <<status, gcsStatus, session>>
<1> DEFINE q == Head(fcIn)
<1>1. FC!FCReceive(q) /\ q.def = "SessionManaging" /\ q.cmd = "ObjectRequest"
  BY DEF Transfer, CreateSessionManagingRequest, NewPacket
<1> HIDE DEF q
<1>2. FC!ReceiveRequest(q)
  BY <1>1 DEF FC!FCReceive, FC!ReceiveStatus, FC!ReceiveObject, FC!ReceiveAck, FC!ReceiveMeta
<1>3. session = [SessionID |-> session.SessionID, NumberOfObjects |-> session.NumberOfObjects,
                 ObjectID |-> session.ObjectID]
  BY DEF SessionData
<1> QED
  BY <1>2, <1>3 DEF FC!ReceiveRequest, FC!fcVars, FC!NewPacket, SessionManaging, NewPacket

LEMMA ObjectEffect ==
  ASSUME Transfer, NEW sid, NEW i, Head(fcIn) = CreateSessionManagingPacket(sid, i)
  PROVE  LET n == IF sid = 0 THEN Len(scenario.objects) ELSE 0
             o == IF sid = 0 THEN 0
                  ELSE IF i < Len(scenario.objects) THEN scenario.objects[i + 1] ELSE 0
         IN  /\ session' = [SessionID |-> sid, NumberOfObjects |-> n, ObjectID |-> o]
             /\ authIn' = authIn \o <<SessionManaging("ObjectCmdWithAck", sid, n, o)>>
             /\ UNCHANGED <<status, gcsStatus>>
<1> DEFINE q == Head(fcIn)
<1>1. /\ FC!FCReceive(q) /\ q.def = "SessionManaging" /\ q.cmd = "ObjectCmd"
      /\ q.data.SessionID = sid /\ q.data.ObjectOfInterestIndex = i
  BY DEF Transfer, CreateSessionManagingPacket, NewPacket
<1> HIDE DEF q
<1>2. FC!ReceiveObject(q)
  BY <1>1 DEF FC!FCReceive, FC!ReceiveStatus, FC!ReceiveRequest, FC!ReceiveAck, FC!ReceiveMeta
<1>3. CASE sid = 0
  BY <1>1, <1>2, <1>3 DEF FC!ReceiveObject, FC!Answer, FC!NoSession, FC!NewPacket,
       SessionManaging, NewPacket
<1>4. CASE sid # 0
  BY <1>1, <1>2, <1>4 DEF FC!ReceiveObject, FC!Answer, FC!Lookup, FC!NoSession, FC!NewPacket,
       SessionManaging, NewPacket
<1> QED
  BY <1>3, <1>4

LEMMA TickSystem ==
  ASSUME Common, FirstPhase \/ LaterPhase, FlightTick
  PROVE  Common' /\ (FirstPhase \/ LaterPhase)'
<1> DEFINE k == Following(status, gcsStatus)
           x == FlightTelemetryStats("ObjectCmd", k)
<1>1. /\ status' = k /\ authIn' = Append(authIn, x)
      /\ UNCHANGED <<gcsStatus, session, fcIn, scenario, faults>> /\ UNCHANGED bridgeOnly
  BY TickEffect
<1>2. /\ UNCHANGED <<connected, sessionID, currentObjectID, numberOfObjects, pc, objectID, out,
                     publishers, published, activeDefinitions>>
      /\ Pending' = Pending
  BY <1>1, BridgeOnly
<1>3. /\ authIn \in Seq(FromFlightController) /\ fcIn \in Seq(ToFlightController)
      /\ connected \in BOOLEAN /\ Shaken(fcIn, Pending, authIn, status, gcsStatus)
  BY DEF Common, TypeInv, TypeOK
<1>4. k \in {"Disconnected", "HandshakeAck", "Connected"}
  BY <1>3 DEF Shaken, Following
<1>5. Kind(x) = k /\ x \in Ticks /\ x \in FromFlightController
  BY <1>4, KindOf, LinkTypes DEF Ticks, Statuses
<1>6. Shaken(fcIn, Pending, Append(authIn, x), k, gcsStatus)
  BY <1>3, <1>5, ShakenTick
<1>7. TypeInv'
  <2>1. Append(authIn, x) \in Seq(FromFlightController)
    BY <1>3, <1>5
  <2> QED
    BY <1>1, <1>3, <2>1, LinkType DEF Common
<1> HIDE DEF k, x
<1>8. Common'
  BY <1>1, <1>2, <1>6, <1>7 DEF Common
<1>9. CASE FirstPhase
  <2>1. authIn' \in Seq(FirstFrom(Len(scenario.objects)))
    BY <1>1, <1>5, <1>9 DEF FirstPhase, FirstFrom
  <2>2. Stage(fcIn, Pending, Append(authIn, x), k, gcsStatus, connected)
    <3>1. Stage(fcIn, Pending, authIn, status, gcsStatus, connected)
      BY <1>9 DEF FirstPhase
    <3> QED
      BY <1>3, <1>5, <3>1, StageTick DEF k
  <2>3. FirstPhase'
    BY <1>1, <1>2, <1>9, <2>1, <2>2 DEF FirstPhase
  <2> QED
    BY <1>8, <2>3
<1>10. CASE LaterPhase
  <2>1. authIn' \in Seq(LaterFrom(sessionID, scenario.objects[currentObjectID]))
    BY <1>1, <1>5, <1>10 DEF LaterPhase, LaterFrom
  <2>2. Kind(x) \notin Tokens /\ Kind(x) \notin Queries
    BY <1>4, <1>5, KindSets
  <2>3. /\ \A X : Somewhere(X, fcIn, Pending, authIn') <=> Somewhere(X, fcIn, Pending, authIn) \/ Kind(x) \in X
        /\ \A X, Y : NeverAhead(X, Y, fcIn, Pending, authIn')
              <=> NeverAhead(X, Y, fcIn, Pending, authIn)
                    /\ ~(Somewhere(X, fcIn, Pending, authIn) /\ Kind(x) \in Y)
    BY <1>1, <1>3, RingAppend
  <2>4. SameSession'
    BY <1>1, <1>2, <1>10, <2>2, <2>3 DEF LaterPhase, SameSession
  <2>5. Enumerating => Enumerating'
    BY <1>1, <1>2, <2>2, <2>3 DEF Enumerating
  <2>6. Publishing => Publishing'
    BY <1>1, <1>2, <2>2, <2>3 DEF Publishing, Available
  <2>7. LaterPhase'
    BY <1>1, <1>2, <1>10, <2>1, <2>4, <2>5, <2>6 DEF LaterPhase
  <2> QED
    BY <1>8, <2>7
<1> QED
  BY <1>9, <1>10

LEMMA TimeoutSystem ==
  ASSUME Common, FirstPhase \/ LaterPhase, TimeoutFault
  PROVE  Common' /\ (FirstPhase \/ LaterPhase)'
<1>1. /\ status' = "Disconnected" /\ UNCHANGED bridgeOnly
      /\ UNCHANGED <<gcsStatus, session, authIn, fcIn, scenario>>
      /\ faults' = [faults EXCEPT !["timeout"] = @ - 1]
  BY DEF TimeoutFault, FC!Timeout, Fault
<1>2. /\ UNCHANGED <<connected, sessionID, currentObjectID, numberOfObjects, pc, objectID, out,
                     publishers, published, activeDefinitions>>
      /\ Pending' = Pending
  BY <1>1, BridgeOnly
<1>3. TypeInv'
  BY <1>1, LinkType DEF Common, TypeInv, TypeOK
<1>4. \A f \in FaultKinds : f # "timeout" => faults'[f] = 0
  <2>1. \A f \in FaultKinds : f # "timeout" => faults'[f] = faults[f]
    BY <1>1
  <2> QED
    BY <2>1 DEF Common
<1>5. connected \in BOOLEAN
  BY DEF Common, TypeInv, TypeOK
<1>6. Shaken(fcIn, Pending, authIn, "Disconnected", gcsStatus)
  BY ShakenTimeout DEF Common
<1>7. Common'
  BY <1>1, <1>2, <1>3, <1>4, <1>6 DEF Common
<1>8. CASE FirstPhase
  <2>1. Stage(fcIn, Pending, authIn, "Disconnected", gcsStatus, connected)
    <3>1. Stage(fcIn, Pending, authIn, status, gcsStatus, connected)
      BY <1>8 DEF FirstPhase
    <3> QED
      BY <1>5, <3>1, StageTimeout
  <2>2. FirstPhase'
    BY <1>1, <1>2, <1>8, <2>1 DEF FirstPhase
  <2> QED
    BY <1>7, <2>2
<1>9. CASE LaterPhase
  <2>1. SameSession'
    BY <1>1, <1>2, <1>9 DEF LaterPhase, SameSession
  <2>2. Enumerating => Enumerating'
    BY <1>1, <1>2 DEF Enumerating
  <2>3. Publishing => Publishing'
    BY <1>1, <1>2 DEF Publishing, Available
  <2>4. LaterPhase'
    BY <1>1, <1>2, <1>9, <2>1, <2>2, <2>3 DEF LaterPhase
  <2> QED
    BY <1>7, <2>4
<1> QED
  BY <1>8, <1>9

LEMMA FirstTransfer ==
  ASSUME scenario \in Scenarios, Common, FirstPhase, Transfer
  PROVE  Common' /\ FirstPhase'
<1> DEFINE q == Head(fcIn)
           t == Tail(fcIn)
           n == Len(scenario.objects)
           sent == SessionManaging("ObjectCmd", 0, session.NumberOfObjects, session.ObjectID)
           count == SessionManaging("ObjectCmdWithAck", 0, n, 0)
<1>1. /\ fcIn # <<>> /\ fcIn' = t /\ UNCHANGED bridgeOnly /\ UNCHANGED <<scenario, faults>>
      /\ q = AskConnection => gcsStatus' = "HandshakeReq" /\ UNCHANGED <<status, session, authIn>>
      /\ q = Confirm => gcsStatus' = "Connected" /\ UNCHANGED <<status, session, authIn>>
  BY SilentEffect
<1>2. /\ UNCHANGED <<connected, sessionID, currentObjectID, numberOfObjects, pc, objectID, out,
                     publishers, published, activeDefinitions>>
      /\ Pending' = Pending
  BY <1>1, BridgeOnly
<1>3. /\ authIn \in Seq(FromFlightController) /\ fcIn \in Seq(ToFlightController)
      /\ connected \in BOOLEAN /\ Shaken(fcIn, Pending, authIn, status, gcsStatus)
      /\ session \in SessionData
  BY DEF Common, TypeInv, TypeOK
<1>4. /\ fcIn \in Seq(FirstTo) /\ authIn \in Seq(FirstFrom(n)) /\ session.SessionID = 0
      /\ Stage(fcIn, Pending, authIn, status, gcsStatus, connected)
  BY DEF FirstPhase
<1>5. t \in Seq(FirstTo) /\ t \in Seq(ToFlightController) /\ q \in FirstTo
  BY <1>1, <1>3, <1>4, HeadTailProperties
<1>6. /\ Kind(q) \in {"askConnection", "confirm", "request", "open"}
      /\ Kind(q) = "askConnection" => q = AskConnection
      /\ Kind(q) = "confirm" => q = Confirm
      /\ Kind(q) = "request" => q = CreateSessionManagingRequest
      /\ Kind(q) = "open" => q = CreateSessionManagingPacket(0, 0)
  BY <1>5, FirstToKinds
<1>7. n \in UInt8 /\ 0 \in UInt8 /\ 0 \in SessionIDs
  BY ScenariosAssumption, PacketsAssumption DEF UInt8
<1>8. /\ sent \in FirstFrom(n) /\ sent \in FromFlightController /\ Kind(sent) = "unset"
      /\ count \in FirstFrom(n) /\ count \in FromFlightController /\ Kind(count) = "count"
  <2>1. session.NumberOfObjects \in UInt8 /\ session.ObjectID \in ObjectIDs \cup {0}
    BY <1>3 DEF SessionData
  <2> QED
    BY <1>7, <2>1, LinkTypes, KindOfSession DEF FirstFrom, DataCmds
<1>9. Shaken(t, Pending, authIn, status, Heard(Kind(q), gcsStatus))
  BY <1>1, <1>3, <1>6, ShakenTake
<1>10. ASSUME authIn' \in Seq(FirstFrom(n)), authIn' \in Seq(FromFlightController),
              session' \in SessionData, session'.SessionID = 0,
              Shaken(t, Pending, authIn', status', gcsStatus'),
              Stage(t, Pending, authIn', status', gcsStatus', connected)
       PROVE  Common' /\ FirstPhase'
  <2>1. TypeInv'
    BY <1>1, <1>5, <1>10, LinkType DEF Common
  <2> HIDE DEF t
  <2>2. Common'
    BY <1>1, <1>2, <1>10, <2>1 DEF Common
  <2>3. FirstPhase'
    BY <1>1, <1>2, <1>5, <1>10 DEF FirstPhase
  <2> QED
    BY <2>2, <2>3
<1>11. ASSUME Kind(q) \in {"askConnection", "confirm"}
       PROVE  Stage(t, Pending, authIn, status, Heard(Kind(q), gcsStatus), connected)
  BY <1>1, <1>3, <1>4, <1>11, StageTake
<1>12. ASSUME NEW y, Kind(y) \in {"unset", "count"}, Shaken(t, Pending, authIn, status, gcsStatus)
       PROVE  Shaken(t, Pending, Append(authIn, y), status, gcsStatus)
  <2>1. Kind(y) \notin Drops \cup Ups
    BY <1>12, KindSets
  <2> QED
    BY <1>3, <1>12, <2>1, ShakenEmit
<1>13. CASE Kind(q) \in {"askConnection", "confirm"}
  <2>1. gcsStatus' = Heard(Kind(q), gcsStatus) /\ UNCHANGED <<status, session, authIn>>
    BY <1>1, <1>6, <1>13 DEF Heard
  <2> HIDE DEF q, t
  <2> QED
    BY <1>3, <1>4, <1>9, <1>10, <1>11, <1>13, <2>1
<1>14. CASE Kind(q) = "request"
  <2>1. authIn' = Append(authIn, sent) /\ UNCHANGED <<status, gcsStatus, session>>
    BY <1>3, <1>4, <1>6, <1>14, RequestEffect
  <2>2. Stage(t, Pending, Append(authIn, sent), status, gcsStatus, connected)
    BY <1>1, <1>3, <1>4, <1>8, <1>14, StageRequest
  <2>3. Heard(Kind(q), gcsStatus) = gcsStatus
    BY <1>14 DEF Heard
  <2> HIDE DEF q, t, sent
  <2>4. Shaken(t, Pending, Append(authIn, sent), status, gcsStatus)
    BY <1>8, <1>9, <1>12, <2>3
  <2>5. Append(authIn, sent) \in Seq(FirstFrom(n)) /\ Append(authIn, sent) \in Seq(FromFlightController)
    BY <1>3, <1>4, <1>8
  <2> QED
    BY <1>3, <1>4, <1>10, <2>1, <2>2, <2>4, <2>5
<1>15. CASE Kind(q) = "open"
  <2>1. /\ session' = [SessionID |-> 0, NumberOfObjects |-> n, ObjectID |-> 0]
        /\ authIn' = authIn \o <<count>> /\ UNCHANGED <<status, gcsStatus>>
    BY <1>6, <1>15, ObjectEffect
  <2>2. session' \in SessionData /\ session'.SessionID = 0
    BY <1>7, <2>1 DEF SessionData
  <2>3. Stage(t, Pending, Append(authIn, count), status, gcsStatus, connected)
    BY <1>1, <1>3, <1>4, <1>8, <1>15, StageOpen
  <2>4. Heard(Kind(q), gcsStatus) = gcsStatus
    BY <1>15 DEF Heard
  <2> HIDE DEF q, t, count
  <2>5. Shaken(t, Pending, Append(authIn, count), status, gcsStatus)
    BY <1>8, <1>9, <1>12, <2>4
  <2>6. /\ Append(authIn, count) \in Seq(FirstFrom(n))
        /\ Append(authIn, count) \in Seq(FromFlightController)
        /\ authIn \o <<count>> = Append(authIn, count)
    BY <1>3, <1>4, <1>8
  <2> QED
    BY <1>10, <2>1, <2>2, <2>3, <2>5, <2>6
<1> QED
  BY <1>6, <1>13, <1>14, <1>15

\* A packet that is no query is taken, and perhaps answered with no token.
LEMMA TokenTake ==
  ASSUME NEW U, NEW f \in Seq(U), f # <<>>, NEW m, NEW V, NEW a \in Seq(V), NEW b,
         Kind(Head(f)) \notin Tokens,
         \/ b = a
         \/ \E y : Kind(y) \notin Tokens /\ b = Append(a, y)
  PROVE  /\ Somewhere(Tokens, Tail(f), m, b) <=> Somewhere(Tokens, f, m, a)
         /\ NeverAhead(Tokens, Tokens, f, m, a) => NeverAhead(Tokens, Tokens, Tail(f), m, b)
         /\ Somewhere(Queries, f, m, a) => Somewhere(Queries, Tail(f), m, b)
         /\ NeverAhead(Requests, Queries, f, m, a) => NeverAhead(Requests, Queries, Tail(f), m, b)
<1> DEFINE t == Tail(f)
<1>1. /\ \A X : Somewhere(X, f, m, a) <=> Kind(Head(f)) \in X \/ Somewhere(X, t, m, a)
      /\ \A X, Y : NeverAhead(X, Y, f, m, a)
              <=> NeverAhead(X, Y, t, m, a) /\ ~(Kind(Head(f)) \in X /\ Somewhere(Y, t, m, a))
  BY RingTail
<1> SUFFICES /\ Somewhere(Tokens, t, m, b) <=> Somewhere(Tokens, f, m, a)
             /\ NeverAhead(Tokens, Tokens, f, m, a) => NeverAhead(Tokens, Tokens, t, m, b)
             /\ Somewhere(Queries, f, m, a) => Somewhere(Queries, t, m, b)
             /\ NeverAhead(Requests, Queries, f, m, a) => NeverAhead(Requests, Queries, t, m, b)
  OBVIOUS
<1> HIDE DEF t
<1>2. Kind(Head(f)) \notin Queries
  BY KindSets
<1>3. CASE b = a
  BY <1>1, <1>2, <1>3
<1>4. ASSUME NEW y, Kind(y) \notin Tokens, b = Append(a, y)
      PROVE  /\ Somewhere(Tokens, t, m, b) <=> Somewhere(Tokens, f, m, a)
             /\ NeverAhead(Tokens, Tokens, f, m, a) => NeverAhead(Tokens, Tokens, t, m, b)
             /\ Somewhere(Queries, f, m, a) => Somewhere(Queries, t, m, b)
             /\ NeverAhead(Requests, Queries, f, m, a) => NeverAhead(Requests, Queries, t, m, b)
  <2>1. /\ \A X : Somewhere(X, t, m, b) <=> Somewhere(X, t, m, a) \/ Kind(y) \in X
        /\ \A X, Y : NeverAhead(X, Y, t, m, b)
              <=> NeverAhead(X, Y, t, m, a) /\ ~(Somewhere(X, t, m, a) /\ Kind(y) \in Y)
    BY <1>4, RingAppend
  <2>2. Kind(y) \notin Queries
    BY <1>4, KindSets
  <2> QED
    BY <1>1, <1>2, <1>4, <2>1, <2>2
<1> QED
  BY <1>3, <1>4

\* A query is taken and answered.
LEMMA QueryTake ==
  ASSUME NEW U, NEW f \in Seq(U), f # <<>>, NEW m, NEW V, NEW a \in Seq(V), NEW y,
         Kind(Head(f)) \in Tokens, Kind(y) \in Tokens
  PROVE  /\ Somewhere(Tokens, f, m, a) /\ Somewhere(Tokens, Tail(f), m, Append(a, y))
         /\ NeverAhead(Tokens, Tokens, f, m, a)
              => NeverAhead(Tokens, Tokens, Tail(f), m, Append(a, y))
<1>1. /\ \A X : Somewhere(X, f, m, a) <=> Kind(Head(f)) \in X \/ Somewhere(X, Tail(f), m, a)
      /\ \A X, Y : NeverAhead(X, Y, f, m, a)
              <=> NeverAhead(X, Y, Tail(f), m, a) /\ ~(Kind(Head(f)) \in X /\ Somewhere(Y, Tail(f), m, a))
  BY RingTail
<1>2. /\ \A X : Somewhere(X, Tail(f), m, Append(a, y)) <=> Somewhere(X, Tail(f), m, a) \/ Kind(y) \in X
      /\ \A X, Y : NeverAhead(X, Y, Tail(f), m, Append(a, y))
              <=> NeverAhead(X, Y, Tail(f), m, a) /\ ~(Somewhere(X, Tail(f), m, a) /\ Kind(y) \in Y)
  BY RingAppend
<1> QED
  BY <1>1, <1>2

LEMMA LaterTransfer ==
  ASSUME scenario \in Scenarios, Common, LaterPhase, Transfer
  PROVE  Common' /\ LaterPhase'
<1> DEFINE q == Head(fcIn)
           t == Tail(fcIn)
           c == currentObjectID
           obj == scenario.objects[c]
           To == LaterTo(sessionID, c - 1)
           From == LaterFrom(sessionID, obj)
           sent == SessionManaging("ObjectCmd", sessionID, 0, session.ObjectID)
           reply == SessionManaging("ObjectCmdWithAck", sessionID, 0, obj)
<1>1. /\ fcIn # <<>> /\ fcIn' = t /\ UNCHANGED bridgeOnly /\ UNCHANGED <<scenario, faults>>
      /\ q = AskConnection => gcsStatus' = "HandshakeReq" /\ UNCHANGED <<status, session, authIn>>
      /\ q = Confirm => gcsStatus' = "Connected" /\ UNCHANGED <<status, session, authIn>>
      /\ q = CreatePacketAck("SessionManaging") => UNCHANGED <<status, gcsStatus, session, authIn>>
      /\ q \in Setters => UNCHANGED <<status, gcsStatus, session, authIn>>
  BY SilentEffect
<1>2. /\ UNCHANGED <<connected, sessionID, currentObjectID, numberOfObjects, pc, objectID, out,
                     publishers, published, activeDefinitions>>
      /\ Pending' = Pending
  BY <1>1, BridgeOnly
<1>3. /\ authIn \in Seq(FromFlightController) /\ fcIn \in Seq(ToFlightController)
      /\ sessionID \in SessionIDs /\ Shaken(fcIn, Pending, authIn, status, gcsStatus)
      /\ session \in SessionData
  BY DEF Common, TypeInv, TypeOK
<1>4. /\ fcIn \in Seq(To) /\ authIn \in Seq(From) /\ sessionID # 0
      /\ c \in 1 .. Len(scenario.objects)
  BY DEF LaterPhase
<1>5. t \in Seq(To) /\ t \in Seq(ToFlightController) /\ q \in To
  BY <1>1, <1>3, <1>4, HeadTailProperties
<1>6. /\ Kind(q) \in {"askConnection", "confirm", "request", "ack", "query", "setter"}
      /\ Kind(q) = "askConnection" => q = AskConnection
      /\ Kind(q) = "confirm" => q = Confirm
      /\ Kind(q) = "request" => q = CreateSessionManagingRequest
      /\ Kind(q) = "ack" => q = CreatePacketAck("SessionManaging")
      /\ Kind(q) = "query" => q = CreateSessionManagingPacket(sessionID, c - 1)
      /\ Kind(q) = "setter" => q \in Setters
  BY <1>4, <1>5, LaterToKinds
<1>7. obj \in ObjectIDs /\ 0 \in UInt8 /\ session.ObjectID \in ObjectIDs \cup {0}
  <2>1. obj \in ObjectIDs
    BY <1>4, ScenariosAssumption, ElementOfSeq
  <2> QED
    BY <1>3, <2>1, PacketsAssumption DEF UInt8, SessionData
<1>8. /\ sent \in From /\ sent \in FromFlightController /\ Kind(sent) = "current"
      /\ reply \in From /\ reply \in FromFlightController /\ Kind(reply) = "reply"
  BY <1>3, <1>4, <1>7, LinkTypes, KindOfSession DEF LaterFrom, DataCmds
<1>9. Shaken(t, Pending, authIn, status, Heard(Kind(q), gcsStatus))
  BY <1>1, <1>3, <1>6, ShakenTake
<1>10. ASSUME authIn' \in Seq(From), authIn' \in Seq(FromFlightController),
              session' \in SessionData, SameSession', (Enumerating \/ Publishing)',
              Shaken(t, Pending, authIn', status', gcsStatus')
       PROVE  Common' /\ LaterPhase'
  <2>1. TypeInv'
    BY <1>1, <1>5, <1>10, LinkType DEF Common
  <2> HIDE DEF t
  <2>2. Common'
    BY <1>1, <1>2, <1>10, <2>1 DEF Common
  <2>3. LaterPhase'
    BY <1>1, <1>2, <1>5, <1>10 DEF LaterPhase
  <2> QED
    BY <2>2, <2>3
<1>11. ASSUME UNCHANGED session, Kind(q) \notin Tokens,
              \/ authIn' = authIn
              \/ \E y : Kind(y) \notin Tokens /\ authIn' = Append(authIn, y)
       PROVE  SameSession' /\ (Enumerating \/ Publishing)'
  <2>1. /\ Somewhere(Tokens, t, Pending, authIn') <=> Somewhere(Tokens, fcIn, Pending, authIn)
        /\ NeverAhead(Tokens, Tokens, fcIn, Pending, authIn)
             => NeverAhead(Tokens, Tokens, t, Pending, authIn')
        /\ Somewhere(Queries, fcIn, Pending, authIn) => Somewhere(Queries, t, Pending, authIn')
        /\ NeverAhead(Requests, Queries, fcIn, Pending, authIn)
             => NeverAhead(Requests, Queries, t, Pending, authIn')
    BY <1>1, <1>3, <1>11, TokenTake
  <2> HIDE DEF q, t, From, To
  <2>2. SameSession'
    BY <1>1, <1>2, <1>11, <2>1 DEF LaterPhase, SameSession
  <2>3. Enumerating => Enumerating'
    BY <1>1, <1>2, <2>1 DEF Enumerating
  <2>4. Publishing => Publishing'
    BY <1>1, <1>2, <2>1 DEF Publishing, Available
  <2> QED
    BY <2>2, <2>3, <2>4 DEF LaterPhase
<1>12. Kind(q) # "query" => Kind(q) \notin Tokens /\ Kind(q) \notin Queries
  BY <1>6, KindSets
<1>13. CASE Kind(q) \notin {"request", "query"}
  <2>1. gcsStatus' = Heard(Kind(q), gcsStatus) /\ UNCHANGED <<status, session, authIn>>
    BY <1>1, <1>6, <1>13 DEF Heard
  <2> HIDE DEF q, t, From
  <2> QED
    BY <1>3, <1>4, <1>9, <1>10, <1>11, <1>12, <1>13, <2>1
<1>14. CASE Kind(q) = "request"
  <2>1. session.SessionID = sessionID /\ session.NumberOfObjects = 0
    <3>1. /\ Somewhere(Queries, fcIn, Pending, authIn)
               <=> Kind(q) \in Queries \/ Somewhere(Queries, t, Pending, authIn)
          /\ NeverAhead(Requests, Queries, fcIn, Pending, authIn)
               => ~(Kind(q) \in Requests /\ Somewhere(Queries, t, Pending, authIn))
      BY <1>1, <1>3, RingTail
    <3>2. Kind(q) \in Requests /\ Kind(q) \notin Queries
      BY <1>14, KindSets
    <3> QED
      BY <3>1, <3>2 DEF LaterPhase, SameSession
  <2>2. authIn' = Append(authIn, sent) /\ UNCHANGED <<status, gcsStatus, session>>
    BY <1>3, <1>6, <1>14, <2>1, RequestEffect
  <2>3. Heard(Kind(q), gcsStatus) = gcsStatus
    BY <1>14 DEF Heard
  <2>4. Kind(sent) \notin Drops \cup Ups /\ Kind(sent) \notin Tokens
    BY <1>8, KindSets
  <2> HIDE DEF q, t, sent, From
  <2>5. Shaken(t, Pending, Append(authIn, sent), status, gcsStatus)
    BY <1>3, <1>9, <2>3, <2>4, ShakenEmit
  <2>6. Append(authIn, sent) \in Seq(From) /\ Append(authIn, sent) \in Seq(FromFlightController)
    BY <1>3, <1>4, <1>8
  <2>7. SameSession' /\ (Enumerating \/ Publishing)'
    BY <1>11, <1>12, <1>14, <2>2, <2>4
  <2> QED
    BY <1>3, <1>10, <2>2, <2>5, <2>6, <2>7
<1>15. CASE Kind(q) = "query"
  <2>1. /\ c - 1 < Len(scenario.objects) /\ (c - 1) + 1 = c
    BY <1>4
  <2>2. /\ session' = [SessionID |-> sessionID, NumberOfObjects |-> 0, ObjectID |-> obj]
        /\ authIn' = authIn \o <<reply>> /\ UNCHANGED <<status, gcsStatus>>
    BY <1>4, <1>6, <1>15, <2>1, ObjectEffect
  <2>3. session' \in SessionData /\ SameSession'
    BY <1>2, <1>3, <1>7, <2>2 DEF SessionData, SameSession
  <2>4. Heard(Kind(q), gcsStatus) = gcsStatus
    BY <1>15 DEF Heard
  <2>5. Kind(reply) \notin Drops \cup Ups /\ Kind(reply) \in Tokens /\ Kind(q) \in Tokens
    BY <1>8, <1>15, KindSets
  <2>6. /\ Somewhere(Tokens, fcIn, Pending, authIn)
        /\ Somewhere(Tokens, t, Pending, Append(authIn, reply))
        /\ NeverAhead(Tokens, Tokens, fcIn, Pending, authIn)
             => NeverAhead(Tokens, Tokens, t, Pending, Append(authIn, reply))
    BY <1>1, <1>3, <2>5, QueryTake
  <2> HIDE DEF q, t, reply, From
  <2>7. Shaken(t, Pending, Append(authIn, reply), status, gcsStatus)
    BY <1>3, <1>9, <2>4, <2>5, ShakenEmit
  <2>8. /\ Append(authIn, reply) \in Seq(From) /\ Append(authIn, reply) \in Seq(FromFlightController)
        /\ authIn \o <<reply>> = Append(authIn, reply)
    BY <1>3, <1>4, <1>8
  <2>9. Enumerating'
    BY <1>1, <1>2, <2>2, <2>6, <2>8 DEF LaterPhase, Publishing, Enumerating
  <2> QED
    BY <1>10, <2>2, <2>3, <2>7, <2>8, <2>9
<1> QED
  BY <1>6, <1>13, <1>14, <1>15

-----------------------------------------------------------------------------
(***************************************************************************)
(* The theorem.                                                            *)
(***************************************************************************)
LEMMA InitSystem ==
  ASSUME BootStatuses = {"Disconnected"}, SystemInit
  PROVE  SystemInv
<1>1. /\ scenario \in Scenarios /\ faults = scenario.faults
      /\ status = "Disconnected" /\ gcsStatus = "Disconnected"
      /\ session = [SessionID |-> 0, NumberOfObjects |-> 0, ObjectID |-> 0]
  BY DEF SystemInit, FC!FCInit, FC!NoSession
<1>2. TypeInv
  BY InitTypeInv DEF SystemInit
<1>3. /\ pc = "idle" /\ out = <<>> /\ authIn = <<>> /\ fcIn = <<AskConnection>> /\ ~connected
      /\ currentObjectID = 0 /\ sessionID = 0 /\ publishers = <<>> /\ published = <<>>
      /\ activeDefinitions = <<>> /\ Pending = "nothing"
  BY DEF SystemInit, Init, AskConnection, Pending
<1>4. session \in SessionData
  BY <1>1, PacketsAssumption DEF SessionData, UInt8
<1>5. /\ \A X : Has(X, fcIn) <=> "askConnection" \in X
      /\ \A X, Y : NoneAhead(X, Y, fcIn)
      /\ \A X, Y : ~Has(X, authIn) /\ NoneAhead(X, Y, authIn)
  <2>1. Len(fcIn) = 1 /\ DOMAIN fcIn = 1 .. 1 /\ fcIn[1] = AskConnection
    BY <1>3
  <2>2. Kind(AskConnection) = "askConnection"
    BY KindOf DEF AskConnection
  <2>3. \A X : Has(X, fcIn) <=> "askConnection" \in X
    BY <2>1, <2>2 DEF Has
  <2>4. \A X, Y : NoneAhead(X, Y, fcIn)
    BY <2>1 DEF NoneAhead
  <2> QED
    BY <1>3, <2>3, <2>4, HasEmpty
<1>6. Shaken(fcIn, "nothing", authIn, "Disconnected", "Disconnected")
  <2>1. "nothing" \notin Drops /\ "nothing" \notin Ups
    BY KindSets
  <2>2. NeverAhead(Drops, Ups, fcIn, "nothing", authIn)
    BY <1>5, <2>1 DEF NeverAhead
  <2> QED
    BY <2>2 DEF Shaken
<1>7. Stage(fcIn, "nothing", authIn, "Disconnected", "Disconnected", connected)
  <2>1. NotReported(fcIn, "nothing", authIn, "Disconnected", connected)
    <3>1. /\ "nothing" \notin Reports /\ "nothing" \notin Requests /\ "nothing" \notin Openings
          /\ "nothing" \notin Counts
          /\ "askConnection" \notin Reports /\ "askConnection" \notin Requests
          /\ "askConnection" \notin Openings /\ "askConnection" \notin Counts
      BY KindSets
    <3> QED
      BY <1>3, <1>5, <3>1 DEF NotReported, Somewhere
  <2> QED
    BY <2>1 DEF Stage
<1>8. ASSUME Only({"timeout"}) PROVE Common /\ FirstPhase
  <2>1. \A f \in FaultKinds : f # "timeout" => faults[f] = 0
    BY <1>1, <1>8 DEF Only
  <2>2. Common
    BY <1>1, <1>2, <1>3, <1>4, <1>6, <2>1, PendingOut DEF Common
  <2>3. AskConnection \in FirstTo
    BY DEF FirstTo
  <2>4. fcIn \in Seq(FirstTo) /\ out \in Seq(FirstTo) /\ authIn \in Seq(FirstFrom(Len(scenario.objects)))
    BY <1>3, <2>3
  <2>5. FirstPhase
    BY <1>1, <1>3, <1>7, <2>4 DEF FirstPhase
  <2> QED
    BY <2>2, <2>5
<1> QED
  BY <1>1, <1>8 DEF SystemInv

LEMMA NextSystem ==
  ASSUME 0 \notin TimeIDs, SystemInv, [SystemNext]_systemVars
  PROVE  SystemInv'
<1>1. scenario' = scenario
  BY DEF SystemNext, Bridge, Transfer, FlightTick, Faults, RetransmitFault, TimeoutFault,
         RebootFault, LossFault, RestartFault, Fault, systemVars
<1>2. Only({"timeout"})' <=> Only({"timeout"})
  BY <1>1 DEF Only
<1> SUFFICES ASSUME Only({"timeout"}), scenario \in Scenarios, Common, FirstPhase \/ LaterPhase
             PROVE  Common' /\ (FirstPhase \/ LaterPhase)'
  BY <1>1, <1>2 DEF SystemInv
<1>3. CASE Bridge
  <2>1. UNCHANGED <<fcVars, scenario, faults>>
    BY <1>3 DEF Bridge
  <2>2. CASE Receive
    BY <2>1, <2>2, FirstReceive, LaterReceive
  <2>3. CASE SendOpen
    BY <2>1, <2>3, OpenSystem
  <2>4. CASE SendAck
    BY <2>1, <2>4, AckFirst, AckLater
  <2>5. CASE SendOut
    BY <2>1, <2>5, OutSystem
  <2>6. ASSUME NEW g \in DOMAIN publishers, Publish(g) PROVE Common' /\ (FirstPhase \/ LaterPhase)'
    BY <2>1, <2>6, PublishSystem
  <2> QED
    BY <1>3, <2>2, <2>3, <2>4, <2>5, <2>6 DEF Bridge, AuthStep
<1>4. CASE Transfer
  BY <1>4, FirstTransfer, LaterTransfer
<1>5. CASE FlightTick
  BY <1>5, TickSystem
<1>6. CASE TimeoutFault
  BY <1>6, TimeoutSystem
<1>7. CASE RetransmitFault \/ RebootFault \/ LossFault \/ RestartFault
  <2>1. \E f \in FaultKinds : f # "timeout" /\ faults[f] > 0
    BY <1>7 DEF RetransmitFault, RebootFault, LossFault, RestartFault, Fault, FaultKinds
  <2> QED
    BY <2>1 DEF Common
<1>8. CASE UNCHANGED systemVars
  <2>1. UNCHANGED <<fcIn, authIn, status, gcsStatus, session, unacked, scenario, faults,
                    connected, sessionID, currentObjectID, numberOfObjects, pc, objectID, out,
                    publishers, published, activeDefinitions>>
    BY <1>8 DEF systemVars, bridgeVars, vars, sessionVars, handlerVars, publisherVars, fcVars
  <2>2. Pending' = Pending
    BY <2>1 DEF Pending
  <2>3. TypeInv'
    BY <2>1, LinkType DEF Common, TypeInv, TypeOK, bridgeOnly, sessionVars, publisherVars
  <2>4. Common'
    BY <2>1, <2>2, <2>3 DEF Common
  <2>5. FirstPhase => FirstPhase'
    BY <2>1, <2>2 DEF FirstPhase
  <2>6. LaterPhase => LaterPhase'
    BY <2>1, <2>2 DEF LaterPhase, SameSession, Enumerating, Publishing, Available
  <2> QED
    BY <2>4, <2>5, <2>6
<1> QED
  BY <1>3, <1>4, <1>5, <1>6, <1>7, <1>8 DEF SystemNext, Faults

LEMMA SystemExact == SystemInv => EnumerationExact
<1> SUFFICES ASSUME scenario \in Scenarios, Common, FirstPhase \/ LaterPhase
             PROVE  /\ ~Panicked
                    /\ Len(publishers) <= 1
                    /\ publishers # <<>> => activeDefinitions = Available
                    /\ published = SubSeq(Available, 1, Len(published))
  BY DEF SystemInv, EnumerationExact
<1>1. Available \in Seq(Definitions)
  <2>1. scenario.objects \in Seq(ObjectIDs) /\ Len(scenario.objects) \in Nat
    BY ScenariosAssumption
  <2> QED
    BY <2>1, DefinitionsOfType DEF Available
<1>2. publishers \in Seq(Publishers) /\ published \in Seq(Definitions)
  BY DEF Common, TypeInv, TypeOK
<1>3. CASE publishers = <<>> /\ published = <<>>
  <2>1. SubSeq(Available, 1, 0) = <<>>
    BY <1>1
  <2> QED
    BY <1>3, <2>1 DEF Panicked
<1>4. CASE Publishing
  <2> DEFINE me == publishers[1]
  <2>1. /\ Len(publishers) = 1 /\ DOMAIN publishers = 1 .. 1 /\ me \in Publishers
        /\ activeDefinitions = Available
    <3>1. Len(publishers) = 1 /\ activeDefinitions = Available
      BY <1>4 DEF Publishing
    <3> QED
      BY <1>2, <3>1, ElementOfSeq
  <2>2. ~Panicked
    BY <1>4, <2>1 DEF Panicked, Publishing
  <2>3. me.todo \in Seq(Definitions) /\ me.pc \in {"pause", "setMeta", "sendMeta", "publish", "done", "panic"}
    BY <2>1 DEF Publishers
  <2>4. PICK rest \in Seq(Definitions) : published = <<>> \/ published \o rest = Available
    <3>1. CASE me.pc = "publish"
      BY <1>4, <2>3, <3>1 DEF Publishing
    <3>2. CASE me.pc = "done"
      <4>1. published \o <<>> = published /\ <<>> \in Seq(Definitions)
        BY <1>2
      <4> QED
        BY <1>4, <3>2, <4>1 DEF Publishing
    <3>3. CASE me.pc \in {"pause", "setMeta", "sendMeta"}
      BY <1>4, <2>3, <3>3 DEF Publishing
    <3> QED
      BY <1>4, <2>3, <3>1, <3>2, <3>3 DEF Publishing
  <2>5. CASE published = <<>>
    <3>1. SubSeq(Available, 1, 0) = <<>>
      BY <1>1
    <3> QED
      BY <2>1, <2>2, <2>5, <3>1
  <2>6. CASE published \o rest = Available
    <3>1. SubSeq(published \o rest, 1, Len(published)) = published
      BY <1>2
    <3> QED
      BY <2>1, <2>2, <2>6, <3>1
  <2> QED
    BY <2>4, <2>5, <2>6
<1> QED
  BY <1>3, <1>4 DEF FirstPhase, LaterPhase, Enumerating

\* While nothing is lost or sent twice and neither end restarts, one
\* goroutine publishes, it reads activeDefinitions when that holds the
\* definitions of all objects in table order and no handler is at a write to
\* it, and it declares them in that order, each once: for every object table,
\* every size of the channels, and any number of timeouts with the new
\* handshakes that follow them.  It needs what the bridge takes for granted:
\* a flight controller that has no connection when the bridge starts, and a
\* clock whose low 16 bits are not 0 (0 means that there is no session yet).
THEOREM EnumerationExactAlways ==
  ASSUME BootStatuses = {"Disconnected"}, 0 \notin TimeIDs
  PROVE  SystemSpec => []EnumerationExact
<1>1. SystemInit => SystemInv
  BY InitSystem
<1>2. SystemInv /\ [SystemNext]_systemVars => SystemInv'
  BY NextSystem
<1> QED
  BY <1>1, <1>2, SystemExact, PTL DEF SystemSpec
=============================================================================
