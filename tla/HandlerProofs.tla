--------------------------- MODULE HandlerProofs ---------------------------
(***************************************************************************)
(* The inductive invariant of SessionSystem, and that the bridge preserves *)
(* it: the handlers of auth, the goroutine that sends and the publishers.  *)
(* LinkProofs has the argument about the packets between the two ends;     *)
(* here it is combined with the state of the bridge.  SystemProofs adds    *)
(* the flight controller.                                                  *)
(***************************************************************************)
EXTENDS SessionSystem, LinkProofs, WellFoundedInduction

-----------------------------------------------------------------------------
(***************************************************************************)
(* The definitions of an object table.  A recursive function on 0 .. n is  *)
(* the function its equations describe because there is one: if not, take  *)
(* the least n for which there is none.                                    *)
(***************************************************************************)
LEMMA LeastElement ==
  ASSUME NEW T \in SUBSET Nat, T # {}
  PROVE  \E n \in T : \A m \in T : n <= m
<1>1. IsWellFoundedOn(OpToRel(<, Nat), Nat)
  BY NatLessThanWellFounded
<1>2. PICK n \in T : \A m \in T : ~(<<m, n>> \in OpToRel(<, Nat))
  BY <1>1, WFMin
<1>3. \A m \in T : m < n => <<m, n>> \in OpToRel(<, Nat)
  BY DEF OpToRel
<1>4. \A m \in T : ~(m < n)
  BY <1>2, <1>3
<1>5. \A m \in T : m \in Nat /\ n \in Nat
  OBVIOUS
<1> QED
  BY <1>4, <1>5

Lists(objs, n, f) ==
  f = [i \in 0 .. n |-> IF i = 0 THEN <<>>
                        ELSE IF objs[i] \in Definitions THEN Append(f[i - 1], objs[i])
                        ELSE f[i - 1]]

LEMMA ListsExists ==
  ASSUME NEW objs
  PROVE  \A n \in Nat : \E f : Lists(objs, n, f)
<1> DEFINE T == {n \in Nat : ~\E f : Lists(objs, n, f)}
<1> SUFFICES ASSUME T # {} PROVE FALSE
  OBVIOUS
<1>1. PICK m \in T : \A n \in T : m <= n
  BY LeastElement
<1>2. m \in Nat /\ ~\E f : Lists(objs, m, f)
  OBVIOUS
<1>3. CASE m = 0
  <2> DEFINE f == [i \in 0 .. 0 |-> <<>>]
  <2>1. f = [i \in 0 .. 0 |-> IF i = 0 THEN <<>>
                              ELSE IF objs[i] \in Definitions THEN Append(f[i - 1], objs[i])
                              ELSE f[i - 1]]
    OBVIOUS
  <2>2. Lists(objs, m, f)
    BY <1>3, <2>1 DEF Lists
  <2> QED
    BY <1>2, <2>2
<1>4. CASE m # 0
  <2>1. m - 1 \in Nat /\ m - 1 \notin T
    BY <1>1, <1>2, <1>4
  <2>2. PICK f : Lists(objs, m - 1, f)
    BY <2>1
  <2> DEFINE last == IF objs[m] \in Definitions THEN Append(f[m - 1], objs[m]) ELSE f[m - 1]
             g == [i \in 0 .. m |-> IF i = m THEN last ELSE f[i]]
             h == [i \in 0 .. m |-> IF i = 0 THEN <<>>
                                    ELSE IF objs[i] \in Definitions THEN Append(g[i - 1], objs[i])
                                    ELSE g[i - 1]]
  <2>3. /\ \A i \in 0 .. m : i # m => g[i] = f[i]
        /\ g[m] = last
    BY <1>2
  <2>4. ASSUME NEW i \in 0 .. m
        PROVE  h[i] = IF i = 0 THEN <<>>
                      ELSE IF objs[i] \in Definitions THEN Append(g[i - 1], objs[i])
                      ELSE g[i - 1]
    OBVIOUS
  <2>5. ASSUME NEW i \in 0 .. m - 1
        PROVE  f[i] = IF i = 0 THEN <<>>
                      ELSE IF objs[i] \in Definitions THEN Append(f[i - 1], objs[i])
                      ELSE f[i - 1]
    BY <2>2 DEF Lists
  <2>6. g = [i \in 0 .. m |-> g[i]] /\ h = [i \in 0 .. m |-> h[i]]
    OBVIOUS
  <2> SUFFICES ASSUME NEW i \in 0 .. m PROVE g[i] = h[i]
    <3>1. g = h
      BY <2>6
    <3>2. Lists(objs, m, g)
      BY <3>1 DEF Lists
    <3> QED
      BY <1>2, <3>2
  <2> HIDE DEF g, h, last
  <2>7. CASE i = 0
    BY <1>2, <1>4, <2>3, <2>4, <2>5, <2>7
  <2>8. CASE i = m
    <3>1. g[i - 1] = f[i - 1]
      BY <1>2, <1>4, <2>3, <2>8
    <3> QED
      BY <1>2, <1>4, <2>3, <2>4, <2>8, <3>1 DEF last
  <2>9. CASE i # 0 /\ i # m
    <3>1. i \in 0 .. m - 1 /\ i - 1 \in 0 .. m /\ i - 1 # m
      BY <1>2, <2>9
    <3>2. g[i] = f[i] /\ g[i - 1] = f[i - 1]
      BY <2>3, <2>9, <3>1
    <3> QED
      BY <2>4, <2>5, <2>9, <3>1, <3>2
  <2> QED
    BY <2>7, <2>8, <2>9
<1> QED
  BY <1>3, <1>4

LEMMA DefinitionsOfSteps ==
  ASSUME NEW objs \in Seq(ObjectIDs)
  PROVE  /\ DefinitionsOf(objs)[0] = <<>>
         /\ \A i \in 1 .. Len(objs) :
              DefinitionsOf(objs)[i] = IF objs[i] \in Definitions
                                       THEN Append(DefinitionsOf(objs)[i - 1], objs[i])
                                       ELSE DefinitionsOf(objs)[i - 1]
<1> DEFINE d == DefinitionsOf(objs)
           n == Len(objs)
<1>1. n \in Nat
  OBVIOUS
<1>2. d = CHOOSE f : Lists(objs, n, f)
  BY DEF DefinitionsOf, Lists
<1>3. Lists(objs, n, d)
  BY <1>1, <1>2, ListsExists
<1>4. d = [i \in 0 .. n |-> IF i = 0 THEN <<>>
                            ELSE IF objs[i] \in Definitions THEN Append(d[i - 1], objs[i])
                            ELSE d[i - 1]]
  BY <1>3 DEF Lists
<1> HIDE DEF d, n
<1>5. \A i \in 0 .. n : d[i] = IF i = 0 THEN <<>>
                               ELSE IF objs[i] \in Definitions THEN Append(d[i - 1], objs[i])
                               ELSE d[i - 1]
  BY <1>4
<1>6. d[0] = <<>>
  BY <1>1, <1>5
<1>7. ASSUME NEW i \in 1 .. n
      PROVE  d[i] = IF objs[i] \in Definitions THEN Append(d[i - 1], objs[i]) ELSE d[i - 1]
  BY <1>1, <1>5
<1> QED
  BY <1>6, <1>7 DEF d, n

LEMMA DefinitionsOfType ==
  ASSUME NEW objs \in Seq(ObjectIDs)
  PROVE  \A i \in 0 .. Len(objs) : DefinitionsOf(objs)[i] \in Seq(Definitions)
<1> DEFINE d == DefinitionsOf(objs)
           n == Len(objs)
           T == {i \in 0 .. n : d[i] \notin Seq(Definitions)}
<1>1. /\ n \in Nat
      /\ d[0] = <<>>
      /\ \A i \in 1 .. n :
           d[i] = IF objs[i] \in Definitions THEN Append(d[i - 1], objs[i]) ELSE d[i - 1]
  BY DefinitionsOfSteps
<1> SUFFICES ASSUME T # {} PROVE FALSE
  OBVIOUS
<1> HIDE DEF d, n
<1>2. PICK m \in T : \A i \in T : m <= i
  <2>1. T \in SUBSET Nat
    BY <1>1
  <2> HIDE DEF T
  <2> QED
    BY <2>1, LeastElement
<1>3. m \in 0 .. n /\ d[m] \notin Seq(Definitions)
  OBVIOUS
<1>4. <<>> \in Seq(Definitions)
  OBVIOUS
<1>5. m # 0
  BY <1>1, <1>3, <1>4
<1>6. m \in 1 .. n /\ m - 1 \in 0 .. n /\ ~(m <= m - 1)
  BY <1>1, <1>3, <1>5
<1>7. d[m - 1] \in Seq(Definitions)
  BY <1>2, <1>6
<1>8. objs[m] \in Definitions => Append(d[m - 1], objs[m]) \in Seq(Definitions)
  BY <1>7
<1> QED
  BY <1>1, <1>3, <1>6, <1>7, <1>8

-----------------------------------------------------------------------------
(***************************************************************************)
(* The invariant: what the handler is about to send, the state before the  *)
(* bridge has its session, and the state after.                            *)
(***************************************************************************)
Pending ==
  IF pc = "open" THEN "open"
  ELSE IF pc = "ack" THEN IF currentObjectID = 0 THEN "count" ELSE "reply"
  ELSE IF out = <<>> THEN "nothing" ELSE Kind(Head(out))

Common ==
  /\ TypeInv
  /\ pc # "idle" => out = <<>>
  /\ Len(out) <= 1
  /\ session \in SessionData
  /\ \A f \in FaultKinds : f # "timeout" => faults[f] = 0
  /\ Shaken(fcIn, Pending, authIn, status, gcsStatus)

FirstPhase ==
  /\ currentObjectID = 0 /\ sessionID = 0 /\ session.SessionID = 0
  /\ publishers = <<>> /\ published = <<>> /\ activeDefinitions = <<>>
  /\ fcIn \in Seq(FirstTo) /\ out \in Seq(FirstTo)
  /\ authIn \in Seq(FirstFrom(Len(scenario.objects)))
  /\ pc = "ack" => numberOfObjects = Len(scenario.objects) /\ objectID = 0
  /\ Stage(fcIn, Pending, authIn, status, gcsStatus, connected)

\* One query or reply is on its way; the definitions up to it are active.
Enumerating ==
  /\ publishers = <<>> /\ published = <<>>
  /\ Somewhere(Tokens, fcIn, Pending, authIn) /\ NeverAhead(Tokens, Tokens, fcIn, Pending, authIn)
  /\ activeDefinitions = DefinitionsOf(scenario.objects)[currentObjectID - 1]

\* None is: activeDefinitions changes no more, and one goroutine reads it.
Publishing ==
  /\ Len(publishers) = 1 /\ currentObjectID = Len(scenario.objects)
  /\ ~Somewhere(Tokens, fcIn, Pending, authIn)
  /\ activeDefinitions = Available
  /\ publishers[1].pc # "panic"
  /\ publishers[1].pc \in {"pause", "setMeta", "sendMeta"} => published = <<>>
  /\ publishers[1].pc = "publish" => published \o publishers[1].todo = Available
  /\ publishers[1].pc = "done" => published = Available

\* The flight controller's session is the bridge's from the first query on,
\* and no request for it is answered before that.
SameSession ==
  \/ session.SessionID = sessionID /\ session.NumberOfObjects = 0
  \/ /\ session.SessionID = 0
     /\ Somewhere(Queries, fcIn, Pending, authIn)
     /\ NeverAhead(Requests, Queries, fcIn, Pending, authIn)

LaterPhase ==
  /\ currentObjectID \in 1 .. Len(scenario.objects) /\ numberOfObjects = Len(scenario.objects)
  /\ sessionID # 0 /\ pc # "open"
  /\ fcIn \in Seq(LaterTo(sessionID, currentObjectID - 1))
  /\ out \in Seq(LaterTo(sessionID, currentObjectID - 1))
  /\ authIn \in Seq(LaterFrom(sessionID, scenario.objects[currentObjectID]))
  /\ pc = "ack" => objectID = scenario.objects[currentObjectID]
  /\ SameSession
  /\ Enumerating \/ Publishing

SystemInv ==
  /\ scenario \in Scenarios
  /\ Only({"timeout"}) => Common /\ (FirstPhase \/ LaterPhase)

-----------------------------------------------------------------------------
(***************************************************************************)
(* What the handlers do with each packet.                                  *)
(***************************************************************************)
LEMMA ReceiveFrame ==
  ASSUME Receive
  PROVE  /\ pc = "idle" /\ out = <<>> /\ authIn # <<>> /\ authIn' = Tail(authIn)
         /\ UNCHANGED <<publishers, published, activeDefinitions, fcIn, sessionID, currentObjectID>>
         /\ Pending = "nothing"
BY DEF Receive, ReceiveDisconnected, ReceiveHandshakeAck, ReceiveConnected, ReceiveSession,
       ReceiveReply, ReceiveOther, Take, Idle, publisherVars, sessionVars, Pending

LEMMA ReceiveTick ==
  ASSUME Receive, NEW s \in {"Disconnected", "HandshakeAck", "Connected"},
         Head(authIn) = FlightTelemetryStats("ObjectCmd", s)
  PROVE  /\ pc' = "idle" /\ numberOfObjects' = numberOfObjects /\ objectID' = objectID
         /\ s = "Disconnected" => ~connected' /\ out' = <<AskConnection>>
         /\ s = "HandshakeAck" => connected' = connected /\ out' = <<Confirm>>
         /\ s = "Connected" /\ ~connected => connected' /\ out' = <<CreateSessionManagingRequest>>
         /\ s = "Connected" /\ connected => connected' = connected /\ out' = <<>>
<1> DEFINE p == Head(authIn)
<1>1. /\ p.def = "FlightTelemetryStats" /\ p.cmd = "ObjectCmd" /\ p.data.Status = s
  BY DEF FlightTelemetryStats, NewPacket
<1>2. pc = "idle" /\ out = <<>>
  BY ReceiveFrame
<1> HIDE DEF p
<1>3. CASE ReceiveDisconnected(p)
  BY <1>1, <1>2, <1>3 DEF ReceiveDisconnected, HasStatus, AskConnection
<1>4. CASE ReceiveHandshakeAck(p)
  BY <1>1, <1>2, <1>4 DEF ReceiveHandshakeAck, HasStatus, Confirm, sessionVars
<1>5. CASE ReceiveConnected(p)
  BY <1>1, <1>2, <1>5 DEF ReceiveConnected, HasStatus
<1>6. CASE ReceiveSession(p) \/ ReceiveReply(p)
  BY <1>1, <1>6 DEF ReceiveSession, ReceiveReply, IsSession
<1>7. CASE ReceiveOther(p)
  BY <1>1, <1>2, <1>7 DEF ReceiveOther, HasStatus, DataCmds, sessionVars
<1> QED
  BY <1>3, <1>4, <1>5, <1>6, <1>7 DEF Receive, p

LEMMA ReceiveSessionCmd ==
  ASSUME Receive, NEW sid, NEW n, NEW o, Head(authIn) = SessionManaging("ObjectCmd", sid, n, o)
  PROVE  /\ numberOfObjects' = IF n # 0 THEN n ELSE numberOfObjects
         /\ pc' = IF sessionID # 0 /\ sessionID = sid THEN "idle" ELSE "open"
         /\ connected' = connected /\ objectID' = objectID /\ out' = <<>>
<1> DEFINE p == Head(authIn)
<1>1. /\ p.def = "SessionManaging" /\ p.cmd = "ObjectCmd" /\ p.data.SessionID = sid
      /\ p.data.NumberOfObjects = n
  BY DEF SessionManaging, NewPacket
<1>2. pc = "idle" /\ out = <<>>
  BY ReceiveFrame
<1> HIDE DEF p
<1>3. ReceiveSession(p)
  BY <1>1 DEF Receive, ReceiveDisconnected, ReceiveHandshakeAck, ReceiveConnected,
              ReceiveReply, ReceiveOther, HasStatus, IsSession, DataCmds, p
<1> QED
  BY <1>1, <1>2, <1>3 DEF ReceiveSession, NoteNumberOfObjects

LEMMA ReceiveReplyCmd ==
  ASSUME Receive, NEW sid, NEW n, NEW o,
         Head(authIn) = SessionManaging("ObjectCmdWithAck", sid, n, o)
  PROVE  /\ numberOfObjects' = IF n # 0 THEN n ELSE numberOfObjects
         /\ pc' = "ack" /\ objectID' = o /\ connected' = connected /\ out' = <<>>
<1> DEFINE p == Head(authIn)
<1>1. /\ p.def = "SessionManaging" /\ p.cmd = "ObjectCmdWithAck"
      /\ p.data.NumberOfObjects = n /\ p.data.ObjectID = o
  BY DEF SessionManaging, NewPacket
<1>2. pc = "idle" /\ out = <<>>
  BY ReceiveFrame
<1> HIDE DEF p
<1>3. ReceiveReply(p)
  BY <1>1 DEF Receive, ReceiveDisconnected, ReceiveHandshakeAck, ReceiveConnected,
              ReceiveSession, ReceiveOther, HasStatus, IsSession, DataCmds, p
<1> QED
  BY <1>1, <1>2, <1>3 DEF ReceiveReply, NoteNumberOfObjects

\* What an invocation leaves to send.
LEMMA PendingOut ==
  /\ \A q : Len(<<q>>) <= 1 /\ <<q>> # <<>> /\ Head(<<q>>) = q
  /\ Len(<<>>) <= 1
OBVIOUS

LEMMA FirstReceive ==
  ASSUME scenario \in Scenarios, Common, FirstPhase, Receive,
         UNCHANGED <<fcVars, scenario, faults>>
  PROVE  Common' /\ FirstPhase'
<1> DEFINE p == Head(authIn)
           n == Len(scenario.objects)
           t == Tail(authIn)
           Done(m) == /\ Shaken(fcIn, m, t, status, gcsStatus)
                      /\ Stage(fcIn, m, t, status, gcsStatus, connected')
                      /\ Pending' = m
           Shape == /\ pc' # "idle" => out' = <<>>
                    /\ Len(out') <= 1 /\ out' \in Seq(FirstTo)
                    /\ pc' = "ack" => numberOfObjects' = n /\ objectID' = 0
<1>1. /\ pc = "idle" /\ out = <<>> /\ authIn # <<>> /\ authIn' = t
      /\ UNCHANGED <<publishers, published, activeDefinitions, fcIn, sessionID, currentObjectID>>
      /\ Pending = "nothing"
  BY ReceiveFrame
<1>2. TypeInv'
  BY ReceiveType DEF Common
<1>3. authIn \in Seq(FirstFrom(n)) /\ p \in FirstFrom(n) /\ t \in Seq(FirstFrom(n))
  BY <1>1, HeadTailProperties DEF FirstPhase
<1>4. /\ Shaken(fcIn, "nothing", authIn, status, gcsStatus)
      /\ Stage(fcIn, "nothing", authIn, status, gcsStatus, connected)
      /\ connected \in BOOLEAN /\ connected' \in BOOLEAN
  BY <1>1, <1>2 DEF Common, FirstPhase, TypeInv, TypeOK
<1>5. ASSUME NEW m, Done(m), Shape
      PROVE  Common' /\ FirstPhase'
  BY <1>1, <1>2, <1>3, <1>5 DEF Common, FirstPhase, fcVars
<1>6. /\ AskConnection \in FirstTo /\ Confirm \in FirstTo
      /\ CreateSessionManagingRequest \in FirstTo
      /\ Kind(AskConnection) = "askConnection" /\ Kind(Confirm) = "confirm"
      /\ Kind(CreateSessionManagingRequest) = "request"
  BY KindOf DEF FirstTo, AskConnection, Confirm
<1>7. <<>> \in Seq(FirstTo) /\ \A q \in FirstTo : <<q>> \in Seq(FirstTo)
  OBVIOUS
<1>8. /\ Kind(p) \in {"Disconnected", "HandshakeAck", "Connected", "unset", "count"}
      /\ Kind(p) \in {"Disconnected", "HandshakeAck", "Connected"}
           => p = FlightTelemetryStats("ObjectCmd", Kind(p))
      /\ Kind(p) = "unset"
           => \E c \in UInt8, o \in ObjectIDs \cup {0} : p = SessionManaging("ObjectCmd", 0, c, o)
      /\ Kind(p) = "count" => p = SessionManaging("ObjectCmdWithAck", 0, n, 0)
  BY <1>3, FirstFromKinds
<1>9. sessionID = 0 /\ currentObjectID = 0 /\ currentObjectID' = 0
  BY <1>1 DEF FirstPhase
<1>10. n # 0
  BY ScenariosAssumption
<1>11. ASSUME NEW m, m \in Drops => Kind(p) \in Drops, m \in Ups => Kind(p) \in Ups
       PROVE  Shaken(fcIn, m, t, status, gcsStatus)
  BY <1>1, <1>3, <1>4, <1>11, ShakenReceive
<1>12. ~Has(Reports, fcIn)
  <2>1. \A q \in FirstTo : Kind(q) \notin Reports
    BY FirstToKinds, KindSets
  <2> QED
    BY <2>1, NoKind DEF FirstPhase
<1> HIDE DEF p, n, t
<1>13. CASE Kind(p) = "Disconnected"
  <2>1. pc' = "idle" /\ ~connected' /\ out' = <<AskConnection>>
    BY <1>8, <1>13, ReceiveTick DEF p
  <2>2. Pending' = "askConnection"
    BY <1>6, <2>1, PendingOut DEF Pending
  <2>3. Stage(fcIn, "askConnection", t, status, gcsStatus, connected')
    BY <1>1, <1>3, <1>4, <1>12, <1>13, <2>1, StageDisconnected DEF p, t
  <2>4. Shaken(fcIn, "askConnection", t, status, gcsStatus)
    BY <1>11, <1>13, KindSets
  <2> QED
    BY <1>5, <1>6, <1>7, <2>1, <2>2, <2>3, <2>4, PendingOut
<1>14. CASE Kind(p) = "HandshakeAck"
  <2>1. pc' = "idle" /\ connected' = connected /\ out' = <<Confirm>>
    BY <1>8, <1>14, ReceiveTick DEF p
  <2>2. Pending' = "confirm"
    BY <1>6, <2>1, PendingOut DEF Pending
  <2>3. Stage(fcIn, "confirm", t, status, gcsStatus, connected')
    BY <1>1, <1>3, <1>4, <1>14, <2>1, StageHandshakeAck DEF p, t
  <2>4. Shaken(fcIn, "confirm", t, status, gcsStatus)
    BY <1>11, <1>14, KindSets
  <2> QED
    BY <1>5, <1>6, <1>7, <2>1, <2>2, <2>3, <2>4, PendingOut
<1>15. CASE Kind(p) = "Connected" /\ ~connected
  <2>1. pc' = "idle" /\ connected' /\ out' = <<CreateSessionManagingRequest>>
    BY <1>8, <1>15, ReceiveTick DEF p
  <2>2. Pending' = "request"
    BY <1>6, <2>1, PendingOut DEF Pending
  <2>3. Stage(fcIn, "request", t, status, gcsStatus, connected')
    BY <1>1, <1>3, <1>4, <1>15, <2>1, StageReport DEF p, t
  <2>4. Shaken(fcIn, "request", t, status, gcsStatus)
    BY <1>11, KindSets
  <2> QED
    BY <1>5, <1>6, <1>7, <2>1, <2>2, <2>3, <2>4, PendingOut
<1>16. CASE Kind(p) = "Connected" /\ connected
  <2>1. pc' = "idle" /\ connected' = connected /\ out' = <<>>
    BY <1>8, <1>16, ReceiveTick DEF p
  <2>2. Pending' = "nothing"
    BY <2>1 DEF Pending
  <2>3. Stage(fcIn, "nothing", t, status, gcsStatus, connected')
    BY <1>1, <1>3, <1>4, <1>16, <2>1, StageConnected DEF p, t
  <2>4. Shaken(fcIn, "nothing", t, status, gcsStatus)
    BY <1>11, KindSets
  <2> QED
    BY <1>5, <1>7, <2>1, <2>2, <2>3, <2>4, PendingOut
<1>17. CASE Kind(p) = "unset"
  <2>1. pc' = "open" /\ connected' = connected /\ out' = <<>>
    BY <1>8, <1>9, <1>17, ReceiveSessionCmd DEF p
  <2>2. Pending' = "open"
    BY <2>1 DEF Pending
  <2>3. Stage(fcIn, "open", t, status, gcsStatus, connected')
    BY <1>1, <1>3, <1>4, <1>17, <2>1, StageSession DEF p, t
  <2>4. Shaken(fcIn, "open", t, status, gcsStatus)
    BY <1>11, KindSets
  <2> QED
    BY <1>5, <1>7, <2>1, <2>2, <2>3, <2>4, PendingOut
<1>18. CASE Kind(p) = "count"
  <2>1. /\ pc' = "ack" /\ objectID' = 0 /\ connected' = connected /\ out' = <<>>
        /\ numberOfObjects' = n
    BY <1>8, <1>10, <1>18, ReceiveReplyCmd DEF p
  <2>2. Pending' = "count"
    BY <1>9, <2>1 DEF Pending
  <2>3. Stage(fcIn, "count", t, status, gcsStatus, connected')
    BY <1>1, <1>3, <1>4, <1>18, <2>1, StageCount DEF p, t
  <2>4. Shaken(fcIn, "count", t, status, gcsStatus)
    BY <1>11, KindSets
  <2> QED
    BY <1>5, <1>7, <2>1, <2>2, <2>3, <2>4, PendingOut
<1> QED
  BY <1>8, <1>13, <1>14, <1>15, <1>16, <1>17, <1>18

LEMMA TokenReceive ==
  ASSUME NEW f, NEW U, NEW a \in Seq(U), a # <<>>, NEW n,
         n \in Tokens <=> Kind(Head(a)) \in Tokens
  PROVE  /\ Somewhere(Tokens, f, n, Tail(a)) <=> Somewhere(Tokens, f, "nothing", a)
         /\ NeverAhead(Tokens, Tokens, f, "nothing", a) => NeverAhead(Tokens, Tokens, f, n, Tail(a))
<1>1. "nothing" \notin Tokens
  BY KindSets
<1>2. /\ \A X : Has(X, a) <=> Kind(Head(a)) \in X \/ Has(X, Tail(a))
      /\ \A X, Y : NoneAhead(X, Y, a)
              <=> NoneAhead(X, Y, Tail(a)) /\ ~(Kind(Head(a)) \in X /\ Has(Y, Tail(a)))
  BY HasTail
<1> QED
  BY <1>1, <1>2 DEF Somewhere, NeverAhead

LEMMA QueryReceive ==
  ASSUME NEW f, NEW U, NEW a \in Seq(U), a # <<>>, ~Has(Queries, a), NEW n, n \notin Queries
  PROVE  /\ Somewhere(Queries, f, "nothing", a) => Somewhere(Queries, f, n, Tail(a))
         /\ NeverAhead(Requests, Queries, f, "nothing", a)
              => NeverAhead(Requests, Queries, f, n, Tail(a))
<1>1. "nothing" \notin Queries
  BY KindSets
<1>2. /\ \A X : Has(X, a) <=> Kind(Head(a)) \in X \/ Has(X, Tail(a))
      /\ \A X, Y : NoneAhead(X, Y, a)
              <=> NoneAhead(X, Y, Tail(a)) /\ ~(Kind(Head(a)) \in X /\ Has(Y, Tail(a)))
  BY HasTail
<1> QED
  BY <1>1, <1>2 DEF Somewhere, NeverAhead

LEMMA LaterReceive ==
  ASSUME scenario \in Scenarios, Common, LaterPhase, Receive,
         UNCHANGED <<fcVars, scenario, faults>>
  PROVE  Common' /\ LaterPhase'
<1> DEFINE p == Head(authIn)
           obj == scenario.objects[currentObjectID]
           To == LaterTo(sessionID, currentObjectID - 1)
           From == LaterFrom(sessionID, obj)
           t == Tail(authIn)
           Shape == /\ pc' # "idle" => out' = <<>>
                    /\ pc' # "open" /\ numberOfObjects' = numberOfObjects
                    /\ Len(out') <= 1 /\ out' \in Seq(To)
                    /\ pc' = "ack" => objectID' = obj
<1>1. /\ pc = "idle" /\ out = <<>> /\ authIn # <<>> /\ authIn' = t
      /\ UNCHANGED <<publishers, published, activeDefinitions, fcIn, sessionID, currentObjectID>>
      /\ Pending = "nothing"
  BY ReceiveFrame
<1>2. TypeInv'
  BY ReceiveType DEF Common
<1>3. authIn \in Seq(From) /\ p \in From /\ t \in Seq(From)
  BY <1>1, HeadTailProperties DEF LaterPhase
<1>4. connected \in BOOLEAN
  BY DEF Common, TypeInv, TypeOK
<1>5. sessionID # 0 /\ currentObjectID # 0
  BY DEF LaterPhase
<1>6. /\ Kind(p) \in {"Disconnected", "HandshakeAck", "Connected", "current", "reply"}
      /\ Kind(p) \in {"Disconnected", "HandshakeAck", "Connected"}
           => p = FlightTelemetryStats("ObjectCmd", Kind(p))
      /\ Kind(p) = "current"
           => \E o \in ObjectIDs \cup {0} : p = SessionManaging("ObjectCmd", sessionID, 0, o)
      /\ Kind(p) = "reply" => p = SessionManaging("ObjectCmdWithAck", sessionID, 0, obj)
  BY <1>3, <1>5, LaterFromKinds
<1>7. ~Has(Queries, authIn)
  <2>1. \A x \in From : Kind(x) \notin Queries
    BY <1>5, LaterFromKinds, KindSets
  <2> HIDE DEF From
  <2> QED
    BY <1>3, <2>1, NoKind
<1>8. ASSUME NEW m, Pending' = m, Shape, m \notin Queries, m \in Tokens <=> Kind(p) \in Tokens,
             m \in Drops => Kind(p) \in Drops, m \in Ups => Kind(p) \in Ups
      PROVE  Common' /\ LaterPhase'
  <2>1. Shaken(fcIn, m, t, status, gcsStatus)
    BY <1>1, <1>3, <1>8, ShakenReceive DEF Common
  <2>2. /\ Somewhere(Tokens, fcIn, m, t) <=> Somewhere(Tokens, fcIn, "nothing", authIn)
        /\ NeverAhead(Tokens, Tokens, fcIn, "nothing", authIn)
             => NeverAhead(Tokens, Tokens, fcIn, m, t)
    BY <1>1, <1>3, <1>8, TokenReceive
  <2>3. /\ Somewhere(Queries, fcIn, "nothing", authIn) => Somewhere(Queries, fcIn, m, t)
        /\ NeverAhead(Requests, Queries, fcIn, "nothing", authIn)
             => NeverAhead(Requests, Queries, fcIn, m, t)
    BY <1>1, <1>3, <1>7, <1>8, QueryReceive
  <2> HIDE DEF p, t
  <2>4. Common'
    BY <1>1, <1>2, <1>8, <2>1 DEF Common, fcVars
  <2>5. SameSession'
    BY <1>1, <1>8, <2>3 DEF LaterPhase, SameSession, fcVars
  <2>6. Enumerating => Enumerating'
    BY <1>1, <1>8, <2>2 DEF Enumerating
  <2>7. Publishing => Publishing'
    BY <1>1, <1>8, <2>2 DEF Publishing, Available
  <2> QED
    BY <1>1, <1>3, <1>8, <2>4, <2>5, <2>6, <2>7 DEF LaterPhase
<1>9. /\ AskConnection \in To /\ Confirm \in To
      /\ CreateSessionManagingRequest \in To
      /\ Kind(AskConnection) = "askConnection" /\ Kind(Confirm) = "confirm"
      /\ Kind(CreateSessionManagingRequest) = "request"
  BY KindOf DEF LaterTo, AskConnection, Confirm
<1>10. <<>> \in Seq(To) /\ \A q \in To : <<q>> \in Seq(To)
  OBVIOUS
<1>11. currentObjectID' # 0
  BY <1>1, <1>5
<1> HIDE DEF p, obj, t, To, From
<1>12. CASE Kind(p) = "Disconnected"
  <2>1. pc' = "idle" /\ numberOfObjects' = numberOfObjects /\ out' = <<AskConnection>>
    BY <1>6, <1>12, ReceiveTick DEF p
  <2>2. Pending' = "askConnection"
    BY <1>9, <2>1, PendingOut DEF Pending
  <2> QED
    BY <1>8, <1>9, <1>10, <1>12, <2>1, <2>2, PendingOut, KindSets
<1>13. CASE Kind(p) = "HandshakeAck"
  <2>1. pc' = "idle" /\ numberOfObjects' = numberOfObjects /\ out' = <<Confirm>>
    BY <1>6, <1>13, ReceiveTick DEF p
  <2>2. Pending' = "confirm"
    BY <1>9, <2>1, PendingOut DEF Pending
  <2> QED
    BY <1>8, <1>9, <1>10, <1>13, <2>1, <2>2, PendingOut, KindSets
<1>14. CASE Kind(p) = "Connected" /\ ~connected
  <2>1. /\ pc' = "idle" /\ numberOfObjects' = numberOfObjects
        /\ out' = <<CreateSessionManagingRequest>>
    BY <1>6, <1>14, ReceiveTick DEF p
  <2>2. Pending' = "request"
    BY <1>9, <2>1, PendingOut DEF Pending
  <2> QED
    BY <1>8, <1>9, <1>10, <1>14, <2>1, <2>2, PendingOut, KindSets
<1>15. CASE Kind(p) = "Connected" /\ connected
  <2>1. pc' = "idle" /\ numberOfObjects' = numberOfObjects /\ out' = <<>>
    BY <1>6, <1>15, ReceiveTick DEF p
  <2>2. Pending' = "nothing"
    BY <2>1 DEF Pending
  <2> QED
    BY <1>8, <1>10, <1>15, <2>1, <2>2, PendingOut, KindSets
<1>16. CASE Kind(p) = "current"
  <2>1. pc' = "idle" /\ numberOfObjects' = numberOfObjects /\ out' = <<>>
    BY <1>5, <1>6, <1>16, ReceiveSessionCmd DEF p
  <2>2. Pending' = "nothing"
    BY <2>1 DEF Pending
  <2> QED
    BY <1>8, <1>10, <1>16, <2>1, <2>2, PendingOut, KindSets
<1>17. CASE Kind(p) = "reply"
  <2>1. pc' = "ack" /\ numberOfObjects' = numberOfObjects /\ out' = <<>> /\ objectID' = obj
    BY <1>6, <1>17, ReceiveReplyCmd DEF p
  <2>2. Pending' = "reply"
    BY <1>11, <2>1 DEF Pending
  <2> QED
    BY <1>8, <1>10, <1>17, <2>1, <2>2, PendingOut, KindSets
<1> QED
  BY <1>4, <1>6, <1>12, <1>13, <1>14, <1>15, <1>16, <1>17

-----------------------------------------------------------------------------
(***************************************************************************)
(* The sends of the handlers.                                              *)
(***************************************************************************)

\* A send of what was pending, with nothing left to send.
LEMMA FirstSend ==
  ASSUME Common, FirstPhase, TypeInv', NEW x \in FirstTo, Kind(x) = Pending, pc # "ack",
         fcIn' = Append(fcIn, x), pc' = "idle", out' = <<>>,
         UNCHANGED <<sessionVars, authIn, objectID, publisherVars, activeDefinitions>>,
         UNCHANGED <<fcVars, scenario, faults>>
  PROVE  Common' /\ FirstPhase'
<1>1. fcIn \in Seq(FirstTo) /\ fcIn' \in Seq(FirstTo) /\ <<>> \in Seq(FirstTo)
  BY DEF FirstPhase
<1>2. Pending' = "nothing"
  BY DEF Pending
<1>3. Shaken(fcIn', "nothing", authIn, status, gcsStatus)
  BY <1>1, ShakenSend DEF Common
<1>4. Kind(x) # "count"
  BY FirstToKinds
<1>5. connected \in BOOLEAN
  BY DEF Common, TypeInv, TypeOK
<1>6. Stage(fcIn', "nothing", authIn, status, gcsStatus, connected)
  <2>1. Stage(fcIn, Kind(x), authIn, status, gcsStatus, connected)
    BY DEF FirstPhase
  <2> QED
    BY <1>1, <1>4, <1>5, <2>1, StageSend
<1>7. Common'
  BY <1>2, <1>3, PendingOut DEF Common, fcVars
<1>8. FirstPhase'
  BY <1>1, <1>2, <1>6 DEF FirstPhase, fcVars, sessionVars, publisherVars
<1> QED
  BY <1>7, <1>8

LEMMA LaterSend ==
  ASSUME Common, LaterPhase, TypeInv', NEW x \in LaterTo(sessionID, currentObjectID - 1),
         Kind(x) = Pending, fcIn' = Append(fcIn, x), pc' = "idle", out' = <<>>,
         UNCHANGED <<sessionVars, authIn, objectID, publisherVars, activeDefinitions>>,
         UNCHANGED <<fcVars, scenario, faults>>
  PROVE  Common' /\ LaterPhase'
<1> DEFINE To == LaterTo(sessionID, currentObjectID - 1)
<1>1. fcIn \in Seq(To) /\ fcIn' \in Seq(To) /\ <<>> \in Seq(To)
  BY DEF LaterPhase
<1> HIDE DEF To
<1>2. Pending' = "nothing"
  BY DEF Pending
<1>3. Shaken(fcIn', "nothing", authIn, status, gcsStatus)
  BY <1>1, ShakenSend DEF Common
<1>4. /\ \A X : "nothing" \notin X
            => (Somewhere(X, fcIn', "nothing", authIn) <=> Somewhere(X, fcIn, Pending, authIn))
      /\ \A X, Y : "nothing" \notin X /\ "nothing" \notin Y
            => (NeverAhead(X, Y, fcIn', "nothing", authIn) <=> NeverAhead(X, Y, fcIn, Pending, authIn))
  <2>1. /\ \A X : "nothing" \notin X
              => (Somewhere(X, fcIn', "nothing", authIn) <=> Somewhere(X, fcIn, Kind(x), authIn))
        /\ \A X, Y : "nothing" \notin X /\ "nothing" \notin Y
              => (NeverAhead(X, Y, fcIn', "nothing", authIn) <=> NeverAhead(X, Y, fcIn, Kind(x), authIn))
    BY <1>1, RingSend
  <2> QED
    BY <2>1
<1>5. "nothing" \notin Tokens /\ "nothing" \notin Queries /\ "nothing" \notin Requests
  BY KindSets
<1>6. Common'
  BY <1>2, <1>3, PendingOut DEF Common, fcVars
<1>7. SameSession'
  BY <1>2, <1>4, <1>5 DEF LaterPhase, SameSession, fcVars, sessionVars
<1>8. Enumerating => Enumerating'
  BY <1>2, <1>4, <1>5 DEF Enumerating, sessionVars, publisherVars
<1>9. Publishing => Publishing'
  BY <1>2, <1>4, <1>5 DEF Publishing, Available, sessionVars, publisherVars
<1> QED
  BY <1>1, <1>6, <1>7, <1>8, <1>9 DEF LaterPhase, sessionVars, To

LEMMA OpenSystem ==
  ASSUME Common, FirstPhase \/ LaterPhase, SendOpen, UNCHANGED <<fcVars, scenario, faults>>
  PROVE  Common' /\ (FirstPhase \/ LaterPhase)'
<1>1. FirstPhase
  BY DEF LaterPhase, SendOpen
<1> DEFINE x == CreateSessionManagingPacket(0, 0)
<1>2. x \in FirstTo /\ Kind(x) = "open"
  BY KindOfSession DEF FirstTo
<1>3. Pending = "open" /\ out = <<>> /\ activeDefinitions = <<>>
  BY <1>1 DEF Pending, SendOpen, Common, FirstPhase
<1>4. TypeInv'
  BY HandlerSendType DEF Common
<1> QED
  BY <1>1, <1>2, <1>3, <1>4, FirstSend DEF SendOpen, Send

LEMMA OutSystem ==
  ASSUME Common, FirstPhase \/ LaterPhase, SendOut, UNCHANGED <<fcVars, scenario, faults>>
  PROVE  Common' /\ (FirstPhase \/ LaterPhase)'
<1> DEFINE x == Head(out)
<1>1. pc = "idle" /\ pc' = "idle" /\ Pending = Kind(x)
  BY DEF Pending, SendOut, Common, TypeInv, TypeOK
<1>2. TypeInv'
  BY HandlerSendType DEF Common
<1>3. CASE FirstPhase
  <2>1. x \in FirstTo
    BY <1>3, HeadTailProperties DEF FirstPhase, SendOut
  <2> QED
    BY <1>1, <1>2, <1>3, <2>1, FirstSend DEF SendOut, Send
<1>4. CASE LaterPhase
  <2>1. x \in LaterTo(sessionID, currentObjectID - 1)
    BY <1>4, HeadTailProperties DEF LaterPhase, SendOut
  <2> QED
    BY <1>1, <1>2, <1>4, <2>1, LaterSend DEF SendOut, Send
<1> QED
  BY <1>3, <1>4

LEMMA LoneToken ==
  ASSUME NEW f, NEW a, ~Has(Tokens, f), ~Has(Tokens, a)
  PROVE  /\ Somewhere(Tokens, f, "query", a) /\ NeverAhead(Tokens, Tokens, f, "query", a)
         /\ Somewhere(Queries, f, "query", a)
         /\ ~Has(Requests, f) => NeverAhead(Requests, Queries, f, "query", a)
         /\ ~Somewhere(Tokens, f, "nothing", a)
<1>1. "query" \in Tokens /\ "query" \in Queries /\ "query" \notin Requests /\ "nothing" \notin Tokens
  BY KindSets
<1>2. ~Has(Queries, a) /\ ~Has(Queries, f)
  BY KindSets DEF Has
<1>3. /\ NoneAhead(Tokens, Tokens, f) /\ NoneAhead(Tokens, Tokens, a)
      /\ NoneAhead(Requests, Queries, f) /\ NoneAhead(Requests, Queries, a)
  BY <1>2 DEF Has, NoneAhead
<1> QED
  BY <1>1, <1>2, <1>3 DEF Somewhere, NeverAhead

\* The acknowledgement does not matter to the handshake.
LEMMA AckShaken ==
  ASSUME Common, NEW m, m \in {"query", "nothing"}
  PROVE  Shaken(Append(fcIn, CreatePacketAck("SessionManaging")), m, authIn, status, gcsStatus)
<1> DEFINE f == Append(fcIn, CreatePacketAck("SessionManaging"))
<1>1. fcIn \in Seq(ToFlightController) /\ Shaken(fcIn, Pending, authIn, status, gcsStatus)
  BY DEF Common, TypeInv, TypeOK
<1>2. Kind(CreatePacketAck("SessionManaging")) \notin Drops \cup Ups
  BY KindOf, KindSets
<1>3. Shaken(f, Pending, authIn, status, gcsStatus)
  BY <1>1, <1>2, ShakenInsert
<1>4. m \notin Drops \cup Ups
  BY KindSets
<1> HIDE DEF f
<1>5. Shaken(f, m, authIn, status, gcsStatus)
  BY <1>3, <1>4, ShakenPending
<1> QED
  BY <1>5 DEF f

\* The number of objects is acknowledged: the first query creates the session.
LEMMA AckFirst ==
  ASSUME scenario \in Scenarios, 0 \notin TimeIDs, Common, FirstPhase, SendAck,
         UNCHANGED <<fcVars, scenario, faults>>
  PROVE  Common' /\ LaterPhase'
<1> DEFINE ack == CreatePacketAck("SessionManaging")
           n == Len(scenario.objects)
           To == LaterTo(sessionID', 0)
           From == LaterFrom(sessionID', scenario.objects[1])
<1>1. /\ pc = "ack" /\ out = <<>> /\ numberOfObjects = n /\ objectID = 0 /\ currentObjectID = 0
      /\ Pending = "count" /\ n \in 1 .. UInt8Max /\ publishers = <<>> /\ published = <<>>
      /\ activeDefinitions = <<>> /\ session.SessionID = 0
      /\ scenario.objects \in Seq(ObjectIDs) /\ UInt8Max \in Nat \ {0}
  BY ScenariosAssumption, PacketsAssumption DEF SendAck, Common, FirstPhase, Pending
<1>2. AskNextObject
  BY <1>1 DEF SendAck, EnumerationDone
<1>3. /\ sessionID' \in TimeIDs /\ sessionID' # 0
      /\ out' = <<CreateSessionManagingPacket(sessionID', 0)>>
      /\ publishers' = <<>>
  BY <1>1, <1>2 DEF AskNextObject
<1>4. currentObjectID' = 1
  <2>1. 1 % (UInt8Max + 1) = 1
    BY <1>1
  <2> QED
    BY <1>1, <1>2, <2>1 DEF AskNextObject
<1>5. activeDefinitions' = <<>>
  <2>1. 0 \notin Definitions
    BY PacketsAssumption
  <2> QED
    BY <1>1, <2>1 DEF SendAck, NoteObject
<1>6. /\ pc' = "idle" /\ numberOfObjects' = n /\ authIn' = authIn /\ published' = <<>>
      /\ fcIn' = Append(fcIn, ack)
  BY <1>1 DEF SendAck, Send
<1>7. /\ ~Has(Requests, fcIn) /\ ~Has(Requests, authIn) /\ ~Has(Openings, fcIn)
      /\ ~Has(Openings, authIn) /\ ~Has(Counts, fcIn) /\ ~Has(Counts, authIn)
  <2>1. Stage(fcIn, "count", authIn, status, gcsStatus, connected)
    BY <1>1 DEF FirstPhase
  <2> QED
    BY <2>1, StageDone DEF Somewhere
<1> DEFINE X == {"request", "unset", "open", "count"}
<1>8. ~Has(X, fcIn) /\ ~Has(X, authIn)
  BY <1>7, KindSets DEF Has
<1>9. fcIn \in Seq(To)
  <2>1. \A x \in FirstTo : Kind(x) \notin X => x \in To
    BY FirstToKinds DEF LaterTo
  <2> HIDE DEF X, To
  <2> QED
    BY <1>8, <2>1, Narrow DEF FirstPhase
<1>10. authIn \in Seq(From)
  <2>1. \A x \in FirstFrom(n) : Kind(x) \notin X => x \in From
    BY FirstFromKinds DEF LaterFrom
  <2> HIDE DEF X, From
  <2> QED
    BY <1>8, <2>1, Narrow DEF FirstPhase
<1>11. ack \in To /\ CreateSessionManagingPacket(sessionID', 0) \in To
  BY DEF LaterTo
<1>12. ~Has(Tokens, fcIn) /\ ~Has(Tokens, authIn)
  <2>1. \A x \in FirstTo : Kind(x) \notin Tokens
    BY FirstToKinds, KindSets
  <2>2. \A x \in FirstFrom(n) : Kind(x) \notin Tokens
    BY FirstFromKinds, KindSets
  <2> QED
    BY <2>1, <2>2, NoKind DEF FirstPhase
<1>13. ~Has(Tokens, fcIn') /\ ~Has(Requests, fcIn')
  <2>1. Kind(ack) \notin Tokens /\ Kind(ack) \notin Requests
    BY KindOf, KindSets
  <2> HIDE DEF ack, To
  <2> QED
    BY <1>6, <1>7, <1>9, <1>12, <2>1, HasAppend
<1>14. Pending' = "query"
  BY <1>3, <1>6, KindOfSession, PendingOut DEF Pending
<1>15. /\ Somewhere(Tokens, fcIn', "query", authIn) /\ NeverAhead(Tokens, Tokens, fcIn', "query", authIn)
       /\ Somewhere(Queries, fcIn', "query", authIn)
       /\ NeverAhead(Requests, Queries, fcIn', "query", authIn)
  BY <1>12, <1>13, LoneToken
<1>16. Shaken(fcIn', "query", authIn, status, gcsStatus)
  BY <1>6, AckShaken
<1>17. TypeInv'
  BY HandlerSendType DEF Common
<1>18. fcIn' \in Seq(To) /\ out' \in Seq(To)
  <2> HIDE DEF To, ack
  <2> QED
    BY <1>3, <1>6, <1>9, <1>11
<1>19. Common'
  BY <1>3, <1>6, <1>14, <1>16, <1>17, PendingOut DEF Common, fcVars
<1>20. SameSession'
  BY <1>1, <1>6, <1>14, <1>15 DEF SameSession, fcVars
<1>21. Enumerating'
  <2>1. DefinitionsOf(scenario.objects)[0] = <<>>
    BY <1>1, DefinitionsOfSteps
  <2>2. DefinitionsOf(scenario'.objects)[currentObjectID' - 1] = <<>>
    BY <1>4, <2>1
  <2> QED
    BY <1>3, <1>5, <1>6, <1>14, <1>15, <2>2 DEF Enumerating
<1>22. LaterTo(sessionID', currentObjectID' - 1) = To /\ LaterFrom(sessionID', scenario'.objects[currentObjectID']) = From
  <2>1. currentObjectID' - 1 = 0
    BY <1>4
  <2> QED
    BY <1>4, <2>1
<1>23. 1 \in 1 .. n
  BY <1>1
<1> HIDE DEF To, From
<1> QED
  BY <1>3, <1>4, <1>6, <1>10, <1>18, <1>19, <1>20, <1>21, <1>22, <1>23 DEF LaterPhase

\* While a reply is pending there is no other query or reply.
LEMMA ReplyAlone ==
  ASSUME LaterPhase, Pending = "reply"
  PROVE  /\ Enumerating /\ ~Has(Tokens, fcIn) /\ ~Has(Tokens, authIn)
         /\ session.SessionID = sessionID /\ session.NumberOfObjects = 0
<1>1. "reply" \in Tokens /\ "reply" \notin Queries
  BY KindSets
<1>2. Enumerating
  BY <1>1 DEF LaterPhase, Publishing, Somewhere
<1>3. ~Has(Tokens, fcIn) /\ ~Has(Tokens, authIn)
  BY <1>1, <1>2 DEF Enumerating, NeverAhead
<1>4. ~Somewhere(Queries, fcIn, Pending, authIn)
  BY <1>1, <1>3, KindSets DEF Somewhere, Has
<1> QED
  BY <1>2, <1>3, <1>4 DEF LaterPhase, SameSession

LEMMA AckLater ==
  ASSUME scenario \in Scenarios, Common, LaterPhase, SendAck,
         UNCHANGED <<fcVars, scenario, faults>>
  PROVE  Common' /\ LaterPhase'
<1> DEFINE ack == CreatePacketAck("SessionManaging")
           n == Len(scenario.objects)
           c == currentObjectID
           d == DefinitionsOf(scenario.objects)
           To == LaterTo(sessionID, c - 1)
           From == LaterFrom(sessionID, scenario.objects[c])
<1>1. /\ pc = "ack" /\ out = <<>> /\ numberOfObjects = n /\ c \in 1 .. n
      /\ objectID = scenario.objects[c] /\ sessionID # 0
      /\ n \in 1 .. UInt8Max /\ UInt8Max \in Nat \ {0}
      /\ scenario.objects \in Seq(ObjectIDs)
      /\ fcIn \in Seq(To) /\ authIn \in Seq(From)
  BY ScenariosAssumption, PacketsAssumption DEF SendAck, Common, LaterPhase
<1>2. Pending = "reply"
  BY <1>1 DEF Pending
<1>3. /\ publishers = <<>> /\ published = <<>> /\ activeDefinitions = d[c - 1]
      /\ ~Has(Tokens, fcIn) /\ ~Has(Tokens, authIn)
      /\ session.SessionID = sessionID /\ session.NumberOfObjects = 0
  BY <1>2, ReplyAlone DEF Enumerating
<1>4. activeDefinitions' = d[c]
  <2>1. d[c] = IF scenario.objects[c] \in Definitions
               THEN Append(d[c - 1], scenario.objects[c]) ELSE d[c - 1]
    BY <1>1, DefinitionsOfSteps
  <2> HIDE DEF d
  <2> QED
    BY <1>1, <1>3, <2>1 DEF SendAck, NoteObject
<1>5. /\ pc' = "idle" /\ numberOfObjects' = n /\ authIn' = authIn /\ published' = <<>>
      /\ fcIn' = Append(fcIn, ack)
  BY <1>1, <1>3 DEF SendAck, Send
<1>6. TypeInv'
  BY HandlerSendType DEF Common
<1>7. ~Has(Tokens, fcIn')
  <2>1. Kind(ack) \notin Tokens
    BY KindOf, KindSets
  <2> HIDE DEF ack, To
  <2> QED
    BY <1>1, <1>3, <1>5, <2>1, HasAppend
<1>8. Shaken(fcIn', "query", authIn, status, gcsStatus) /\ Shaken(fcIn', "nothing", authIn, status, gcsStatus)
  BY <1>5, AckShaken
<1>9. /\ Somewhere(Tokens, fcIn', "query", authIn) /\ NeverAhead(Tokens, Tokens, fcIn', "query", authIn)
      /\ ~Somewhere(Tokens, fcIn', "nothing", authIn)
  BY <1>3, <1>7, LoneToken
<1>10. CASE AskNextObject
  <2> DEFINE ToNext == LaterTo(sessionID, c)
             FromNext == LaterFrom(sessionID, scenario.objects[c + 1])
             q == CreateSessionManagingPacket(sessionID, c)
  <2>1. c < n /\ sessionID' = sessionID /\ publishers' = <<>> /\ out' = <<q>>
    BY <1>1, <1>3, <1>10 DEF AskNextObject
  <2>2. currentObjectID' = c + 1
    <3>1. c + 1 \in Nat /\ UInt8Max + 1 \in Nat /\ c + 1 < UInt8Max + 1
      BY <1>1, <2>1
    <3>2. (c + 1) % (UInt8Max + 1) = c + 1
      <4> HIDE DEF c
      <4> QED
        BY <3>1, SMT
    <3> QED
      BY <1>10, <3>2 DEF AskNextObject
  <2>3. c + 1 \in 1 .. n /\ (c + 1) - 1 = c
    BY <1>1, <2>1
  <2>4. fcIn \in Seq(ToNext)
    <3>1. \A x \in To : Kind(x) \notin Tokens => x \in ToNext
      <4>1. Kind(CreateSessionManagingPacket(sessionID, c - 1)) \in Tokens
        BY <1>1, KindOfSession, KindSets
      <4> QED
        BY <4>1 DEF LaterTo
    <3> HIDE DEF To, ToNext
    <3> QED
      BY <1>1, <1>3, <3>1, Narrow
  <2>5. authIn \in Seq(FromNext)
    <3>1. \A x \in From : Kind(x) \notin Tokens => x \in FromNext
      <4>1. Kind(SessionManaging("ObjectCmdWithAck", sessionID, 0, scenario.objects[c])) \in Tokens
        BY <1>1, KindOfSession, KindSets
      <4> QED
        BY <4>1 DEF LaterFrom
    <3> HIDE DEF From, FromNext
    <3> QED
      BY <1>1, <1>3, <3>1, Narrow
  <2>6. ack \in ToNext /\ q \in ToNext
    BY DEF LaterTo
  <2>7. fcIn' \in Seq(ToNext) /\ out' \in Seq(ToNext)
    <3> HIDE DEF ToNext, ack, q
    <3> QED
      BY <1>5, <2>1, <2>4, <2>6
  <2>8. Pending' = "query"
    BY <1>1, <1>5, <2>1, KindOfSession, PendingOut DEF Pending
  <2>9. Common'
    BY <1>5, <1>6, <1>8, <2>1, <2>8, PendingOut DEF Common, fcVars
  <2>10. SameSession'
    BY <1>3, <2>1 DEF SameSession, fcVars
  <2>11. DefinitionsOf(scenario'.objects)[currentObjectID' - 1] = d[c]
    BY <2>2, <2>3
  <2>12. Enumerating'
    BY <1>4, <1>5, <1>9, <2>1, <2>8, <2>11 DEF Enumerating
  <2>13. /\ LaterTo(sessionID', currentObjectID' - 1) = ToNext
         /\ LaterFrom(sessionID', scenario'.objects[currentObjectID']) = FromNext
    BY <2>1, <2>2, <2>3
  <2> HIDE DEF ToNext, FromNext, d
  <2> QED
    BY <1>1, <1>5, <2>1, <2>2, <2>3, <2>5, <2>7, <2>9, <2>10, <2>12, <2>13 DEF LaterPhase
<1>11. CASE EnumerationDone
  <2> DEFINE r == [pc |-> "pause", todo |-> <<>>, modes |-> 0]
  <2>1. c = n /\ UNCHANGED <<sessionID, currentObjectID, out>> /\ publishers' = Append(<<>>, r)
    <3>1. /\ c >= n /\ UNCHANGED <<sessionID, currentObjectID, out>>
          /\ publishers' = Append(publishers, r)
      BY <1>1, <1>11 DEF EnumerationDone, StartPublisher
    <3>2. n \in Nat /\ c \in Nat /\ c <= n
      BY <1>1
    <3> HIDE DEF c, n, r
    <3> QED
      BY <1>3, <3>1, <3>2
  <2>2. Len(publishers') = 1 /\ publishers'[1] = r
    BY <2>1
  <2>3. Pending' = "nothing"
    BY <1>1, <1>5, <2>1 DEF Pending
  <2>4. Common'
    BY <1>1, <1>5, <1>6, <1>8, <2>1, <2>3, PendingOut DEF Common, fcVars
  <2>5. SameSession'
    BY <1>3, <2>1 DEF SameSession, fcVars
  <2>6. activeDefinitions' = Available'
    BY <1>4, <2>1 DEF Available
  <2>7. Publishing'
    <3>1. currentObjectID' = Len(scenario'.objects)
      BY <2>1
    <3>2. ~Somewhere(Tokens, fcIn, Pending, authIn)'
      BY <1>5, <1>9, <2>3
    <3>3. publishers'[1].pc = "pause" /\ published' = <<>>
      BY <1>5, <2>2
    <3> HIDE DEF d, c, n, r, To, From, ack
    <3> QED
      BY <2>2, <2>6, <3>1, <3>2, <3>3 DEF Publishing
  <2>8. fcIn' \in Seq(To) /\ out' \in Seq(To)
    <3>1. ack \in To
      BY DEF LaterTo
    <3>2. fcIn \in Seq(To) /\ fcIn' = Append(fcIn, ack) /\ out' = <<>>
      BY <1>1, <1>5, <2>1
    <3> HIDE DEF To, ack, c, n, d, From
    <3> QED
      BY <3>1, <3>2
  <2>9. /\ LaterTo(sessionID', currentObjectID' - 1) = To
        /\ LaterFrom(sessionID', scenario'.objects[currentObjectID']) = From
    BY <2>1
  <2> HIDE DEF To, From, d
  <2> QED
    BY <1>1, <1>5, <2>1, <2>4, <2>5, <2>7, <2>8, <2>9 DEF LaterPhase
<1> QED
  BY <1>10, <1>11 DEF SendAck

-----------------------------------------------------------------------------
(***************************************************************************)
(* The publishing goroutine.                                               *)
(***************************************************************************)
LEMMA MoveHead ==
  ASSUME NEW S, NEW p \in Seq(S), NEW t \in Seq(S), t # <<>>
  PROVE  Append(p, Head(t)) \o Tail(t) = p \o t
<1>1. Head(t) \in S /\ Tail(t) \in Seq(S)
  BY HeadTailProperties
<1>2. Append(p, Head(t)) = p \o <<Head(t)>> /\ <<Head(t)>> \in Seq(S)
  BY <1>1
<1>3. t = <<Head(t)>> \o Tail(t)
  BY <1>1
<1>4. \A u \in Seq(S) : (p \o u) \o Tail(t) = p \o (u \o Tail(t))
  BY <1>1
<1> QED
  BY <1>2, <1>3, <1>4

LEMMA PublishingMoves ==
  ASSUME TypeInv, Publishing, WritePending => Somewhere(Tokens, fcIn, Pending, authIn),
         NEW g \in DOMAIN publishers, Publish(g)
  PROVE  /\ g = 1 /\ Len(publishers') = 1 /\ activeDefinitions' = activeDefinitions
         /\ publishers'[1].pc # "panic"
         /\ publishers'[1].pc \in {"pause", "setMeta", "sendMeta"} => published' = <<>>
         /\ publishers'[1].pc = "publish" => published' \o publishers'[1].todo = Available
         /\ publishers'[1].pc = "done" => published' = Available
         /\ \/ fcIn' = fcIn
            \/ \E x \in Setters : fcIn' = Append(fcIn, x)
<1> DEFINE me == publishers[1]
           next == publishers'[1]
           Moved == Len(publishers') = 1 /\ activeDefinitions' = activeDefinitions
<1>1. /\ g = 1 /\ publishers \in Seq(Publishers) /\ Len(publishers) = 1
      /\ DOMAIN publishers = 1 .. 1 /\ me \in Publishers
      /\ me.pc = "sendMeta" => me.todo # <<>>
  <2>1. publishers \in Seq(Publishers) /\ Len(publishers) = 1
    BY DEF TypeInv, TypeOK, Publishing
  <2>2. DOMAIN publishers = 1 .. 1 /\ g = 1
    BY <2>1
  <2>3. publishers[1] \in Publishers
    BY <2>1, ElementOfSeq
  <2>4. publishers[1].pc = "sendMeta" => publishers[1].todo # <<>>
    BY <2>2 DEF TypeInv
  <2> QED
    BY <2>1, <2>2, <2>3, <2>4
<1>2. /\ published \in Seq(Definitions) /\ activeDefinitions \in Seq(Definitions)
      /\ me.todo \in Seq(Definitions)
  BY <1>1 DEF TypeInv, TypeOK, Publishers
<1>3. ~WritePending
  BY DEF Publishing
<1>4. PublisherStep(1)
  BY <1>1, <1>3 DEF Publish
<1>5. \A h : publishers' = [publishers EXCEPT ![1] = h] => Len(publishers') = 1 /\ next = h
  BY <1>1, ExceptSeq
<1>6. CASE EndPause(1)
  <2>1. next = [me EXCEPT !.pc = "setMeta", !.todo = activeDefinitions] /\ Len(publishers') = 1
    BY <1>5, <1>6 DEF EndPause
  <2>2. next.pc = "setMeta"
    BY <1>1, <2>1 DEF Publishers
  <2> QED
    BY <1>1, <1>6, <2>1, <2>2 DEF EndPause, Publishing
<1>7. CASE SetMeta(1)
  <2>1. next = [me EXCEPT !.pc = "sendMeta", !.modes = Modes(Head(me.todo))] /\ Len(publishers') = 1
    BY <1>5, <1>7 DEF SetMeta
  <2>2. next.pc = "sendMeta"
    BY <1>1, <2>1 DEF Publishers
  <2> QED
    BY <1>1, <1>7, <2>1, <2>2 DEF SetMeta, Publishing
<1>8. CASE SendMeta(1)
  <2>1. next = [me EXCEPT !.pc = "setMeta", !.todo = Tail(me.todo)] /\ Len(publishers') = 1
    BY <1>5, <1>8 DEF SendMeta
  <2>2. next.pc = "setMeta"
    BY <1>1, <2>1 DEF Publishers
  <2>3. Head(me.todo) \in Definitions /\ 1 \in Nat
    BY <1>1, <1>2, <1>8, HeadTailProperties DEF SendMeta
  <2>4. CreateObjectSetter(Head(me.todo), 1) \in Setters
    BY <2>3 DEF Setters
  <2> QED
    BY <1>1, <1>8, <2>1, <2>2, <2>4 DEF SendMeta, Send, Publishing
<1>9. CASE StartDefinitions(1)
  <2>1. next = [me EXCEPT !.pc = "publish", !.todo = activeDefinitions] /\ Len(publishers') = 1
    BY <1>5, <1>9 DEF StartDefinitions
  <2>2. next.pc = "publish" /\ next.todo = activeDefinitions
    BY <1>1, <2>1 DEF Publishers
  <2>3. <<>> \o activeDefinitions = activeDefinitions
    BY <1>2
  <2> QED
    BY <1>1, <1>9, <2>1, <2>2, <2>3 DEF StartDefinitions, Publishing
<1>10. CASE SendAsRotondeDefinitions(1)
  <2>0. publishers' = [publishers EXCEPT ![1] = [me EXCEPT !.todo = Tail(me.todo)]]
    BY <1>10 DEF SendAsRotondeDefinitions
  <2>1. next = [me EXCEPT !.todo = Tail(me.todo)] /\ Len(publishers') = 1
    BY <1>5, <2>0
  <2>2. next.pc = "publish" /\ next.todo = Tail(me.todo)
    BY <1>1, <1>10, <2>1 DEF Publishers, SendAsRotondeDefinitions
  <2>3. Append(published, Head(me.todo)) \o Tail(me.todo) = published \o me.todo
    <3>1. me.todo # <<>>
      BY <1>10 DEF SendAsRotondeDefinitions
    <3> HIDE DEF me
    <3> QED
      BY <1>2, <3>1, MoveHead
  <2> QED
    BY <1>1, <1>10, <2>1, <2>2, <2>3 DEF SendAsRotondeDefinitions, Publishing
<1>11. CASE EndPublisher(1)
  <2>0. publishers' = [publishers EXCEPT ![1] = [me EXCEPT !.pc = "done"]]
    BY <1>11 DEF EndPublisher
  <2>1. next = [me EXCEPT !.pc = "done"] /\ Len(publishers') = 1
    BY <1>5, <2>0
  <2>2. next.pc = "done"
    BY <1>1, <2>1 DEF Publishers
  <2>3. published \o <<>> = published
    BY <1>2
  <2> QED
    BY <1>1, <1>11, <2>1, <2>2, <2>3 DEF EndPublisher, Publishing
<1> QED
  BY <1>4, <1>6, <1>7, <1>8, <1>9, <1>10, <1>11 DEF PublisherStep

LEMMA PublishSystem ==
  ASSUME Common, FirstPhase \/ LaterPhase, NEW g \in DOMAIN publishers, Publish(g),
         UNCHANGED <<fcVars, scenario, faults>>
  PROVE  Common' /\ LaterPhase'
<1> DEFINE To == LaterTo(sessionID, currentObjectID - 1)
<1>1. publishers # <<>>
  OBVIOUS
<1>2. LaterPhase /\ Publishing
  BY <1>1 DEF FirstPhase, LaterPhase, Enumerating
<1>3. WritePending => Somewhere(Tokens, fcIn, Pending, authIn)
  <2>1. pc = "ack" => Pending = "reply"
    BY <1>2 DEF LaterPhase, Pending
  <2>2. "reply" \in Tokens
    BY KindSets
  <2> QED
    BY <1>2, <2>1, <2>2 DEF WritePending, LaterPhase, Somewhere
<1>4. /\ g = 1 /\ Len(publishers') = 1 /\ activeDefinitions' = activeDefinitions
      /\ publishers'[1].pc # "panic"
      /\ publishers'[1].pc \in {"pause", "setMeta", "sendMeta"} => published' = <<>>
      /\ publishers'[1].pc = "publish" => published' \o publishers'[1].todo = Available
      /\ publishers'[1].pc = "done" => published' = Available
      /\ \/ fcIn' = fcIn
         \/ \E x \in Setters : fcIn' = Append(fcIn, x)
  BY <1>2, <1>3, PublishingMoves DEF Common
<1>5. /\ UNCHANGED <<connected, sessionID, currentObjectID, numberOfObjects, authIn, pc, objectID, out>>
      /\ Pending' = Pending
  BY DEF Publish, sessionVars, handlerVars, Pending
<1>6. TypeInv'
  BY PublishType DEF Common
<1>7. /\ fcIn' \in Seq(To)
      /\ Shaken(fcIn', Pending, authIn, status, gcsStatus)
      /\ Somewhere(Tokens, fcIn', Pending, authIn) <=> Somewhere(Tokens, fcIn, Pending, authIn)
      /\ Somewhere(Queries, fcIn, Pending, authIn) => Somewhere(Queries, fcIn', Pending, authIn)
      /\ NeverAhead(Requests, Queries, fcIn, Pending, authIn)
           => NeverAhead(Requests, Queries, fcIn', Pending, authIn)
  <2>1. CASE fcIn' = fcIn
    BY <1>2, <2>1 DEF LaterPhase, Common
  <2>2. ASSUME NEW x \in Setters, fcIn' = Append(fcIn, x) PROVE <1>7!:
    <3>1. Kind(x) = "setter" /\ x \in To
      BY KindOf DEF Setters, LaterTo
    <3>2. Kind(x) \notin Drops \cup Ups /\ Kind(x) \notin Tokens /\ Kind(x) \notin Queries /\ Kind(x) \notin Requests
      BY <3>1, KindSets
    <3>3. fcIn \in Seq(To)
      BY <1>2 DEF LaterPhase
    <3> HIDE DEF To
    <3>4. Shaken(fcIn', Pending, authIn, status, gcsStatus)
      BY <2>2, <3>2, <3>3, ShakenInsert DEF Common
    <3>5. /\ \A X : Kind(x) \notin X
               => (Somewhere(X, fcIn', Pending, authIn) <=> Somewhere(X, fcIn, Pending, authIn))
          /\ \A X, Y : Kind(x) \notin X /\ Kind(x) \notin Y
               => (NeverAhead(X, Y, fcIn', Pending, authIn) <=> NeverAhead(X, Y, fcIn, Pending, authIn))
      BY <2>2, <3>3, RingInsert
    <3> QED
      BY <2>2, <3>1, <3>2, <3>3, <3>4, <3>5
  <2> QED
    BY <1>4, <2>1, <2>2
<1>8. Common'
  BY <1>5, <1>6, <1>7 DEF Common, fcVars
<1>9. SameSession'
  BY <1>2, <1>5, <1>7 DEF LaterPhase, SameSession, fcVars
<1>10. Publishing'
  BY <1>2, <1>4, <1>5, <1>7 DEF Publishing, Available
<1> QED
  BY <1>2, <1>5, <1>7, <1>8, <1>9, <1>10 DEF LaterPhase
=============================================================================
