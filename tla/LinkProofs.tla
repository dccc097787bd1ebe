----------------------------- MODULE LinkProofs -----------------------------
(***************************************************************************)
(* What the proofs about Session and SessionSystem have in common: the     *)
(* types of Session, for every object table, session identifier, width of  *)
(* the index and size of the channels, and the ring of packets between the *)
(* bridge and the flight controller.                                       *)
(***************************************************************************)
EXTENDS Session, SequenceTheorems, TLAPS

-----------------------------------------------------------------------------
(***************************************************************************)
(* Types.                                                                  *)
(***************************************************************************)

SessionData ==
  [SessionID : SessionIDs, NumberOfObjects : UInt8, ObjectID : ObjectIDs \cup {0}]

\* The data that sessionHandler reads from a SessionManaging object.
LEMMA SessionPacketType ==
  ASSUME NEW p \in FromFlightController,
         p.def = "SessionManaging", p.cmd \in DataCmds
  PROVE  p.data \in SessionData
BY DEF FromFlightController, SessionData, DataCmds, Cmds

\* What the constructors of session.go build is for the flight controller.
LEMMA ConstructorTypes ==
  /\ \A s \in Statuses :
       CreateGCSTelemetryStatsObjectPacket(s) \in ToFlightController
  /\ CreateSessionManagingRequest \in ToFlightController
  /\ CreatePacketAck("SessionManaging") \in ToFlightController
  /\ \A sid \in SessionIDs, i \in UInt8 :
       CreateSessionManagingPacket(sid, i) \in ToFlightController
  /\ \A d \in Definitions, g \in Nat : CreateObjectSetter(d, g) \in ToFlightController
BY DEF CreateGCSTelemetryStatsObjectPacket, CreateSessionManagingRequest,
       CreatePacketAck, CreateSessionManagingPacket, CreateObjectSetter,
       NewPacket, ToFlightController

\* A blocking send keeps the channel well typed.
LEMMA SendType ==
  ASSUME NEW p \in ToFlightController, fcIn \in Seq(ToFlightController), Send(p)
  PROVE  fcIn' \in Seq(ToFlightController)
BY DEF Send

\* Replacing one goroutine's state keeps the sequence of goroutines typed.
LEMMA PublisherUpdate ==
  ASSUME NEW g \in DOMAIN publishers, NEW r \in Publishers,
         publishers \in Seq(Publishers)
  PROVE  /\ [publishers EXCEPT ![g] = r] \in Seq(Publishers)
         /\ Len([publishers EXCEPT ![g] = r]) = Len(publishers)
         /\ DOMAIN [publishers EXCEPT ![g] = r] = DOMAIN publishers
<1> g \in 1 .. Len(publishers)
  OBVIOUS
<1> QED
  BY ExceptSeq

\* The types, and that a goroutine at a send of a setter has a definition
\* left to send one for.
TypeInv ==
  /\ TypeOK
  /\ \A g \in DOMAIN publishers :
       publishers[g].pc = "sendMeta" => publishers[g].todo # <<>>

LEMMA InitTypeInv == Init => TypeInv
<1> SUFFICES ASSUME Init PROVE TypeInv
  OBVIOUS
<1>1. CreateGCSTelemetryStatsObjectPacket("HandshakeReq") \in ToFlightController
  BY ConstructorTypes DEF Statuses
<1>2. fcIn \in Seq(ToFlightController)
  BY <1>1 DEF Init
<1>3. sessionID \in SessionIDs /\ currentObjectID \in UInt8 /\ numberOfObjects \in UInt8
  BY PacketsAssumption DEF Init, UInt8
<1>4. connected \in BOOLEAN
  BY DEF Init
<1>5. TypeOK
  BY <1>2, <1>3, <1>4 DEF Init, TypeOK
<1> QED
  BY <1>5 DEF Init, TypeInv

\* Taking a packet and deciding what to do with it.
LEMMA ReceiveType ==
  ASSUME TypeInv, Receive
  PROVE  TypeInv'
<1> DEFINE p == Head(authIn)
<1>1. p \in FromFlightController /\ authIn' \in Seq(FromFlightController)
  <2>1. authIn \in Seq(FromFlightController) /\ authIn # <<>>
    BY DEF TypeInv, TypeOK, Receive
  <2>2. authIn' = Tail(authIn)
    BY DEF Receive, ReceiveDisconnected, ReceiveHandshakeAck, ReceiveConnected,
           ReceiveSession, ReceiveReply, ReceiveOther, Take
  <2> QED
    BY <2>1, <2>2, HeadTailProperties
<1>2. UNCHANGED <<publisherVars, activeDefinitions, fcIn, currentObjectID, sessionID>>
  BY DEF Receive, ReceiveDisconnected, ReceiveHandshakeAck, ReceiveConnected,
         ReceiveSession, ReceiveReply, ReceiveOther, Take, sessionVars
<1>3. connected' \in BOOLEAN
  BY DEF TypeInv, TypeOK, Receive, ReceiveDisconnected, ReceiveHandshakeAck,
         ReceiveConnected, ReceiveSession, ReceiveReply, ReceiveOther, sessionVars
<1>4. out' \in Seq(ToFlightController)
  <2>1. \A q \in ToFlightController : <<q>> \in Seq(ToFlightController)
    OBVIOUS
  <2>2. out' = out \/ \E q \in ToFlightController : out' = <<q>>
    BY ConstructorTypes
       DEF Receive, ReceiveDisconnected, ReceiveHandshakeAck, ReceiveConnected,
           ReceiveSession, ReceiveReply, ReceiveOther, Statuses
  <2> QED
    BY <2>1, <2>2 DEF TypeInv, TypeOK
<1>5. numberOfObjects' \in UInt8 /\ objectID' \in ObjectIDs \cup {0} 
  <2>1. CASE ReceiveSession(p) \/ ReceiveReply(p)
    <3>1. p.data \in SessionData
      BY <1>1, <2>1, SessionPacketType
         DEF ReceiveSession, ReceiveReply, IsSession, DataCmds
    <3> QED
      BY <2>1, <3>1 DEF ReceiveSession, ReceiveReply, NoteNumberOfObjects,
                        SessionData, TypeInv, TypeOK
  <2>2. CASE ~(ReceiveSession(p) \/ ReceiveReply(p))
    BY <2>2 DEF Receive, ReceiveDisconnected, ReceiveHandshakeAck, ReceiveConnected,
                ReceiveOther, sessionVars, TypeInv, TypeOK
  <2> QED
    BY <2>1, <2>2
<1>6. pc' \in {"idle", "ack", "open"}
  BY DEF TypeInv, TypeOK, Receive, ReceiveDisconnected, ReceiveHandshakeAck,
         ReceiveConnected, ReceiveSession, ReceiveReply, ReceiveOther
<1> QED
  BY <1>1, <1>2, <1>3, <1>4, <1>5, <1>6 DEF TypeInv, TypeOK, publisherVars

\* A new goroutine starts with nothing to send.
LEMMA StartPublisherType ==
  ASSUME TypeInv, StartPublisher
  PROVE  /\ publishers' \in Seq(Publishers)
         /\ \A g \in DOMAIN publishers' :
              publishers'[g].pc = "sendMeta" => publishers'[g].todo # <<>>
<1> DEFINE r == [pc |-> "pause", todo |-> <<>>, modes |-> 0]
<1>1. r \in Publishers
  BY DEF Publishers
<1>2. publishers \in Seq(Publishers) /\ publishers' = Append(publishers, r)
  BY DEF TypeInv, TypeOK, StartPublisher
<1>3. \A g \in DOMAIN publishers' :
        publishers'[g] = r \/ (g \in DOMAIN publishers /\ publishers'[g] = publishers[g])
  BY <1>1, <1>2, AppendProperties
<1> QED
  BY <1>1, <1>2, <1>3, AppendProperties DEF TypeInv

\* The sends of the handlers.
LEMMA HandlerSendType ==
  ASSUME TypeInv, SendOpen \/ SendAck \/ SendOut
  PROVE  TypeInv'
<1>1. CASE SendOpen
  <2>1. fcIn' \in Seq(ToFlightController)
    BY <1>1, SendType, ConstructorTypes, PacketsAssumption
       DEF SendOpen, UInt8, TypeInv, TypeOK
  <2>2. connected' \in BOOLEAN
    BY <1>1 DEF SendOpen, sessionVars, TypeInv, TypeOK
  <2> QED
    BY <1>1, <2>1, <2>2 DEF SendOpen, sessionVars, publisherVars, TypeInv, TypeOK
<1>2. CASE SendAck
  <2>1. fcIn' \in Seq(ToFlightController)
    BY <1>2, SendType, ConstructorTypes DEF SendAck, TypeInv, TypeOK
  <2>2. connected' \in BOOLEAN
    BY <1>2 DEF SendAck, TypeInv, TypeOK
  <2>3. activeDefinitions' \in Seq(Definitions)
    BY <1>2 DEF SendAck, NoteObject, TypeInv, TypeOK
  <2>4. /\ authIn' \in Seq(FromFlightController)
        /\ pc' \in {"idle", "ack", "open"}
        /\ objectID' \in ObjectIDs \cup {0}
        /\ numberOfObjects' \in UInt8
        /\ published' \in Seq(Definitions)
    BY <1>2 DEF SendAck, TypeInv, TypeOK
  <2>5. CASE EnumerationDone
    <3>1. /\ publishers' \in Seq(Publishers)
          /\ \A g \in DOMAIN publishers' :
               publishers'[g].pc = "sendMeta" => publishers'[g].todo # <<>>
      BY <2>5, StartPublisherType DEF EnumerationDone
    <3> QED
      BY <2>1, <2>2, <2>3, <2>4, <2>5, <3>1 DEF EnumerationDone, TypeInv, TypeOK
  <2>6. CASE AskNextObject
    <3>1. sessionID' \in SessionIDs /\ currentObjectID' \in UInt8
      <4>1. sessionID' \in SessionIDs
        BY <2>6, SessionAssumption DEF AskNextObject, TypeInv, TypeOK
      <4>2. /\ currentObjectID \in 0 .. UInt8Max /\ numberOfObjects \in 0 .. UInt8Max
            /\ currentObjectID < numberOfObjects /\ UInt8Max \in Nat
            /\ currentObjectID' = (currentObjectID + 1) % (UInt8Max + 1)
        BY <2>6, PacketsAssumption DEF AskNextObject, UInt8, TypeInv, TypeOK
      <4>3. currentObjectID' = currentObjectID + 1
        BY <4>2
      <4> QED
        BY <4>1, <4>2, <4>3 DEF UInt8
    <3>2. CreateSessionManagingPacket(sessionID', currentObjectID) \in ToFlightController
      BY <3>1, ConstructorTypes DEF TypeInv, TypeOK
    <3>3. out' \in Seq(ToFlightController)
      BY <2>6, <3>2 DEF AskNextObject
    <3> QED
      BY <2>1, <2>2, <2>3, <2>4, <2>6, <3>1, <3>3 DEF AskNextObject, TypeInv, TypeOK
  <2> QED
    BY <1>2, <2>5, <2>6 DEF SendAck
<1>3. CASE SendOut
  <2>1. Head(out) \in ToFlightController
    BY <1>3, HeadTailProperties DEF SendOut, TypeInv, TypeOK
  <2>2. fcIn' \in Seq(ToFlightController)
    BY <1>3, <2>1, SendType DEF SendOut, TypeInv, TypeOK
  <2>3. connected' \in BOOLEAN
    BY <1>3 DEF SendOut, sessionVars, TypeInv, TypeOK
  <2> QED
    BY <1>3, <2>2, <2>3 DEF SendOut, sessionVars, publisherVars, TypeInv, TypeOK
<1> QED
  BY <1>1, <1>2, <1>3

\* A step of goroutine g that gives it the state r.
LEMMA PublisherChange ==
  ASSUME TypeInv, UNCHANGED <<sessionVars, handlerVars>>,
         NEW g \in DOMAIN publishers, NEW r \in Publishers,
         publishers' = [publishers EXCEPT ![g] = r],
         r.pc = "sendMeta" => r.todo # <<>>,
         fcIn' \in Seq(ToFlightController),
         activeDefinitions' \in Seq(Definitions),
         published' \in Seq(Definitions)
  PROVE  TypeInv'
<1>1. connected' \in BOOLEAN
  BY DEF sessionVars, TypeInv, TypeOK
<1>2. publishers' \in Seq(Publishers) /\ DOMAIN publishers' = DOMAIN publishers
  BY PublisherUpdate DEF TypeInv, TypeOK
<1>3. \A h \in DOMAIN publishers' :
        publishers'[h].pc = "sendMeta" => publishers'[h].todo # <<>>
  BY <1>2 DEF TypeInv, TypeOK
<1> QED
  BY <1>1, <1>2, <1>3 DEF sessionVars, handlerVars, TypeInv, TypeOK

\* The publishing goroutines.
LEMMA PublishType ==
  ASSUME TypeInv, NEW g \in DOMAIN publishers, Publish(g)
  PROVE  TypeInv'
<1> DEFINE me == publishers[g]
<1>1. /\ me \in Publishers
      /\ me.pc = "sendMeta" => me.todo # <<>>
      /\ g \in Nat
  BY ElementOfSeq DEF TypeInv, TypeOK
<1>2. /\ fcIn \in Seq(ToFlightController)
      /\ activeDefinitions \in Seq(Definitions)
      /\ published \in Seq(Definitions)
      /\ publishers \in Seq(Publishers)
  BY DEF TypeInv, TypeOK
<1>3. UNCHANGED <<sessionVars, handlerVars>>
  BY DEF Publish
<1>4. me.todo # <<>> => Head(me.todo) \in Definitions /\ Tail(me.todo) \in Seq(Definitions)
  BY <1>1, HeadTailProperties DEF Publishers
<1>5. CASE EndPause(g)
  <2> DEFINE r == [me EXCEPT !.pc = "setMeta", !.todo = activeDefinitions]
  <2>1. r \in Publishers /\ r.pc # "sendMeta"
    BY <1>1, <1>2 DEF Publishers
  <2>2. publishers' = [publishers EXCEPT ![g] = r]
    BY <1>1, <1>2, <1>5 DEF EndPause, Publishers
  <2> QED
    BY <1>2, <1>3, <1>5, <2>1, <2>2, PublisherChange DEF EndPause
<1>6. CASE SetMeta(g)
  <2> DEFINE r == [me EXCEPT !.pc = "sendMeta", !.modes = Modes(Head(me.todo))]
  <2>1. r \in Publishers /\ r.todo # <<>>
    BY <1>1, <1>6 DEF SetMeta, Publishers, Modes
  <2>2. publishers' = [publishers EXCEPT ![g] = r]
    BY <1>1, <1>2, <1>6 DEF SetMeta, Publishers
  <2> QED
    BY <1>2, <1>3, <1>6, <2>1, <2>2, PublisherChange DEF SetMeta
<1>7. CASE SendMeta(g)
  <2> DEFINE r == [me EXCEPT !.pc = "setMeta", !.todo = Tail(me.todo)]
  <2>1. r \in Publishers /\ r.pc # "sendMeta"
    BY <1>1, <1>4, <1>7 DEF SendMeta, Publishers
  <2>2. publishers' = [publishers EXCEPT ![g] = r]
    BY <1>1, <1>2, <1>7 DEF SendMeta, Publishers
  <2>3. CreateObjectSetter(Head(me.todo), g) \in ToFlightController
    BY <1>1, <1>4, <1>7, ConstructorTypes DEF SendMeta
  <2>4. fcIn' \in Seq(ToFlightController)
    BY <1>2, <1>7, <2>3, SendType DEF SendMeta
  <2> QED
    BY <1>2, <1>3, <1>7, <2>1, <2>2, <2>4, PublisherChange DEF SendMeta
<1>8. CASE StartDefinitions(g)
  <2> DEFINE r == [me EXCEPT !.pc = "publish", !.todo = activeDefinitions]
  <2>1. r \in Publishers /\ r.pc # "sendMeta"
    BY <1>1, <1>2 DEF Publishers
  <2>2. publishers' = [publishers EXCEPT ![g] = r]
    BY <1>1, <1>2, <1>8 DEF StartDefinitions, Publishers
  <2> QED
    BY <1>2, <1>3, <1>8, <2>1, <2>2, PublisherChange DEF StartDefinitions
<1>9. CASE SendAsRotondeDefinitions(g)
  <2> DEFINE r == [me EXCEPT !.todo = Tail(me.todo)]
  <2>1. r \in Publishers /\ r.pc # "sendMeta"
    BY <1>1, <1>4, <1>9 DEF SendAsRotondeDefinitions, Publishers
  <2>2. publishers' = [publishers EXCEPT ![g] = r]
    BY <1>1, <1>2, <1>9 DEF SendAsRotondeDefinitions, Publishers
  <2>3. published' \in Seq(Definitions)
    BY <1>2, <1>4, <1>9, AppendProperties DEF SendAsRotondeDefinitions
  <2> QED
    BY <1>2, <1>3, <1>9, <2>1, <2>2, <2>3, PublisherChange DEF SendAsRotondeDefinitions
<1>10. CASE EndPublisher(g) \/ TornRead(g)
  <2> DEFINE r(end) == [me EXCEPT !.pc = end]
  <2>1. /\ r("done") \in Publishers /\ r("done").pc # "sendMeta"
        /\ r("panic") \in Publishers /\ r("panic").pc # "sendMeta"
    BY <1>1 DEF Publishers
  <2>2. \/ publishers' = [publishers EXCEPT ![g] = r("done")]
        \/ publishers' = [publishers EXCEPT ![g] = r("panic")]
    BY <1>1, <1>2, <1>10 DEF EndPublisher, TornRead, Publishers
  <2> HIDE DEF r
  <2> QED
    BY <1>2, <1>3, <1>10, <2>1, <2>2, PublisherChange DEF EndPublisher, TornRead
<1> QED
  BY <1>5, <1>6, <1>7, <1>8, <1>9, <1>10 DEF Publish, PublisherStep

LEMMA NextTypeInv == TypeInv /\ [Next]_vars => TypeInv'
<1> SUFFICES ASSUME TypeInv, [Next]_vars PROVE TypeInv'
  OBVIOUS
<1>1. CASE AuthStep
  BY <1>1, ReceiveType, HandlerSendType DEF AuthStep
<1>2. ASSUME NEW g \in DOMAIN publishers, Publish(g) PROVE TypeInv'
  BY <1>2, PublishType
<1>3. CASE Write
  <2>1. fcIn' \in Seq(ToFlightController)
    BY <1>3, HeadTailProperties DEF Write, TypeInv, TypeOK
  <2>2. connected' \in BOOLEAN
    BY <1>3 DEF Write, sessionVars, TypeInv, TypeOK
  <2> QED
    BY <1>3, <2>1, <2>2
       DEF Write, sessionVars, handlerVars, publisherVars, TypeInv, TypeOK
<1>4. ASSUME NEW p \in FromFlightController, Deliver(p) PROVE TypeInv'
  <2>1. authIn' \in Seq(FromFlightController)
    BY <1>4, AppendProperties DEF Deliver, TypeInv, TypeOK
  <2>2. connected' \in BOOLEAN
    BY <1>4 DEF Deliver, sessionVars, TypeInv, TypeOK
  <2> QED
    BY <1>4, <2>1, <2>2 DEF Deliver, sessionVars, publisherVars, TypeInv, TypeOK
<1>5. CASE UNCHANGED vars
  <2>1. connected' \in BOOLEAN
    BY <1>5 DEF vars, sessionVars, TypeInv, TypeOK
  <2> QED
    BY <1>5, <2>1
       DEF vars, sessionVars, handlerVars, publisherVars, TypeInv, TypeOK
<1> QED
  BY <1>1, <1>2, <1>3, <1>4, <1>5 DEF Next

\* Every variable of the handlers and of the goroutines keeps its type,
\* currentObjectID and numberOfObjects their uint8 range among them, whatever
\* the flight controller sends.
THEOREM TypeCorrect == Spec => []TypeOK
<1>1. Spec => []TypeInv
  BY InitTypeInv, NextTypeInv, PTL DEF Spec
<1>2. TypeInv => TypeOK
  BY DEF TypeInv
<1> QED
  BY <1>1, <1>2, PTL

-----------------------------------------------------------------------------
(***************************************************************************)
(* The ring of packets between the bridge and the flight controller, for   *)
(* SystemProofs: fcIn, then what the auth goroutine is about to send, then *)
(* authIn.  The flight controller takes packets at its front and adds some *)
(* at its end; the handlers replace packets in their place.  The argument  *)
(* is about which kinds of packets can be ahead of which others on this    *)
(* ring, so everything here is about sequences of packets and not about    *)
(* states.                                                                 *)
(*                                                                         *)
(* First, kinds of packets.                                                *)
(***************************************************************************)
OfSession(p) ==
  IF p.cmd = "ObjectRequest" THEN "request"
  ELSE IF p.cmd = "ObjectAck" THEN "ack"
  ELSE IF p.cmd = "ObjectCmdWithAck"
       THEN IF p.data.SessionID = 0 THEN "count" ELSE "reply"
  ELSE IF "ObjectOfInterestIndex" \in DOMAIN p.data
       THEN IF p.data.SessionID = 0 THEN "open" ELSE "query"
       ELSE IF p.data.SessionID = 0 THEN "unset" ELSE "current"

Kind(p) ==
  IF p.def = "GCSTelemetryStats"
  THEN IF p.data.Status = "HandshakeReq" THEN "askConnection" ELSE "confirm"
  ELSE IF p.def = "FlightTelemetryStats" THEN p.data.Status
  ELSE IF p.def = "Meta" THEN "setter"
  ELSE OfSession(p)

\* The packets of the handshake for a new connection, and those that lead to
\* a confirmed one.
Drops == {"askConnection", "Disconnected"}
Ups == {"confirm", "HandshakeAck"}
\* The flight controller's reports that it is not, or is, connected.
Downs == {"Disconnected"}
Reports == {"Connected"}
\* The way from the first report to the number of objects.
Requests == {"request"}
Openings == {"unset", "open"}
Counts == {"count"}
\* The query for an object, and the reply to it.
Tokens == {"query", "reply"}
Queries == {"query"}

LEMMA KindOf ==
  /\ Kind(CreateGCSTelemetryStatsObjectPacket("HandshakeReq")) = "askConnection"
  /\ Kind(CreateGCSTelemetryStatsObjectPacket("Connected")) = "confirm"
  /\ \A s : Kind(FlightTelemetryStats("ObjectCmd", s)) = s
  /\ Kind(CreateSessionManagingRequest) = "request"
  /\ Kind(CreatePacketAck("SessionManaging")) = "ack"
  /\ \A d, g : Kind(CreateObjectSetter(d, g)) = "setter"
BY DEF Kind, OfSession, CreateGCSTelemetryStatsObjectPacket, FlightTelemetryStats,
       CreateSessionManagingRequest, CreatePacketAck, CreateObjectSetter, NewPacket

LEMMA KindOfSession ==
  /\ \A i : Kind(CreateSessionManagingPacket(0, i)) = "open"
  /\ \A sid, i : sid # 0 => Kind(CreateSessionManagingPacket(sid, i)) = "query"
  /\ \A n, o : Kind(SessionManaging("ObjectCmd", 0, n, o)) = "unset"
  /\ \A sid, n, o : sid # 0 => Kind(SessionManaging("ObjectCmd", sid, n, o)) = "current"
  /\ \A n, o : Kind(SessionManaging("ObjectCmdWithAck", 0, n, o)) = "count"
  /\ \A sid, n, o : sid # 0 => Kind(SessionManaging("ObjectCmdWithAck", sid, n, o)) = "reply"
BY DEF Kind, OfSession, CreateSessionManagingPacket, SessionManaging, NewPacket

-----------------------------------------------------------------------------
(***************************************************************************)
(* Sequences of packets.                                                   *)
(***************************************************************************)
Has(X, s) == \E i \in DOMAIN s : Kind(s[i]) \in X

\* No packet of a kind in X is ahead of one in Y.
NoneAhead(X, Y, s) ==
  \A i, j \in DOMAIN s : i < j => ~(Kind(s[i]) \in X /\ Kind(s[j]) \in Y)

LEMMA HasEmpty == \A X, Y : ~Has(X, <<>>) /\ NoneAhead(X, Y, <<>>)
BY DEF Has, NoneAhead

LEMMA HasTail ==
  ASSUME NEW U, NEW s \in Seq(U), s # <<>>
  PROVE  /\ \A X : Has(X, s) <=> Kind(Head(s)) \in X \/ Has(X, Tail(s))
         /\ \A X, Y : NoneAhead(X, Y, s)
              <=> NoneAhead(X, Y, Tail(s)) /\ ~(Kind(Head(s)) \in X /\ Has(Y, Tail(s)))
<1> DEFINE t == Tail(s)
<1>1. /\ Len(s) \in Nat \ {0} /\ Len(t) = Len(s) - 1 /\ Head(s) = s[1]
      /\ DOMAIN s = 1 .. Len(s) /\ DOMAIN t = 1 .. Len(t)
      /\ \A i \in DOMAIN t : t[i] = s[i + 1]
  OBVIOUS
<1> HIDE DEF t
<1>2. /\ \A i \in DOMAIN t : i + 1 \in DOMAIN s /\ s[i + 1] = t[i]
      /\ \A i \in DOMAIN s : i = 1 \/ (i - 1 \in DOMAIN t /\ s[i] = t[i - 1])
  BY <1>1
<1>3. \A X : Has(X, s) <=> Kind(Head(s)) \in X \/ Has(X, t)
  BY <1>1, <1>2 DEF Has
<1>4. ASSUME NEW X, NEW Y
      PROVE  NoneAhead(X, Y, s) <=> NoneAhead(X, Y, t) /\ ~(Kind(Head(s)) \in X /\ Has(Y, t))
  <2>1. ASSUME NoneAhead(X, Y, s) PROVE NoneAhead(X, Y, t)
    BY <1>1, <1>2, <2>1 DEF NoneAhead
  <2>2. ASSUME NoneAhead(X, Y, s), Kind(Head(s)) \in X, Has(Y, t) PROVE FALSE
    BY <1>1, <1>2, <2>2 DEF NoneAhead, Has
  <2>3. ASSUME NoneAhead(X, Y, t), ~(Kind(Head(s)) \in X /\ Has(Y, t)) PROVE NoneAhead(X, Y, s)
    <3> SUFFICES ASSUME NEW i \in DOMAIN s, NEW j \in DOMAIN s, i < j,
                        Kind(s[i]) \in X, Kind(s[j]) \in Y
                 PROVE  FALSE
      BY DEF NoneAhead
    <3>1. j - 1 \in DOMAIN t /\ s[j] = t[j - 1]
      BY <1>1, <1>2
    <3>2. CASE i = 1
      BY <1>1, <2>3, <3>1, <3>2 DEF Has
    <3>3. CASE i # 1
      <4>1. i - 1 \in DOMAIN t /\ s[i] = t[i - 1] /\ i - 1 < j - 1
        BY <1>1, <1>2, <3>3
      <4> QED
        BY <2>3, <3>1, <4>1 DEF NoneAhead
    <3> QED
      BY <3>2, <3>3
  <2> QED
    BY <2>1, <2>2, <2>3
<1> QED
  BY <1>3, <1>4 DEF t

LEMMA HasAppend ==
  ASSUME NEW U, NEW s \in Seq(U), NEW x
  PROVE  /\ \A X : Has(X, Append(s, x)) <=> Has(X, s) \/ Kind(x) \in X
         /\ \A X, Y : NoneAhead(X, Y, Append(s, x))
              <=> NoneAhead(X, Y, s) /\ ~(Has(X, s) /\ Kind(x) \in Y)
<1> DEFINE t == Append(s, x)
<1>1. /\ Len(s) \in Nat /\ Len(t) = Len(s) + 1 /\ t[Len(t)] = x
      /\ DOMAIN s = 1 .. Len(s) /\ DOMAIN t = 1 .. Len(t)
      /\ \A i \in DOMAIN s : t[i] = s[i]
  OBVIOUS
<1> HIDE DEF t
<1>2. /\ \A i \in DOMAIN s : i \in DOMAIN t /\ i < Len(t)
      /\ Len(t) \in DOMAIN t
      /\ \A i \in DOMAIN t : i = Len(t) \/ i \in DOMAIN s
      /\ \A i, j \in DOMAIN t : i < j => i \in DOMAIN s
  BY <1>1
<1>3. \A X : Has(X, t) <=> Has(X, s) \/ Kind(x) \in X
  BY <1>1, <1>2 DEF Has
<1>4. ASSUME NEW X, NEW Y
      PROVE  NoneAhead(X, Y, t) <=> NoneAhead(X, Y, s) /\ ~(Has(X, s) /\ Kind(x) \in Y)
  <2>1. ASSUME NoneAhead(X, Y, t) PROVE NoneAhead(X, Y, s)
    BY <1>1, <1>2, <2>1 DEF NoneAhead
  <2>2. ASSUME NoneAhead(X, Y, t), Has(X, s), Kind(x) \in Y PROVE FALSE
    BY <1>1, <1>2, <2>2 DEF NoneAhead, Has
  <2>3. ASSUME NoneAhead(X, Y, s), ~(Has(X, s) /\ Kind(x) \in Y) PROVE NoneAhead(X, Y, t)
    BY <1>1, <1>2, <2>3 DEF NoneAhead, Has
  <2> QED
    BY <2>1, <2>2, <2>3
<1> QED
  BY <1>3, <1>4 DEF t

-----------------------------------------------------------------------------
(***************************************************************************)
(* The ring: f is fcIn, m the kind of what the handler is about to send    *)
(* ("nothing" when it waits), a is authIn.                                 *)
(***************************************************************************)
Somewhere(X, f, m, a) == Has(X, f) \/ m \in X \/ Has(X, a)

NeverAhead(X, Y, f, m, a) ==
  /\ NoneAhead(X, Y, f) /\ NoneAhead(X, Y, a)
  /\ ~(Has(X, f) /\ m \in Y) /\ ~(Has(X, f) /\ Has(Y, a)) /\ ~(m \in X /\ Has(Y, a))

LEMMA RingNone ==
  ASSUME NEW X, NEW f, NEW m, NEW a, ~Somewhere(X, f, m, a)
  PROVE  \A Y : NeverAhead(X, Y, f, m, a) /\ NeverAhead(Y, X, f, m, a)
BY DEF Somewhere, NeverAhead, Has, NoneAhead

\* The flight controller sends a packet.
LEMMA RingAppend ==
  ASSUME NEW f, NEW m, NEW U, NEW a \in Seq(U), NEW x
  PROVE  /\ \A X : Somewhere(X, f, m, Append(a, x)) <=> Somewhere(X, f, m, a) \/ Kind(x) \in X
         /\ \A X, Y : NeverAhead(X, Y, f, m, Append(a, x))
              <=> NeverAhead(X, Y, f, m, a) /\ ~(Somewhere(X, f, m, a) /\ Kind(x) \in Y)
<1>1. /\ \A X : Has(X, Append(a, x)) <=> Has(X, a) \/ Kind(x) \in X
      /\ \A X, Y : NoneAhead(X, Y, Append(a, x))
              <=> NoneAhead(X, Y, a) /\ ~(Has(X, a) /\ Kind(x) \in Y)
  BY HasAppend
<1> QED
  BY <1>1 DEF Somewhere, NeverAhead

\* It takes one.
LEMMA RingTail ==
  ASSUME NEW U, NEW f \in Seq(U), f # <<>>, NEW m, NEW a
  PROVE  /\ \A X : Somewhere(X, f, m, a) <=> Kind(Head(f)) \in X \/ Somewhere(X, Tail(f), m, a)
         /\ \A X, Y : NeverAhead(X, Y, f, m, a)
              <=> /\ NeverAhead(X, Y, Tail(f), m, a)
                  /\ ~(Kind(Head(f)) \in X /\ Somewhere(Y, Tail(f), m, a))
<1>1. /\ \A X : Has(X, f) <=> Kind(Head(f)) \in X \/ Has(X, Tail(f))
      /\ \A X, Y : NoneAhead(X, Y, f)
              <=> NoneAhead(X, Y, Tail(f)) /\ ~(Kind(Head(f)) \in X /\ Has(Y, Tail(f)))
  BY HasTail
<1> QED
  BY <1>1 DEF Somewhere, NeverAhead

\* A handler takes a packet and is about to send one in its place, or not.
LEMMA RingReceive ==
  ASSUME NEW f, NEW U, NEW a \in Seq(U), a # <<>>, NEW n
  PROVE  LET k == Kind(Head(a))
         IN  /\ \A X : Somewhere(X, f, n, Tail(a)) => Somewhere(X, f, k, Tail(a)) \/ n \in X
             /\ \A X : Somewhere(X, f, k, Tail(a)) => Somewhere(X, f, n, Tail(a)) \/ k \in X
             /\ \A X : "nothing" \notin X
                  => (Somewhere(X, f, "nothing", a) <=> Somewhere(X, f, k, Tail(a)))
             /\ \A X, Y : "nothing" \notin X /\ "nothing" \notin Y
                  => (NeverAhead(X, Y, f, "nothing", a)
                        <=> NeverAhead(X, Y, f, k, Tail(a)))
             /\ \A X, Y : NeverAhead(X, Y, f, k, Tail(a))
                  /\ (n \in X => k \in X) /\ (n \in Y => k \in Y)
                  => NeverAhead(X, Y, f, n, Tail(a))
<1>1. /\ \A X : Has(X, a) <=> Kind(Head(a)) \in X \/ Has(X, Tail(a))
      /\ \A X, Y : NoneAhead(X, Y, a)
              <=> NoneAhead(X, Y, Tail(a)) /\ ~(Kind(Head(a)) \in X /\ Has(Y, Tail(a)))
  BY HasTail
<1> QED
  BY <1>1 DEF Somewhere, NeverAhead

\* The pending packet is sent.
LEMMA RingSend ==
  ASSUME NEW U, NEW f \in Seq(U), NEW x, NEW a
  PROVE  /\ \A X : "nothing" \notin X
              => (Somewhere(X, Append(f, x), "nothing", a) <=> Somewhere(X, f, Kind(x), a))
         /\ \A X, Y : "nothing" \notin X /\ "nothing" \notin Y
              => (NeverAhead(X, Y, Append(f, x), "nothing", a)
                    <=> NeverAhead(X, Y, f, Kind(x), a))
<1>1. /\ \A X : Has(X, Append(f, x)) <=> Has(X, f) \/ Kind(x) \in X
      /\ \A X, Y : NoneAhead(X, Y, Append(f, x))
              <=> NoneAhead(X, Y, f) /\ ~(Has(X, f) /\ Kind(x) \in Y)
  BY HasAppend
<1> QED
  BY <1>1 DEF Somewhere, NeverAhead

\* Some other packet joins fcIn.
LEMMA RingInsert ==
  ASSUME NEW U, NEW f \in Seq(U), NEW x, NEW m, NEW a
  PROVE  /\ \A X : Kind(x) \notin X
              => (Somewhere(X, Append(f, x), m, a) <=> Somewhere(X, f, m, a))
         /\ \A X, Y : Kind(x) \notin X /\ Kind(x) \notin Y
              => (NeverAhead(X, Y, Append(f, x), m, a) <=> NeverAhead(X, Y, f, m, a))
<1>1. /\ \A X : Has(X, Append(f, x)) <=> Has(X, f) \/ Kind(x) \in X
      /\ \A X, Y : NoneAhead(X, Y, Append(f, x))
              <=> NoneAhead(X, Y, f) /\ ~(Has(X, f) /\ Kind(x) \in Y)
  BY HasAppend
<1> QED
  BY <1>1 DEF Somewhere, NeverAhead

LEMMA KindSets ==
  /\ \A k : k \in Drops <=> k = "askConnection" \/ k = "Disconnected"
  /\ \A k : k \in Ups <=> k = "confirm" \/ k = "HandshakeAck"
  /\ \A k : k \in Downs <=> k = "Disconnected"
  /\ \A k : k \in Reports <=> k = "Connected"
  /\ \A k : k \in Requests <=> k = "request"
  /\ \A k : k \in Openings <=> k = "unset" \/ k = "open"
  /\ \A k : k \in Counts <=> k = "count"
  /\ \A k : k \in Tokens <=> k = "query" \/ k = "reply"
  /\ \A k : k \in Queries <=> k = "query"
BY DEF Drops, Ups, Downs, Reports, Requests, Openings, Counts, Tokens, Queries

-----------------------------------------------------------------------------
(***************************************************************************)
(* The handshake.  st and g are status and gcsStatus of the flight         *)
(* controller: while it was asked for a connection last, no confirmation   *)
(* of an older one is ahead of another such request, and the other way     *)
(* round; a connection is up only when no request for one is on its way.   *)
(***************************************************************************)
Shaken(f, m, a, st, g) ==
  /\ st \in {"Disconnected", "HandshakeAck", "Connected"}
  /\ g \in {"Disconnected", "HandshakeReq", "Connected"}
  /\ g = "HandshakeReq" => NeverAhead(Ups, Drops, f, m, a)
  /\ g # "HandshakeReq" => NeverAhead(Drops, Ups, f, m, a)
  /\ st # "Disconnected" /\ g = "Connected" => ~Somewhere(Drops, f, m, a)
  /\ st = "Connected" => g = "Connected"
  /\ g = "Disconnected" => st = "Disconnected"

Following(st, g) ==
  IF st = "Disconnected" /\ g = "HandshakeReq" THEN "HandshakeAck"
  ELSE IF st = "HandshakeAck" /\ g = "Connected" THEN "Connected"
  ELSE IF st = "Connected" /\ g # "Connected" THEN "Disconnected"
  ELSE st

Heard(k, g) ==
  IF k = "askConnection" THEN "HandshakeReq" ELSE IF k = "confirm" THEN "Connected" ELSE g

LEMMA ShakenTick ==
  ASSUME NEW f, NEW m, NEW U, NEW a \in Seq(U), NEW st, NEW g, Shaken(f, m, a, st, g),
         NEW x, Kind(x) = Following(st, g)
  PROVE  Shaken(f, m, Append(a, x), Following(st, g), g)
BY RingAppend, KindSets DEF Shaken, Following

LEMMA ShakenEmit ==
  ASSUME NEW f, NEW m, NEW U, NEW a \in Seq(U), NEW st, NEW g, Shaken(f, m, a, st, g),
         NEW x, Kind(x) \notin Drops \cup Ups
  PROVE  Shaken(f, m, Append(a, x), st, g)
BY RingAppend DEF Shaken

LEMMA ShakenTake ==
  ASSUME NEW U, NEW f \in Seq(U), f # <<>>, NEW m, NEW a, NEW st, NEW g,
         Shaken(f, m, a, st, g), Kind(Head(f)) \notin {"Disconnected", "HandshakeAck"}
  PROVE  Shaken(Tail(f), m, a, st, Heard(Kind(Head(f)), g))
<1> DEFINE k == Kind(Head(f))
           t == Tail(f)
<1>1. /\ \A X : Somewhere(X, f, m, a) <=> k \in X \/ Somewhere(X, t, m, a)
      /\ \A X, Y : NeverAhead(X, Y, f, m, a)
              <=> NeverAhead(X, Y, t, m, a) /\ ~(k \in X /\ Somewhere(Y, t, m, a))
  BY RingTail
<1>2. \A X, Y : ~Somewhere(X, t, m, a) => NeverAhead(X, Y, t, m, a) /\ NeverAhead(Y, X, t, m, a)
  BY RingNone
<1> k \notin {"Disconnected", "HandshakeAck"}
  OBVIOUS
<1> SUFFICES Shaken(t, m, a, st, Heard(k, g))
  OBVIOUS
<1> HIDE DEF k, t
<1>3. CASE k = "askConnection"
  BY <1>1, <1>2, <1>3, KindSets DEF Shaken, Heard
<1>4. CASE k = "confirm"
  BY <1>1, <1>2, <1>4, KindSets DEF Shaken, Heard
<1>5. CASE k \notin {"askConnection", "confirm"}
  BY <1>1, <1>5, KindSets DEF Shaken, Heard
<1> QED
  BY <1>3, <1>4, <1>5

LEMMA ShakenReceive ==
  ASSUME NEW f, NEW U, NEW a \in Seq(U), a # <<>>, NEW st, NEW g, NEW n,
         Shaken(f, "nothing", a, st, g),
         n \in Drops => Kind(Head(a)) \in Drops, n \in Ups => Kind(Head(a)) \in Ups
  PROVE  Shaken(f, n, Tail(a), st, g)
<1>1. "nothing" \notin Drops /\ "nothing" \notin Ups
  BY KindSets
<1>2. /\ Somewhere(Drops, f, n, Tail(a)) => Somewhere(Drops, f, "nothing", a)
      /\ NeverAhead(Drops, Ups, f, "nothing", a) => NeverAhead(Drops, Ups, f, n, Tail(a))
      /\ NeverAhead(Ups, Drops, f, "nothing", a) => NeverAhead(Ups, Drops, f, n, Tail(a))
  <2>1. Somewhere(Drops, f, n, Tail(a)) => Somewhere(Drops, f, Kind(Head(a)), Tail(a))
    BY DEF Somewhere
  <2> QED
    BY <1>1, <2>1, RingReceive
<1> QED
  BY <1>2 DEF Shaken

LEMMA ShakenSend ==
  ASSUME NEW U, NEW f \in Seq(U), NEW x, NEW a, NEW st, NEW g, Shaken(f, Kind(x), a, st, g)
  PROVE  Shaken(Append(f, x), "nothing", a, st, g)
BY RingSend, KindSets DEF Shaken

LEMMA ShakenInsert ==
  ASSUME NEW U, NEW f \in Seq(U), NEW x, NEW m, NEW a, NEW st, NEW g, Shaken(f, m, a, st, g),
         Kind(x) \notin Drops \cup Ups
  PROVE  Shaken(Append(f, x), m, a, st, g)
BY RingInsert DEF Shaken

LEMMA ShakenPending ==
  ASSUME NEW f, NEW m, NEW n, NEW a, NEW st, NEW g, Shaken(f, m, a, st, g),
         n \notin Drops \cup Ups
  PROVE  Shaken(f, n, a, st, g)
BY DEF Shaken, Somewhere, NeverAhead

LEMMA ShakenTimeout ==
  ASSUME NEW f, NEW m, NEW a, NEW st, NEW g, Shaken(f, m, a, st, g)
  PROVE  Shaken(f, m, a, "Disconnected", g)
BY DEF Shaken

-----------------------------------------------------------------------------
(***************************************************************************)
(* The first session.  con is connected.  The first report of a connection *)
(* makes the handler ask for the session object; that makes it open a      *)
(* session; that is answered with the number of objects.  In each of these *)
(* stages nothing on the ring can start the same again.                    *)
(***************************************************************************)
NotReported(f, m, a, st, con) ==
  /\ ~con /\ st # "Connected"
  /\ ~Somewhere(Reports, f, m, a) /\ ~Somewhere(Requests, f, m, a)
  /\ ~Somewhere(Openings, f, m, a) /\ ~Somewhere(Counts, f, m, a)

Reported(f, m, a, st, g, con) ==
  /\ ~con /\ g = "Connected" /\ st \in {"Connected", "Disconnected"}
  /\ Somewhere(Reports, f, m, a) /\ ~Somewhere(Requests, f, m, a)
  /\ ~Somewhere(Openings, f, m, a) /\ ~Somewhere(Counts, f, m, a)
  /\ NeverAhead(Drops, Reports, f, m, a) /\ NeverAhead(Reports, Ups, f, m, a)

\* A report of a connection finds the handler connected.
Harmless(f, m, a, st, con) ==
  /\ Somewhere(Reports, f, m, a) \/ st = "Connected" => con
  /\ NeverAhead(Downs, Reports, f, m, a)

Asked(f, m, a, st, g, con) ==
  /\ g = "Connected" /\ st \in {"Connected", "Disconnected"}
  /\ Somewhere(Requests, f, m, a) /\ NeverAhead(Requests, Requests, f, m, a)
  /\ ~Somewhere(Openings, f, m, a) /\ ~Somewhere(Counts, f, m, a)
  /\ NeverAhead(Drops, Requests, f, m, a) /\ NeverAhead(Requests, Ups, f, m, a)
  /\ Harmless(f, m, a, st, con)

Opening(f, m, a, st, g, con) ==
  /\ st = "HandshakeAck" => g = "HandshakeReq"
  /\ Somewhere(Openings, f, m, a) /\ NeverAhead(Openings, Openings, f, m, a)
  /\ ~Somewhere(Requests, f, m, a) /\ ~Somewhere(Counts, f, m, a)
  /\ NeverAhead(Ups, Openings, f, m, a)
  /\ Harmless(f, m, a, st, con)

\* The number of objects is in a, behind harmless reports only.
CountSafe(a, con) ==
  \E i \in DOMAIN a :
    /\ Kind(a[i]) \in Counts
    /\ \A j \in 1 .. i - 1 :
         Kind(a[j]) \in Reports => con /\ \A l \in 1 .. j - 1 : Kind(a[l]) \notin Downs

Counted(f, m, a, con) ==
  /\ ~Somewhere(Requests, f, m, a) /\ ~Somewhere(Openings, f, m, a)
  /\ NeverAhead(Counts, Counts, f, m, a)
  /\ m = "count" \/ CountSafe(a, con)

Stage(f, m, a, st, g, con) ==
  \/ NotReported(f, m, a, st, con)
  \/ Reported(f, m, a, st, g, con)
  \/ Asked(f, m, a, st, g, con)
  \/ Opening(f, m, a, st, g, con)
  \/ Counted(f, m, a, con)

LEMMA DownsDrop ==
  ASSUME NEW f, NEW m, NEW a
  PROVE  /\ Somewhere(Downs, f, m, a) => Somewhere(Drops, f, m, a)
         /\ \A Y : NeverAhead(Drops, Y, f, m, a) => NeverAhead(Downs, Y, f, m, a)
<1>1. Downs \subseteq Drops
  BY KindSets
<1> QED
  BY <1>1 DEF Somewhere, NeverAhead, Has, NoneAhead

LEMMA CountSafeAppend ==
  ASSUME NEW U, NEW a \in Seq(U), NEW x, NEW con, CountSafe(a, con)
  PROVE  CountSafe(Append(a, x), con)
<1>1. PICK i \in DOMAIN a :
        /\ Kind(a[i]) \in Counts
        /\ \A j \in 1 .. i - 1 :
             Kind(a[j]) \in Reports => con /\ \A l \in 1 .. j - 1 : Kind(a[l]) \notin Downs
  BY DEF CountSafe
<1> DEFINE b == Append(a, x)
<1>2. /\ i \in DOMAIN b /\ b[i] = a[i]
      /\ \A j \in 1 .. i - 1 : b[j] = a[j] /\ \A l \in 1 .. j - 1 : b[l] = a[l]
  OBVIOUS
<1> HIDE DEF b
<1>3. CountSafe(b, con)
  BY <1>1, <1>2 DEF CountSafe
<1> QED
  BY <1>3 DEF b

\* The handler takes a packet that is not the number of objects; a report of
\* no connection leaves it disconnected.
LEMMA CountSafeTail ==
  ASSUME NEW U, NEW a \in Seq(U), a # <<>>, NEW con, NEW next, CountSafe(a, con),
         Kind(Head(a)) \notin Counts, Kind(Head(a)) \notin Downs => (con => next)
  PROVE  /\ CountSafe(Tail(a), next)
         /\ Kind(Head(a)) \in Reports => con
<1>1. PICK i \in DOMAIN a :
        /\ Kind(a[i]) \in Counts
        /\ \A j \in 1 .. i - 1 :
             Kind(a[j]) \in Reports => con /\ \A l \in 1 .. j - 1 : Kind(a[l]) \notin Downs
  BY DEF CountSafe
<1> DEFINE b == Tail(a)
<1>2. /\ Head(a) = a[1] /\ i \in Nat /\ i > 1 /\ i - 1 \in DOMAIN b /\ 1 \in 1 .. i - 1
      /\ \A j \in DOMAIN b : b[j] = a[j + 1] /\ j \in Nat /\ j >= 1
      /\ \A j \in 1 .. i - 1 - 1 : j \in DOMAIN b /\ j + 1 \in 1 .. i - 1 /\ 1 \in 1 .. (j + 1) - 1
      /\ \A j \in 1 .. i - 1 - 1 : \A l \in 1 .. j - 1 : l \in DOMAIN b /\ l + 1 \in 1 .. (j + 1) - 1
  <2>1. i # 1
    BY <1>1
  <2>2. i \in 1 .. Len(a) /\ Len(a) \in Nat /\ Len(b) = Len(a) - 1 /\ DOMAIN b = 1 .. Len(b)
    OBVIOUS
  <2>3. Head(a) = a[1] /\ \A j \in DOMAIN b : b[j] = a[j + 1]
    OBVIOUS
  <2> HIDE DEF b
  <2> QED
    BY <2>1, <2>2, <2>3
<1> HIDE DEF b
<1>3. Kind(Head(a)) \in Reports => con
  BY <1>1, <1>2
<1>4. Kind(b[i - 1]) \in Counts
  BY <1>1, <1>2
<1>5. ASSUME NEW j \in 1 .. (i - 1) - 1, Kind(b[j]) \in Reports
      PROVE  next /\ \A l \in 1 .. j - 1 : Kind(b[l]) \notin Downs
  <2>1. con /\ \A l \in 1 .. (j + 1) - 1 : Kind(a[l]) \notin Downs
    BY <1>1, <1>2, <1>5
  <2>2. Kind(Head(a)) \notin Downs
    BY <1>2, <2>1
  <2> QED
    BY <1>2, <2>1, <2>2
<1>6. CountSafe(b, next)
  BY <1>2, <1>4, <1>5 DEF CountSafe
<1> QED
  BY <1>3, <1>6 DEF b

\* The flight controller reports its status.
LEMMA StageTick ==
  ASSUME NEW f, NEW m, NEW U, NEW a \in Seq(U), NEW st, NEW g, NEW con \in BOOLEAN,
         Shaken(f, m, a, st, g), Stage(f, m, a, st, g, con), NEW x, Kind(x) = Following(st, g)
  PROVE  Stage(f, m, Append(a, x), Following(st, g), g, con)
<1> DEFINE b == Append(a, x)
           k == Following(st, g)
<1>1. /\ \A X : Somewhere(X, f, m, b) <=> Somewhere(X, f, m, a) \/ k \in X
      /\ \A X, Y : NeverAhead(X, Y, f, m, b)
              <=> NeverAhead(X, Y, f, m, a) /\ ~(Somewhere(X, f, m, a) /\ k \in Y)
  <2>1. /\ \A X : Somewhere(X, f, m, b) <=> Somewhere(X, f, m, a) \/ Kind(x) \in X
        /\ \A X, Y : NeverAhead(X, Y, f, m, b)
              <=> NeverAhead(X, Y, f, m, a) /\ ~(Somewhere(X, f, m, a) /\ Kind(x) \in Y)
    BY RingAppend
  <2> QED
    BY <2>1
<1>2. /\ k \in {"Disconnected", "HandshakeAck", "Connected"}
      /\ k = "Connected" => g = "Connected" /\ ~Somewhere(Drops, f, m, a)
      /\ k = "Connected" /\ st # "Connected" => st = "HandshakeAck"
      /\ k = "HandshakeAck" => g = "HandshakeReq"
  BY DEF Shaken, Following
<1>3. /\ k \notin Requests /\ k \notin Openings /\ k \notin Counts
      /\ k \in Reports <=> k = "Connected"
      /\ k \in Ups <=> k = "HandshakeAck"
  BY <1>2, KindSets
<1>4. CASE NotReported(f, m, a, st, con)
  <2>1. CASE k = "Connected"
    <3>1. NeverAhead(Drops, Reports, f, m, a) /\ NeverAhead(Reports, Ups, f, m, a)
      BY <1>4, RingNone DEF NotReported
    <3>2. Reported(f, m, b, k, g, con)
      <4> HIDE DEF b, k
      <4> QED
        BY <1>1, <1>2, <1>3, <1>4, <2>1, <3>1 DEF NotReported, Reported
    <3> QED
      BY <3>2 DEF Stage
  <2>2. CASE k # "Connected"
    <3>1. NotReported(f, m, b, k, con)
      <4> HIDE DEF b, k
      <4> QED
        BY <1>1, <1>3, <1>4, <2>2 DEF NotReported
    <3> QED
      BY <3>1 DEF Stage
  <2> QED
    BY <2>1, <2>2
<1>5. CASE Reported(f, m, a, st, g, con)
  <2>1. k = st
    BY <1>5 DEF Reported, Following
  <2>2. Reported(f, m, b, k, g, con)
    <3> HIDE DEF b, k
    <3> QED
      BY <1>1, <1>2, <1>3, <1>5, <2>1 DEF Reported
  <2> QED
    BY <2>2 DEF Stage
<1>6. ASSUME Harmless(f, m, a, st, con), st = "HandshakeAck" => g # "Connected"
      PROVE  Harmless(f, m, b, k, con)
  <2>1. k = "Connected" => con
    BY <1>2, <1>6 DEF Harmless
  <2>2. k = "Connected" => ~Somewhere(Downs, f, m, a)
    BY <1>2, DownsDrop
  <2> HIDE DEF b, k
  <2> QED
    BY <1>1, <1>3, <1>6, <2>1, <2>2 DEF Harmless
<1>7. CASE Asked(f, m, a, st, g, con)
  <2>1. k = st /\ Harmless(f, m, b, k, con)
    BY <1>6, <1>7 DEF Asked, Following
  <2>2. Asked(f, m, b, k, g, con)
    <3> HIDE DEF b, k
    <3> QED
      BY <1>1, <1>2, <1>3, <1>7, <2>1 DEF Asked
  <2> QED
    BY <2>2 DEF Stage
<1>8. CASE Opening(f, m, a, st, g, con)
  <2>1. Harmless(f, m, b, k, con)
    BY <1>6, <1>8 DEF Opening
  <2>2. Opening(f, m, b, k, g, con)
    <3> HIDE DEF b, k
    <3> QED
      BY <1>1, <1>2, <1>3, <1>8, <2>1 DEF Opening
  <2> QED
    BY <2>2 DEF Stage
<1>9. CASE Counted(f, m, a, con)
  <2>1. Counted(f, m, b, con)
    <3>1. CountSafe(a, con) => CountSafe(b, con)
      BY CountSafeAppend
    <3> HIDE DEF b, k
    <3> QED
      BY <1>1, <1>3, <1>9, <3>1 DEF Counted
  <2> QED
    BY <2>1 DEF Stage
<1> QED
  BY <1>4, <1>5, <1>7, <1>8, <1>9 DEF Stage

\* It takes a packet of the handshake.
LEMMA StageTake ==
  ASSUME NEW U, NEW f \in Seq(U), f # <<>>, NEW m, NEW a, NEW st, NEW g, NEW con \in BOOLEAN,
         Shaken(f, m, a, st, g), Stage(f, m, a, st, g, con),
         Kind(Head(f)) \in {"askConnection", "confirm"}
  PROVE  Stage(Tail(f), m, a, st, Heard(Kind(Head(f)), g), con)
<1> DEFINE k == Kind(Head(f))
           t == Tail(f)
           h == Heard(k, g)
<1>1. /\ \A X : Somewhere(X, f, m, a) <=> k \in X \/ Somewhere(X, t, m, a)
      /\ \A X, Y : NeverAhead(X, Y, f, m, a)
              <=> NeverAhead(X, Y, t, m, a) /\ ~(k \in X /\ Somewhere(Y, t, m, a))
  BY RingTail
<1>2. /\ k \notin Requests /\ k \notin Openings /\ k \notin Counts /\ k \notin Reports
      /\ k \in Drops <=> k = "askConnection"
      /\ k \in Ups <=> k = "confirm"
      /\ k \in {"askConnection", "confirm"}
  BY KindSets
<1>3. /\ k = "confirm" => h = "Connected"
      /\ k = "askConnection" => h = "HandshakeReq"
  BY DEF Heard
<1> SUFFICES Stage(t, m, a, st, h, con)
  OBVIOUS
<1> HIDE DEF k, t, h
<1>4. Harmless(f, m, a, st, con) => Harmless(t, m, a, st, con)
  BY <1>1, <1>2 DEF Harmless
<1>5. CASE NotReported(f, m, a, st, con)
  <2>1. NotReported(t, m, a, st, con)
    BY <1>1, <1>2, <1>5 DEF NotReported
  <2> QED
    BY <2>1 DEF Stage
<1>6. CASE Reported(f, m, a, st, g, con)
  <2>1. Reported(t, m, a, st, h, con)
    BY <1>1, <1>2, <1>3, <1>6 DEF Reported
  <2> QED
    BY <2>1 DEF Stage
<1>7. CASE Asked(f, m, a, st, g, con)
  <2>1. Asked(t, m, a, st, h, con)
    BY <1>1, <1>2, <1>3, <1>4, <1>7 DEF Asked
  <2> QED
    BY <2>1 DEF Stage
<1>8. CASE Opening(f, m, a, st, g, con)
  <2>1. Opening(t, m, a, st, h, con)
    BY <1>1, <1>2, <1>3, <1>4, <1>8 DEF Opening
  <2> QED
    BY <2>1 DEF Stage
<1>9. CASE Counted(f, m, a, con)
  <2>1. Counted(t, m, a, con)
    BY <1>1, <1>2, <1>9 DEF Counted
  <2> QED
    BY <2>1 DEF Stage
<1> QED
  BY <1>5, <1>6, <1>7, <1>8, <1>9 DEF Stage

\* It takes the request for its session object, and sends that.
LEMMA StageRequest ==
  ASSUME NEW U, NEW f \in Seq(U), f # <<>>, NEW m, NEW V, NEW a \in Seq(V),
         NEW st, NEW g, NEW con \in BOOLEAN,
         Stage(f, m, a, st, g, con), Kind(Head(f)) = "request", NEW x, Kind(x) = "unset"
  PROVE  Stage(Tail(f), m, Append(a, x), st, g, con)
<1> DEFINE t == Tail(f)
           b == Append(a, x)
<1>1. /\ \A X : Somewhere(X, f, m, a) <=> "request" \in X \/ Somewhere(X, t, m, a)
      /\ \A X, Y : NeverAhead(X, Y, f, m, a)
              <=> NeverAhead(X, Y, t, m, a) /\ ~("request" \in X /\ Somewhere(Y, t, m, a))
  <2>1. /\ \A X : Somewhere(X, f, m, a) <=> Kind(Head(f)) \in X \/ Somewhere(X, t, m, a)
        /\ \A X, Y : NeverAhead(X, Y, f, m, a)
              <=> NeverAhead(X, Y, t, m, a) /\ ~(Kind(Head(f)) \in X /\ Somewhere(Y, t, m, a))
    BY RingTail
  <2> QED
    BY <2>1
<1>2. /\ \A X : Somewhere(X, t, m, b) <=> Somewhere(X, t, m, a) \/ Kind(x) \in X
      /\ \A X, Y : NeverAhead(X, Y, t, m, b)
              <=> NeverAhead(X, Y, t, m, a) /\ ~(Somewhere(X, t, m, a) /\ Kind(x) \in Y)
  BY RingAppend
<1>3. \A X, Y : ~Somewhere(X, t, m, a) => NeverAhead(X, Y, t, m, a)
  BY RingNone
<1> HIDE DEF t, b
<1>4. Asked(f, m, a, st, g, con)
  <2>1. Somewhere(Requests, f, m, a)
    BY <1>1, KindSets
  <2> QED
    BY <2>1 DEF Stage, NotReported, Reported, Opening, Counted
<1>5. Harmless(t, m, b, st, con)
  BY <1>1, <1>2, <1>4, KindSets DEF Asked, Harmless
<1>6. Opening(t, m, b, st, g, con)
  BY <1>1, <1>2, <1>3, <1>4, <1>5, KindSets DEF Asked, Opening
<1> QED
  BY <1>6 DEF Stage, t, b

\* It takes the packet that opens a session, and answers with the number of
\* objects.
LEMMA StageOpen ==
  ASSUME NEW U, NEW f \in Seq(U), f # <<>>, NEW m, NEW V, NEW a \in Seq(V),
         NEW st, NEW g, NEW con \in BOOLEAN,
         Stage(f, m, a, st, g, con), Kind(Head(f)) = "open", NEW x, Kind(x) = "count"
  PROVE  Stage(Tail(f), m, Append(a, x), st, g, con)
<1> DEFINE t == Tail(f)
           b == Append(a, x)
<1>1. /\ \A X : Somewhere(X, f, m, a) <=> "open" \in X \/ Somewhere(X, t, m, a)
      /\ \A X, Y : NeverAhead(X, Y, f, m, a)
              <=> NeverAhead(X, Y, t, m, a) /\ ~("open" \in X /\ Somewhere(Y, t, m, a))
  <2>1. /\ \A X : Somewhere(X, f, m, a) <=> Kind(Head(f)) \in X \/ Somewhere(X, t, m, a)
        /\ \A X, Y : NeverAhead(X, Y, f, m, a)
              <=> NeverAhead(X, Y, t, m, a) /\ ~(Kind(Head(f)) \in X /\ Somewhere(Y, t, m, a))
    BY RingTail
  <2> QED
    BY <2>1
<1>2. /\ \A X : Somewhere(X, t, m, b) <=> Somewhere(X, t, m, a) \/ Kind(x) \in X
      /\ \A X, Y : NeverAhead(X, Y, t, m, b)
              <=> NeverAhead(X, Y, t, m, a) /\ ~(Somewhere(X, t, m, a) /\ Kind(x) \in Y)
  BY RingAppend
<1>3. \A X, Y : ~Somewhere(X, t, m, a) => NeverAhead(X, Y, t, m, a)
  BY RingNone
<1>4. /\ Len(a) + 1 \in DOMAIN b /\ b[Len(a) + 1] = x /\ (Len(a) + 1) - 1 = Len(a)
      /\ \A j \in 1 .. Len(a) : j \in DOMAIN a /\ b[j] = a[j]
      /\ \A j \in 1 .. Len(a) : \A l \in 1 .. j - 1 : l \in DOMAIN a /\ b[l] = a[l] /\ l < j
  OBVIOUS
<1> HIDE DEF t, b
<1>5. Opening(f, m, a, st, g, con)
  <2>1. Somewhere(Openings, f, m, a)
    BY <1>1, KindSets
  <2> QED
    BY <2>1 DEF Stage, NotReported, Reported, Asked, Counted
<1>6. CountSafe(b, con)
  <2>1. NoneAhead(Downs, Reports, a) /\ (Has(Reports, a) => con)
    BY <1>5 DEF Opening, Harmless, NeverAhead, Somewhere
  <2>2. ASSUME NEW j \in 1 .. Len(a), Kind(b[j]) \in Reports
        PROVE  con /\ \A l \in 1 .. j - 1 : Kind(b[l]) \notin Downs
    BY <1>4, <2>1, <2>2 DEF Has, NoneAhead
  <2>3. Kind(b[Len(a) + 1]) \in Counts
    BY <1>4, KindSets
  <2> QED
    BY <1>4, <2>2, <2>3 DEF CountSafe
<1>7. Counted(t, m, b, con)
  BY <1>1, <1>2, <1>3, <1>5, <1>6, KindSets DEF Opening, Counted
<1> QED
  BY <1>7 DEF Stage, t, b

\* It gives the connection up.
LEMMA StageTimeout ==
  ASSUME NEW f, NEW m, NEW a, NEW st, NEW g, NEW con \in BOOLEAN, Stage(f, m, a, st, g, con)
  PROVE  Stage(f, m, a, "Disconnected", g, con)
BY DEF Stage, NotReported, Reported, Asked, Opening, Counted, Harmless

\* The handler sends what it was about to send.
LEMMA StageSend ==
  ASSUME NEW U, NEW f \in Seq(U), NEW x, NEW a, NEW st, NEW g, NEW con \in BOOLEAN,
         Kind(x) # "count", Stage(f, Kind(x), a, st, g, con)
  PROVE  Stage(Append(f, x), "nothing", a, st, g, con)
<1> DEFINE t == Append(f, x)
<1>1. /\ "nothing" \notin Reports /\ "nothing" \notin Requests /\ "nothing" \notin Openings
      /\ "nothing" \notin Counts /\ "nothing" \notin Drops /\ "nothing" \notin Ups
      /\ "nothing" \notin Downs
  BY KindSets
<1>2. /\ \A X : "nothing" \notin X
            => (Somewhere(X, t, "nothing", a) <=> Somewhere(X, f, Kind(x), a))
      /\ \A X, Y : "nothing" \notin X /\ "nothing" \notin Y
            => (NeverAhead(X, Y, t, "nothing", a) <=> NeverAhead(X, Y, f, Kind(x), a))
  BY RingSend
<1> SUFFICES Stage(t, "nothing", a, st, g, con)
  OBVIOUS
<1> HIDE DEF t
<1> QED
  BY <1>1, <1>2 DEF Stage, NotReported, Reported, Asked, Opening, Counted, Harmless

\* The handler takes a packet of kind k; n is what it is about to send.
LEMMA StageReceive ==
  ASSUME NEW f, NEW U, NEW a \in Seq(U), a # <<>>, NEW k, NEW n, Kind(Head(a)) = k,
         NEW X, "nothing" \notin X, n \in X => k \in X
  PROVE  /\ Somewhere(X, f, n, Tail(a)) => Somewhere(X, f, "nothing", a)
         /\ Somewhere(X, f, "nothing", a) => k \in X \/ Somewhere(X, f, n, Tail(a))
         /\ k \in X => Somewhere(X, f, "nothing", a)
         /\ k \in X /\ n \in X => Somewhere(X, f, n, Tail(a))
         /\ \A Y : "nothing" \notin Y /\ (n \in Y => k \in Y)
              => (NeverAhead(X, Y, f, "nothing", a) => NeverAhead(X, Y, f, n, Tail(a)))
<1>1. \A Y : "nothing" \notin Y /\ (n \in Y => k \in Y)
        => (NeverAhead(X, Y, f, "nothing", a) => NeverAhead(X, Y, f, n, Tail(a)))
  BY RingReceive
<1>2. Has(X, a) <=> Kind(Head(a)) \in X \/ Has(X, Tail(a))
  BY HasTail
<1> QED
  BY <1>1, <1>2 DEF Somewhere

\* It takes a report of no connection, and asks for one.
LEMMA StageDisconnected ==
  ASSUME NEW f, NEW U, NEW a \in Seq(U), a # <<>>, NEW st, NEW g, NEW con \in BOOLEAN,
         Shaken(f, "nothing", a, st, g), Stage(f, "nothing", a, st, g, con),
         ~Has(Reports, f), Kind(Head(a)) = "Disconnected", NEW next \in BOOLEAN, ~next
  PROVE  Stage(f, "askConnection", Tail(a), st, g, next)
<1> DEFINE m == "nothing"
           n == "askConnection"
           t == Tail(a)
<1>1. /\ \A X : m \notin X /\ (n \in X => "Disconnected" \in X)
            => /\ Somewhere(X, f, n, t) => Somewhere(X, f, m, a)
               /\ Somewhere(X, f, m, a) => "Disconnected" \in X \/ Somewhere(X, f, n, t)
               /\ "Disconnected" \in X => Somewhere(X, f, m, a)
      /\ \A X, Y : m \notin X /\ (n \in X => "Disconnected" \in X)
                     /\ m \notin Y /\ (n \in Y => "Disconnected" \in Y)
            => (NeverAhead(X, Y, f, m, a) => NeverAhead(X, Y, f, n, t))
  BY StageReceive
<1>2. NoneAhead(Downs, Reports, a) => ~Has(Reports, t)
  BY HasTail, KindSets
<1>3. /\ Harmless(f, m, a, st, con) => Harmless(f, n, t, st, next)
  <2> SUFFICES ASSUME Harmless(f, m, a, st, con) PROVE Harmless(f, n, t, st, next)
    OBVIOUS
  <2>1. ~Has(Reports, t) /\ ~Somewhere(Reports, f, n, t)
    BY <1>2, KindSets DEF Harmless, NeverAhead, Somewhere
  <2>2. st # "Connected"
    BY <1>1, KindSets DEF Shaken
  <2>3. NeverAhead(Downs, Reports, f, n, t)
    BY <2>1, RingNone
  <2> QED
    BY <2>1, <2>2, <2>3 DEF Harmless
<1>a. CountSafe(a, con) => CountSafe(t, next)
  BY CountSafeTail, KindSets
<1> SUFFICES Stage(f, n, t, st, g, next)
  OBVIOUS
<1> HIDE DEF t
<1>4. CASE NotReported(f, m, a, st, con)
  BY <1>1, <1>4, KindSets DEF Stage, NotReported
<1>5. CASE Reported(f, m, a, st, g, con)
  <2>1. Somewhere(Reports, f, n, t)
    BY <1>1, <1>5, KindSets DEF Reported
  <2>2. ~Somewhere(Requests, f, n, t)
    BY <1>1, <1>5, KindSets DEF Reported
  <2>3. ~Somewhere(Openings, f, n, t) /\ ~Somewhere(Counts, f, n, t)
    BY <1>1, <1>5, KindSets DEF Reported
  <2>4. NeverAhead(Drops, Reports, f, n, t)
    BY <1>1, <1>5, KindSets DEF Reported
  <2>5. NeverAhead(Reports, Ups, f, n, t)
    BY <1>1, <1>5, KindSets DEF Reported
  <2> QED
    BY <1>5, <2>1, <2>2, <2>3, <2>4, <2>5 DEF Stage, Reported
<1>6. CASE Asked(f, m, a, st, g, con)
  BY <1>1, <1>3, <1>6, KindSets DEF Stage, Asked
<1>7. CASE Opening(f, m, a, st, g, con)
  BY <1>1, <1>3, <1>7, KindSets DEF Stage, Opening
<1>8. CASE Counted(f, m, a, con)
  BY <1>1, <1>a, <1>8, KindSets DEF Stage, Counted
<1> QED
  BY <1>4, <1>5, <1>6, <1>7, <1>8 DEF Stage

\* It takes the answer to a request for a connection, and confirms.
LEMMA StageHandshakeAck ==
  ASSUME NEW f, NEW U, NEW a \in Seq(U), a # <<>>, NEW st, NEW g, NEW con \in BOOLEAN,
         Stage(f, "nothing", a, st, g, con), Kind(Head(a)) = "HandshakeAck"
  PROVE  Stage(f, "confirm", Tail(a), st, g, con)
<1> DEFINE m == "nothing"
           n == "confirm"
           k == "HandshakeAck"
           t == Tail(a)
<1>1. /\ \A X : m \notin X /\ (n \in X => k \in X)
            => /\ Somewhere(X, f, n, t) => Somewhere(X, f, m, a)
               /\ Somewhere(X, f, m, a) => k \in X \/ Somewhere(X, f, n, t)
      /\ \A X, Y : m \notin X /\ (n \in X => k \in X) /\ m \notin Y /\ (n \in Y => k \in Y)
            => (NeverAhead(X, Y, f, m, a) => NeverAhead(X, Y, f, n, t))
  BY StageReceive
<1>2. CountSafe(a, con) => CountSafe(t, con)
  BY CountSafeTail, KindSets
<1> SUFFICES Stage(f, n, t, st, g, con)
  OBVIOUS
<1> HIDE DEF t
<1>3. Harmless(f, m, a, st, con) => Harmless(f, n, t, st, con)
  BY <1>1, KindSets DEF Harmless
<1>4. CASE NotReported(f, m, a, st, con)
  BY <1>1, <1>4, KindSets DEF Stage, NotReported
<1>5. CASE Reported(f, m, a, st, g, con)
  <2>1. Somewhere(Reports, f, n, t)
    BY <1>1, <1>5, KindSets DEF Reported
  <2>2. ~Somewhere(Requests, f, n, t)
    BY <1>1, <1>5, KindSets DEF Reported
  <2>3. ~Somewhere(Openings, f, n, t) /\ ~Somewhere(Counts, f, n, t)
    BY <1>1, <1>5, KindSets DEF Reported
  <2>4. NeverAhead(Drops, Reports, f, n, t)
    BY <1>1, <1>5, KindSets DEF Reported
  <2>5. NeverAhead(Reports, Ups, f, n, t)
    BY <1>1, <1>5, KindSets DEF Reported
  <2> QED
    BY <1>5, <2>1, <2>2, <2>3, <2>4, <2>5 DEF Stage, Reported
<1>6. CASE Asked(f, m, a, st, g, con)
  BY <1>1, <1>3, <1>6, KindSets DEF Stage, Asked
<1>7. CASE Opening(f, m, a, st, g, con)
  BY <1>1, <1>3, <1>7, KindSets DEF Stage, Opening
<1>8. CASE Counted(f, m, a, con)
  BY <1>1, <1>2, <1>8, KindSets DEF Stage, Counted
<1> QED
  BY <1>4, <1>5, <1>6, <1>7, <1>8 DEF Stage

\* It takes a report of a connection while it is connected: nothing to do.
LEMMA StageConnected ==
  ASSUME NEW f, NEW U, NEW a \in Seq(U), a # <<>>, NEW st, NEW g, NEW con \in BOOLEAN, con,
         Stage(f, "nothing", a, st, g, con), Kind(Head(a)) = "Connected"
  PROVE  Stage(f, "nothing", Tail(a), st, g, con)
<1> DEFINE m == "nothing"
           k == "Connected"
           t == Tail(a)
<1>1. /\ \A X : m \notin X
            => /\ Somewhere(X, f, m, t) => Somewhere(X, f, m, a)
               /\ Somewhere(X, f, m, a) => k \in X \/ Somewhere(X, f, m, t)
      /\ \A X, Y : m \notin X /\ m \notin Y
            => (NeverAhead(X, Y, f, m, a) => NeverAhead(X, Y, f, m, t))
  BY StageReceive
<1>2. CountSafe(a, con) => CountSafe(t, con)
  BY CountSafeTail, KindSets
<1> SUFFICES Stage(f, m, t, st, g, con)
  OBVIOUS
<1> HIDE DEF t
<1>3. Harmless(f, m, a, st, con) => Harmless(f, m, t, st, con)
  BY <1>1, KindSets DEF Harmless
<1>4. CASE NotReported(f, m, a, st, con) \/ Reported(f, m, a, st, g, con)
  BY <1>4 DEF NotReported, Reported
<1> DEFINE Kept(X) == Somewhere(X, f, m, t) <=> Somewhere(X, f, m, a)
           Sorted(X, Y) == NeverAhead(X, Y, f, m, a) => NeverAhead(X, Y, f, m, t)
<1>8. /\ m \notin Drops /\ m \notin Ups /\ m \notin Requests /\ m \notin Openings /\ m \notin Counts
      /\ k \notin Requests /\ k \notin Openings /\ k \notin Counts
  BY KindSets
<1>9. /\ Kept(Requests) /\ Kept(Openings) /\ Kept(Counts)
      /\ Sorted(Requests, Requests) /\ Sorted(Drops, Requests) /\ Sorted(Requests, Ups)
      /\ Sorted(Openings, Openings) /\ Sorted(Ups, Openings) /\ Sorted(Counts, Counts)
  BY <1>1, <1>8
<1>5. CASE Asked(f, m, a, st, g, con)
  BY <1>3, <1>5, <1>9 DEF Stage, Asked
<1>6. CASE Opening(f, m, a, st, g, con)
  BY <1>3, <1>6, <1>9 DEF Stage, Opening
<1>7. CASE Counted(f, m, a, con)
  BY <1>2, <1>7, <1>9 DEF Stage, Counted
<1> QED
  BY <1>4, <1>5, <1>6, <1>7 DEF Stage

\* It takes the first report of a connection, and asks for the session.
LEMMA StageReport ==
  ASSUME NEW f, NEW U, NEW a \in Seq(U), a # <<>>, NEW st, NEW g, NEW con \in BOOLEAN, ~con,
         Stage(f, "nothing", a, st, g, con), Kind(Head(a)) = "Connected",
         NEW next \in BOOLEAN, next
  PROVE  Stage(f, "request", Tail(a), st, g, next)
<1> DEFINE m == "nothing"
           n == "request"
           k == "Connected"
           t == Tail(a)
<1>1. /\ \A X : m \notin X /\ (n \in X => k \in X)
            => /\ Somewhere(X, f, n, t) => Somewhere(X, f, m, a)
               /\ Somewhere(X, f, m, a) => k \in X \/ Somewhere(X, f, n, t)
               /\ k \in X => Somewhere(X, f, m, a)
      /\ \A X, Y : m \notin X /\ (n \in X => k \in X) /\ m \notin Y /\ (n \in Y => k \in Y)
            => (NeverAhead(X, Y, f, m, a) => NeverAhead(X, Y, f, n, t))
  BY StageReceive
<1>2. /\ \A X : Has(X, a) <=> k \in X \/ Has(X, t)
      /\ \A X, Y : NoneAhead(X, Y, a) <=> NoneAhead(X, Y, t) /\ ~(k \in X /\ Has(Y, t))
  <2>1. /\ \A X : Has(X, a) <=> Kind(Head(a)) \in X \/ Has(X, t)
        /\ \A X, Y : NoneAhead(X, Y, a) <=> NoneAhead(X, Y, t) /\ ~(Kind(Head(a)) \in X /\ Has(Y, t))
    BY HasTail
  <2> QED
    BY <2>1
<1>3. ~CountSafe(a, con)
  BY CountSafeTail, KindSets
<1> SUFFICES Stage(f, n, t, st, g, next)
  OBVIOUS
<1> HIDE DEF t
<1>4. Reported(f, m, a, st, g, con)
  <2>1. Somewhere(Reports, f, m, a)
    BY <1>1, KindSets
  <2> QED
    BY <1>3, <2>1 DEF Stage, NotReported, Asked, Opening, Harmless, Counted
<1>5. /\ ~Somewhere(Requests, f, m, a) /\ ~Has(Requests, f) /\ ~Has(Requests, t)
      /\ ~Has(Drops, f) /\ ~Has(Ups, t)
  BY <1>2, <1>4, KindSets DEF Reported, Somewhere, NeverAhead
<1>6. NeverAhead(Requests, Requests, f, n, t)
  <2>1. NoneAhead(Requests, Requests, f) /\ NoneAhead(Requests, Requests, t)
    BY <1>5 DEF Has, NoneAhead
  <2> QED
    BY <1>5, <2>1 DEF NeverAhead
<1>7. NeverAhead(Drops, Requests, f, n, t) /\ NeverAhead(Requests, Ups, f, n, t)
  <2>1. /\ NoneAhead(Drops, Requests, f) /\ NoneAhead(Drops, Requests, t)
        /\ NoneAhead(Requests, Ups, f) /\ NoneAhead(Requests, Ups, t)
    BY <1>5 DEF Has, NoneAhead
  <2>2. n \notin Drops /\ n \notin Ups
    BY KindSets
  <2> QED
    BY <1>5, <2>1, <2>2 DEF NeverAhead
<1>8. Harmless(f, n, t, st, next)
  <2>1. NeverAhead(Drops, Reports, f, n, t)
    <3>1. NoneAhead(Drops, Reports, f) /\ NoneAhead(Drops, Reports, t)
      BY <1>2, <1>4 DEF Reported, NeverAhead
    <3> QED
      BY <1>5, <3>1, KindSets DEF NeverAhead
  <2> QED
    BY <2>1, DownsDrop DEF Harmless
<1>9. Asked(f, n, t, st, g, next)
  <2>1. Somewhere(Requests, f, n, t)
    BY KindSets DEF Somewhere
  <2>2. ~Somewhere(Openings, f, n, t) /\ ~Somewhere(Counts, f, n, t)
    BY <1>1, <1>4, KindSets DEF Reported
  <2> QED
    BY <1>4, <1>6, <1>7, <1>8, <2>1, <2>2 DEF Reported, Asked
<1> QED
  BY <1>9 DEF Stage

\* It takes the flight controller's session object, and opens a session.
LEMMA StageSession ==
  ASSUME NEW f, NEW U, NEW a \in Seq(U), a # <<>>, NEW st, NEW g, NEW con \in BOOLEAN,
         Stage(f, "nothing", a, st, g, con), Kind(Head(a)) = "unset"
  PROVE  Stage(f, "open", Tail(a), st, g, con)
<1> DEFINE m == "nothing"
           n == "open"
           k == "unset"
           t == Tail(a)
<1>1. /\ \A X : m \notin X /\ (n \in X => k \in X)
            => /\ Somewhere(X, f, n, t) => Somewhere(X, f, m, a)
               /\ k \in X => Somewhere(X, f, m, a)
               /\ k \in X /\ n \in X => Somewhere(X, f, n, t)
      /\ \A X, Y : m \notin X /\ (n \in X => k \in X) /\ m \notin Y /\ (n \in Y => k \in Y)
            => (NeverAhead(X, Y, f, m, a) => NeverAhead(X, Y, f, n, t))
  BY StageReceive
<1> SUFFICES Stage(f, n, t, st, g, con)
  OBVIOUS
<1> HIDE DEF t
<1>2. Opening(f, m, a, st, g, con)
  <2>1. m \notin Openings /\ (n \in Openings => k \in Openings) /\ k \in Openings
    BY KindSets
  <2>2. Somewhere(Openings, f, m, a)
    BY <1>1, <2>1
  <2> QED
    BY <2>2 DEF Stage, NotReported, Reported, Asked, Counted
<1>3. Harmless(f, n, t, st, con)
  BY <1>1, <1>2, KindSets DEF Opening, Harmless
<1> QED
  BY <1>1, <1>2, <1>3, KindSets DEF Stage, Opening

\* It takes the number of objects: there is no other such packet, and no
\* request or opening of a session on the ring.
LEMMA StageCount ==
  ASSUME NEW f, NEW U, NEW a \in Seq(U), a # <<>>, NEW st, NEW g, NEW con \in BOOLEAN,
         Stage(f, "nothing", a, st, g, con), Kind(Head(a)) = "count"
  PROVE  Stage(f, "count", Tail(a), st, g, con)
<1> DEFINE m == "nothing"
           n == "count"
           t == Tail(a)
<1>1. /\ \A X : m \notin X /\ (n \in X => n \in X)
            => /\ Somewhere(X, f, n, t) => Somewhere(X, f, m, a)
               /\ n \in X => Somewhere(X, f, m, a)
      /\ \A X, Y : m \notin X /\ (n \in X => n \in X) /\ m \notin Y /\ (n \in Y => n \in Y)
            => (NeverAhead(X, Y, f, m, a) => NeverAhead(X, Y, f, n, t))
  BY StageReceive
<1> SUFFICES Stage(f, n, t, st, g, con)
  OBVIOUS
<1> HIDE DEF t
<1>2. Counted(f, m, a, con)
  <2>1. m \notin Counts /\ n \in Counts
    BY KindSets
  <2>2. Somewhere(Counts, f, m, a)
    BY <1>1, <2>1
  <2> QED
    BY <2>2 DEF Stage, NotReported, Reported, Asked, Opening
<1> QED
  BY <1>1, <1>2, KindSets DEF Stage, Counted

\* The handler is about to acknowledge the number of objects.
LEMMA StageDone ==
  ASSUME NEW f, NEW a, NEW st, NEW g, NEW con, Stage(f, "count", a, st, g, con)
  PROVE  /\ ~Somewhere(Requests, f, "count", a) /\ ~Somewhere(Openings, f, "count", a)
         /\ ~Has(Counts, f) /\ ~Has(Counts, a)
<1>1. "count" \in Counts
  BY KindSets
<1>2. Somewhere(Counts, f, "count", a)
  BY <1>1 DEF Somewhere
<1> QED
  BY <1>1, <1>2 DEF Stage, NotReported, Reported, Asked, Opening, Counted, NeverAhead

-----------------------------------------------------------------------------
(***************************************************************************)
(* The packets there are before the bridge has its session, and after.     *)
(***************************************************************************)
AskConnection == CreateGCSTelemetryStatsObjectPacket("HandshakeReq")
Confirm == CreateGCSTelemetryStatsObjectPacket("Connected")
Setters == {CreateObjectSetter(d, g) : d \in Definitions, g \in Nat}
Ticks == {FlightTelemetryStats("ObjectCmd", s) : s \in {"Disconnected", "HandshakeAck", "Connected"}}

FirstTo ==
  {AskConnection, Confirm, CreateSessionManagingRequest, CreateSessionManagingPacket(0, 0)}

\* With n objects.
FirstFrom(n) ==
  Ticks
    \cup {SessionManaging("ObjectCmd", 0, k, o) : k \in UInt8, o \in ObjectIDs \cup {0}}
    \cup {SessionManaging("ObjectCmdWithAck", 0, n, 0)}

\* In session sid, the object at index i having been asked for last.
LaterTo(sid, i) ==
  {AskConnection, Confirm, CreateSessionManagingRequest, CreatePacketAck("SessionManaging"),
   CreateSessionManagingPacket(sid, i)} \cup Setters

\* In session sid, o being the object asked for last.
LaterFrom(sid, o) ==
  Ticks
    \cup {SessionManaging("ObjectCmd", sid, 0, x) : x \in ObjectIDs \cup {0}}
    \cup {SessionManaging("ObjectCmdWithAck", sid, 0, o)}

\* Each kind of packet for the flight controller, and what it makes of it.
LEMMA FirstToKinds ==
  ASSUME NEW q \in FirstTo
  PROVE  /\ Kind(q) \in {"askConnection", "confirm", "request", "open"}
         /\ Kind(q) = "askConnection" => q = AskConnection
         /\ Kind(q) = "confirm" => q = Confirm
         /\ Kind(q) = "request" => q = CreateSessionManagingRequest
         /\ Kind(q) = "open" => q = CreateSessionManagingPacket(0, 0)
BY KindOf, KindOfSession DEF FirstTo, AskConnection, Confirm

LEMMA LaterToKinds ==
  ASSUME NEW sid, sid # 0, NEW i, NEW q \in LaterTo(sid, i)
  PROVE  /\ Kind(q) \in {"askConnection", "confirm", "request", "ack", "query", "setter"}
         /\ Kind(q) = "askConnection" => q = AskConnection
         /\ Kind(q) = "confirm" => q = Confirm
         /\ Kind(q) = "request" => q = CreateSessionManagingRequest
         /\ Kind(q) = "ack" => q = CreatePacketAck("SessionManaging")
         /\ Kind(q) = "query" => q = CreateSessionManagingPacket(sid, i)
         /\ Kind(q) = "setter" => q \in Setters
<1>1. \A p \in Setters : Kind(p) = "setter"
  BY KindOf DEF Setters
<1> QED
  BY <1>1, KindOf, KindOfSession DEF LaterTo, AskConnection, Confirm

\* Each kind of packet from the flight controller.
LEMMA TickKinds ==
  ASSUME NEW p \in Ticks
  PROVE  /\ Kind(p) \in {"Disconnected", "HandshakeAck", "Connected"}
         /\ p = FlightTelemetryStats("ObjectCmd", Kind(p))
BY KindOf DEF Ticks

LEMMA FirstFromKinds ==
  ASSUME NEW n, NEW p \in FirstFrom(n)
  PROVE  /\ Kind(p) \in {"Disconnected", "HandshakeAck", "Connected", "unset", "count"}
         /\ Kind(p) \in {"Disconnected", "HandshakeAck", "Connected"}
              => p \in Ticks /\ p = FlightTelemetryStats("ObjectCmd", Kind(p))
         /\ Kind(p) = "unset"
              => \E k \in UInt8, o \in ObjectIDs \cup {0} : p = SessionManaging("ObjectCmd", 0, k, o)
         /\ Kind(p) = "count" => p = SessionManaging("ObjectCmdWithAck", 0, n, 0)
BY TickKinds, KindOfSession DEF FirstFrom

LEMMA LaterFromKinds ==
  ASSUME NEW sid, sid # 0, NEW obj, NEW p \in LaterFrom(sid, obj)
  PROVE  /\ Kind(p) \in {"Disconnected", "HandshakeAck", "Connected", "current", "reply"}
         /\ Kind(p) \in {"Disconnected", "HandshakeAck", "Connected"}
              => p \in Ticks /\ p = FlightTelemetryStats("ObjectCmd", Kind(p))
         /\ Kind(p) = "current"
              => \E o \in ObjectIDs \cup {0} : p = SessionManaging("ObjectCmd", sid, 0, o)
         /\ Kind(p) = "reply" => p = SessionManaging("ObjectCmdWithAck", sid, 0, obj)
BY TickKinds, KindOfSession DEF LaterFrom

\* A sequence without the kinds X is one over the packets of other kinds.
LEMMA Narrow ==
  ASSUME NEW U, NEW s \in Seq(U), NEW X, ~Has(X, s), NEW V,
         \A x \in U : Kind(x) \notin X => x \in V
  PROVE  s \in Seq(V)
<1>1. Len(s) \in Nat /\ DOMAIN s = 1 .. Len(s) /\ s = [i \in 1 .. Len(s) |-> s[i]]
  OBVIOUS
<1>2. \A i \in 1 .. Len(s) : s[i] \in V
  BY <1>1, ElementOfSeq DEF Has
<1> QED
  BY <1>1, <1>2, SeqDef

LEMMA NoKind ==
  ASSUME NEW U, NEW s \in Seq(U), NEW X, \A x \in U : Kind(x) \notin X
  PROVE  ~Has(X, s)
BY ElementOfSeq DEF Has
=============================================================================
