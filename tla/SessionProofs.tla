--------------------------- MODULE SessionProofs ---------------------------
(***************************************************************************)
(* What Session guarantees for every object table, session identifier,     *)
(* width of the index and size of the channels.                            *)
(***************************************************************************)
EXTENDS LinkProofs

-----------------------------------------------------------------------------
(***************************************************************************)
(* The setters share the map of their goroutine, which changes behind      *)
(* their back: what the setters in s carry when the goroutines are ps.     *)
(***************************************************************************)
Carried(s, ps) ==
  \A k \in DOMAIN s :
    s[k].def = "Meta"
      => LET g == s[k].data.map
             last == \A j \in k + 1 .. Len(s) :
                       s[j].def = "Meta" => s[j].data.map # g
         IN  /\ g \in DOMAIN ps
             /\ ps[g].pc # "sendMeta" /\ last => ps[g].modes = Modes(s[k].data.of)

\* The writer takes the oldest packet.
LEMMA CarriedTail ==
  ASSUME NEW S, NEW s \in Seq(S), s # <<>>, NEW ps, Carried(s, ps)
  PROVE  Carried(Tail(s), ps)
<1> DEFINE t == Tail(s)
<1>1. /\ Len(s) \in Nat /\ Len(t) = Len(s) - 1
      /\ DOMAIN t = 1 .. Len(t) /\ DOMAIN s = 1 .. Len(s)
      /\ \A k \in DOMAIN t : t[k] = s[k + 1]
  OBVIOUS
<1> HIDE DEF t
<1> SUFFICES ASSUME NEW k \in DOMAIN t, t[k].def = "Meta"
             PROVE  LET g == t[k].data.map
                        last == \A j \in k + 1 .. Len(t) :
                                  t[j].def = "Meta" => t[j].data.map # g
                    IN  /\ g \in DOMAIN ps
                        /\ ps[g].pc # "sendMeta" /\ last
                             => ps[g].modes = Modes(t[k].data.of)
  BY DEF Carried, t
<1>2. k + 1 \in DOMAIN s /\ s[k + 1] = t[k]
  BY <1>1
<1>3. ASSUME \A j \in k + 1 .. Len(t) : t[j].def = "Meta" => t[j].data.map # t[k].data.map
      PROVE  \A j \in k + 1 + 1 .. Len(s) : s[j].def = "Meta" => s[j].data.map # t[k].data.map
  <2> TAKE j \in k + 1 + 1 .. Len(s)
  <2>1. j - 1 \in k + 1 .. Len(t) /\ t[j - 1] = s[j]
    BY <1>1
  <2> QED
    BY <1>3, <2>1
<1> QED
  BY <1>2, <1>3 DEF Carried

\* A packet that is no setter joins the channel.
LEMMA CarriedOther ==
  ASSUME NEW S, NEW s \in Seq(S), NEW x \in S, x.def # "Meta", NEW ps, Carried(s, ps)
  PROVE  Carried(Append(s, x), ps)
<1> DEFINE t == Append(s, x)
<1>1. /\ Len(s) \in Nat /\ Len(t) = Len(s) + 1
      /\ DOMAIN t = 1 .. Len(t) /\ DOMAIN s = 1 .. Len(s)
      /\ t[Len(t)] = x /\ \A k \in DOMAIN s : t[k] = s[k]
  OBVIOUS
<1> HIDE DEF t
<1>2. \A k \in DOMAIN t : t[k].def = "Meta" => k \in DOMAIN s /\ t[k] = s[k]
  BY <1>1
<1>3. \A k \in DOMAIN s : \A j : j \in k + 1 .. Len(s) => j \in k + 1 .. Len(t) /\ t[j] = s[j]
  BY <1>1
<1> QED
  BY <1>1, <1>2, <1>3 DEF Carried, t

\* Goroutine g sends its setter for d: of its setters only the newest has to
\* agree with the map, and it does.
LEMMA CarriedSetter ==
  ASSUME NEW S, NEW s \in Seq(S), NEW x \in S, NEW ps, NEW qs, Carried(s, ps),
         x.def = "Meta", x.data.map \in DOMAIN ps, DOMAIN qs = DOMAIN ps,
         \A h \in DOMAIN ps : h # x.data.map => qs[h] = ps[h],
         qs[x.data.map].modes = Modes(x.data.of)
  PROVE  Carried(Append(s, x), qs)
<1> DEFINE t == Append(s, x)
<1>1. /\ Len(s) \in Nat /\ Len(t) = Len(s) + 1
      /\ DOMAIN t = 1 .. Len(t) /\ DOMAIN s = 1 .. Len(s)
      /\ t[Len(t)] = x /\ \A k \in DOMAIN s : t[k] = s[k]
  OBVIOUS
<1> HIDE DEF t
<1> SUFFICES ASSUME NEW k \in DOMAIN t, t[k].def = "Meta"
             PROVE  LET g == t[k].data.map
                        last == \A j \in k + 1 .. Len(t) :
                                  t[j].def = "Meta" => t[j].data.map # g
                    IN  /\ g \in DOMAIN qs
                        /\ qs[g].pc # "sendMeta" /\ last
                             => qs[g].modes = Modes(t[k].data.of)
  BY DEF Carried, t
<1>2. CASE k = Len(t)
  BY <1>1, <1>2
<1>3. CASE k # Len(t)
  <2>1. k \in DOMAIN s /\ t[k] = s[k] /\ Len(t) \in k + 1 .. Len(t)
    BY <1>1, <1>3
  <2>2. CASE t[k].data.map = x.data.map
    BY <1>1, <2>1, <2>2
  <2>3. CASE t[k].data.map # x.data.map
    <3>1. \A j \in k + 1 .. Len(s) : j \in k + 1 .. Len(t) /\ t[j] = s[j]
      BY <1>1, <2>1
    <3> QED
      BY <2>1, <2>3, <3>1 DEF Carried
  <2> QED
    BY <2>2, <2>3
<1> QED
  BY <1>2, <1>3

\* The goroutines go on, or new ones start, without a setter being sent: a
\* map changes only on the way to the send of the setter it is changed for.
LEMMA CarriedStep ==
  ASSUME NEW s, NEW ps, NEW qs, Carried(s, ps), DOMAIN ps \subseteq DOMAIN qs,
         \A h \in DOMAIN ps :
           \/ qs[h].pc = "sendMeta"
           \/ ps[h].pc # "sendMeta" /\ qs[h].modes = ps[h].modes
  PROVE  Carried(s, qs)
BY DEF Carried

\* Inductive: a goroutine at the send of a setter has set its map for it, and
\* only the goroutines send setters.
SetterInv ==
  /\ TypeInv
  /\ \A g \in DOMAIN publishers :
       publishers[g].pc = "sendMeta"
         => publishers[g].modes = Modes(Head(publishers[g].todo))
  /\ \A k \in DOMAIN out : out[k].def # "Meta"
  /\ Carried(fcIn, publishers)

LEMMA InitSetterInv == Init => SetterInv
<1> SUFFICES ASSUME Init PROVE SetterInv
  OBVIOUS
<1>1. \A k \in DOMAIN fcIn : fcIn[k].def # "Meta"
  BY DEF Init, CreateGCSTelemetryStatsObjectPacket, NewPacket
<1> QED
  BY <1>1, InitTypeInv DEF Init, SetterInv, Carried

\* What the handlers send is no setter.
LEMMA HandlersSendNoSetter ==
  /\ \A s \in Statuses : CreateGCSTelemetryStatsObjectPacket(s).def # "Meta"
  /\ CreateSessionManagingRequest.def # "Meta"
  /\ CreatePacketAck("SessionManaging").def # "Meta"
  /\ \A sid, i : CreateSessionManagingPacket(sid, i).def # "Meta"
BY DEF CreateGCSTelemetryStatsObjectPacket, CreateSessionManagingRequest,
       CreatePacketAck, CreateSessionManagingPacket, NewPacket

LEMMA AuthSetter ==
  ASSUME SetterInv, AuthStep
  PROVE  SetterInv'
<1>1. TypeInv'
  BY ReceiveType, HandlerSendType DEF AuthStep, SetterInv
<1>2. /\ fcIn \in Seq(ToFlightController) /\ out \in Seq(ToFlightController)
      /\ publishers \in Seq(Publishers)
  BY DEF SetterInv, TypeInv, TypeOK
<1>3. \A k \in DOMAIN out' : out'[k].def # "Meta"
  <2>1. out' = out \/ out' = <<>> \/ \E q : q.def # "Meta" /\ out' = <<q>>
    <3>1. CASE Receive
      BY <3>1, HandlersSendNoSetter
         DEF Receive, ReceiveDisconnected, ReceiveHandshakeAck, ReceiveConnected,
             ReceiveSession, ReceiveReply, ReceiveOther, Statuses
    <3>2. CASE SendOpen \/ SendAck \/ SendOut
      BY <3>2, HandlersSendNoSetter
         DEF SendOpen, SendAck, SendOut, EnumerationDone, AskNextObject
    <3> QED
      BY <3>1, <3>2 DEF AuthStep
  <2> QED
    BY <2>1 DEF SetterInv
<1>4. Carried(fcIn', publishers)
  <2>1. CASE fcIn' = fcIn
    BY <2>1 DEF SetterInv
  <2>2. CASE fcIn' # fcIn
    <3>1. PICK x \in ToFlightController : x.def # "Meta" /\ fcIn' = Append(fcIn, x)
      <4>1. CASE SendOut
        <5>1. Head(out) = out[1] /\ 1 \in DOMAIN out /\ Head(out) \in ToFlightController
          BY <1>2, <4>1 DEF SendOut
        <5> QED
          BY <4>1, <5>1 DEF SendOut, Send, SetterInv
      <4>2. CASE SendOpen \/ SendAck
        <5>1. CreateSessionManagingPacket(0, 0) \in ToFlightController
          BY ConstructorTypes, PacketsAssumption DEF UInt8
        <5> QED
          BY <4>2, <5>1, ConstructorTypes, HandlersSendNoSetter DEF SendOpen, SendAck, Send
      <4>3. CASE Receive
        BY <2>2, <4>3 DEF Receive, ReceiveDisconnected, ReceiveHandshakeAck,
             ReceiveConnected, ReceiveSession, ReceiveReply, ReceiveOther, Take
      <4> QED
        BY <4>1, <4>2, <4>3 DEF AuthStep
    <3> QED
      BY <1>2, <3>1, CarriedOther DEF SetterInv
  <2> QED
    BY <2>1, <2>2
<1>5. CASE publishers' = publishers
  BY <1>1, <1>3, <1>4, <1>5 DEF SetterInv
<1>6. CASE publishers' # publishers
  <2>1. StartPublisher
    BY <1>6 DEF AuthStep, Receive, ReceiveDisconnected, ReceiveHandshakeAck,
         ReceiveConnected, ReceiveSession, ReceiveReply, ReceiveOther, Take, SendOpen,
         SendAck, SendOut, EnumerationDone, AskNextObject, publisherVars
  <2>2. /\ DOMAIN publishers' = DOMAIN publishers \cup {Len(publishers) + 1}
        /\ publishers'[Len(publishers) + 1].pc = "pause"
        /\ \A g \in DOMAIN publishers : publishers'[g] = publishers[g]
    BY <1>2, <2>1 DEF StartPublisher
  <2>3. Carried(fcIn', publishers')
    <3>1. \A h \in DOMAIN publishers :
            \/ publishers'[h].pc = "sendMeta"
            \/ publishers[h].pc # "sendMeta" /\ publishers'[h].modes = publishers[h].modes
      BY <2>2
    <3> QED
      BY <1>4, <2>2, <3>1, CarriedStep
  <2> QED
    BY <1>1, <1>3, <2>2, <2>3 DEF SetterInv
<1> QED
  BY <1>5, <1>6

LEMMA PublishSetter ==
  ASSUME SetterInv, NEW g \in DOMAIN publishers, Publish(g)
  PROVE  SetterInv'
<1> DEFINE me == publishers[g]
<1>1. TypeInv'
  BY PublishType DEF SetterInv
<1>2. /\ fcIn \in Seq(ToFlightController) /\ publishers \in Seq(Publishers)
      /\ me \in Publishers /\ g \in Nat
      /\ me.pc = "sendMeta" => me.todo # <<>>
  BY ElementOfSeq DEF SetterInv, TypeInv, TypeOK
<1>3. UNCHANGED out
  BY DEF Publish, handlerVars
<1>4. /\ DOMAIN publishers' = DOMAIN publishers
      /\ \A h \in DOMAIN publishers : h # g => publishers'[h] = publishers[h]
  BY <1>2 DEF Publish, PublisherStep, EndPause, SetMeta, SendMeta, StartDefinitions,
              SendAsRotondeDefinitions, EndPublisher, TornRead
<1>5. CASE SendMeta(g)
  <2> DEFINE x == CreateObjectSetter(Head(me.todo), g)
  <2>1. /\ x.def = "Meta" /\ x.data.map = g /\ x.data.of = Head(me.todo)
        /\ x \in ToFlightController /\ fcIn' = Append(fcIn, x)
    <3>1. Head(me.todo) \in Definitions
      BY <1>2, <1>5, HeadTailProperties DEF SendMeta, Publishers
    <3> QED
      BY <1>2, <1>5, <3>1, ConstructorTypes DEF SendMeta, Send, CreateObjectSetter, NewPacket
  <2>2. publishers'[g].pc = "setMeta" /\ publishers'[g].modes = me.modes
    BY <1>2, <1>5 DEF SendMeta, Publishers
  <2>3. me.modes = Modes(x.data.of)
    BY <1>5, <2>1 DEF SendMeta, SetterInv
  <2> HIDE DEF x
  <2>4. Carried(fcIn', publishers')
    BY <1>2, <1>4, <2>1, <2>2, <2>3, CarriedSetter DEF SetterInv
  <2> QED
    BY <1>1, <1>3, <1>4, <2>2, <2>4 DEF SetterInv
<1>6. CASE SetMeta(g)
  <2>1. /\ publishers'[g].pc = "sendMeta" /\ publishers'[g].todo = me.todo
        /\ publishers'[g].modes = Modes(Head(me.todo)) /\ fcIn' = fcIn
    BY <1>2, <1>6 DEF SetMeta, Publishers
  <2>2. \A h \in DOMAIN publishers :
          \/ publishers'[h].pc = "sendMeta"
          \/ /\ publishers[h].pc # "sendMeta"
             /\ publishers'[h].modes = publishers[h].modes
          \/ publishers'[h] = publishers[h]
    BY <1>4, <2>1
  <2>3. Carried(fcIn', publishers')
    BY <1>4, <2>1, <2>2, CarriedStep DEF SetterInv
  <2> QED
    BY <1>1, <1>3, <1>4, <2>1, <2>3 DEF SetterInv
<1>7. CASE ~SendMeta(g) /\ ~SetMeta(g)
  <2>1. /\ me.pc # "sendMeta" /\ publishers'[g].pc # "sendMeta"
        /\ publishers'[g].modes = me.modes /\ fcIn' = fcIn
    BY <1>2, <1>7 DEF Publish, PublisherStep, EndPause, StartDefinitions,
                      SendAsRotondeDefinitions, EndPublisher, TornRead, Publishers
  <2>2. \A h \in DOMAIN publishers :
          \/ publishers'[h].pc = "sendMeta"
          \/ /\ publishers[h].pc # "sendMeta"
             /\ publishers'[h].modes = publishers[h].modes
    BY <1>4, <2>1
  <2>3. Carried(fcIn', publishers')
    BY <1>4, <2>1, <2>2, CarriedStep DEF SetterInv
  <2> QED
    BY <1>1, <1>3, <1>4, <2>1, <2>3 DEF SetterInv
<1> QED
  BY <1>5, <1>6, <1>7

LEMMA NextSetterInv == SetterInv /\ [Next]_vars => SetterInv'
<1> SUFFICES ASSUME SetterInv, [Next]_vars PROVE SetterInv'
  OBVIOUS
<1>1. TypeInv'
  BY NextTypeInv DEF SetterInv
<1>2. CASE Write
  <2>1. fcIn \in Seq(ToFlightController) /\ fcIn # <<>> /\ fcIn' = Tail(fcIn)
    BY <1>2 DEF Write, SetterInv, TypeInv, TypeOK
  <2>2. Carried(Tail(fcIn), publishers)
    BY <2>1, CarriedTail DEF SetterInv
  <2> QED
    BY <1>1, <1>2, <2>1, <2>2 DEF Write, handlerVars, publisherVars, SetterInv
<1>3. ASSUME NEW p \in FromFlightController, Deliver(p) PROVE SetterInv'
  BY <1>1, <1>3 DEF Deliver, publisherVars, SetterInv
<1>4. CASE UNCHANGED vars
  BY <1>1, <1>4 DEF vars, handlerVars, publisherVars, SetterInv
<1> QED
  BY <1>2, <1>3, <1>4, AuthSetter, PublishSetter DEF Next

\* Although all setters of a publishing goroutine share one map, the newest
\* one that waits in fcInChan carries the modes of its own definition as long
\* as the goroutine has not set the map for the next one: for any definitions,
\* any number of goroutines and any capacity of the channel.
THEOREM SettersCarryTheirModesTheorem == Spec => []SettersCarryTheirModes
<1>1. SetterInv => SettersCarryTheirModes
  BY DEF SetterInv, Carried, SettersCarryTheirModes
<1>2. Spec => []SetterInv
  BY InitSetterInv, NextSetterInv, PTL DEF Spec
<1> QED
  BY <1>1, <1>2, PTL

-----------------------------------------------------------------------------
(***************************************************************************)
(* The queries of sessionHandler: each index is asked for once, in order   *)
(* and without a gap, in one session, for every object table, every width  *)
(* of the index and whatever the flight controller sends.                  *)
(***************************************************************************)
Ordered(s) ==
  \A j, k \in DOMAIN s :
    j < k /\ IsQuery(s[j]) /\ IsQuery(s[k]) => Index(s[j]) < Index(s[k])

\* The queries of s are in session sid and are those up to index c - 1.
UpTo(s, sid, c) ==
  \A j \in DOMAIN s :
    IsQuery(s[j])
      => /\ Index(s[j]) < c
         /\ s[j].data.SessionID = sid
         /\ \A i \in Index(s[j]) .. c - 1 :
              \E k \in DOMAIN s : IsQuery(s[k]) /\ Index(s[k]) = i

Waiting(s, sid, c) == Ordered(s) /\ UpTo(s, sid, c)

\* Short sequences at the end of a concatenation.
LEMMA ConcatShort ==
  ASSUME NEW S, NEW a \in Seq(S), NEW x \in S
  PROVE  a \o <<x>> = Append(a, x) /\ a \o <<>> = a /\ Append(a, x) \o <<>> = Append(a, x)
OBVIOUS

LEMMA OnePacket ==
  ASSUME NEW S, NEW b \in Seq(S), Len(b) = 1
  PROVE  b = <<Head(b)>> /\ Head(b) \in S
OBVIOUS

LEMMA TailConcat ==
  ASSUME NEW S, NEW a \in Seq(S), NEW b \in Seq(S), a # <<>>
  PROVE  Tail(a \o b) = Tail(a) \o b
OBVIOUS

\* The index of a query is a uint8.
LEMMA QueryIndex ==
  ASSUME NEW p \in ToFlightController, IsQuery(p)
  PROVE  Index(p) \in Nat
BY PacketsAssumption
   DEF IsQuery, Index, ToFlightController, UInt8, CreateSessionManagingRequest,
       CreatePacketAck, NewPacket

\* Of the packets in session.go only CreateSessionManagingPacket is a query,
\* when it names a session.
LEMMA QueryPackets ==
  /\ \A s \in Statuses : ~IsQuery(CreateGCSTelemetryStatsObjectPacket(s))
  /\ ~IsQuery(CreateSessionManagingRequest)
  /\ ~IsQuery(CreatePacketAck("SessionManaging"))
  /\ \A d, g : ~IsQuery(CreateObjectSetter(d, g))
  /\ \A sid, i : /\ IsQuery(CreateSessionManagingPacket(sid, i)) <=> sid # 0
                 /\ Index(CreateSessionManagingPacket(sid, i)) = i
                 /\ CreateSessionManagingPacket(sid, i).data.SessionID = sid
BY DEF IsQuery, Index, CreateGCSTelemetryStatsObjectPacket,
       CreateSessionManagingRequest, CreatePacketAck, CreateObjectSetter,
       CreateSessionManagingPacket, NewPacket

\* The writer takes the oldest packet.
LEMMA WaitingTail ==
  ASSUME NEW s \in Seq(ToFlightController), s # <<>>, NEW sid, NEW c \in Nat,
         Waiting(s, sid, c)
  PROVE  Waiting(Tail(s), sid, c)
<1>1. /\ Tail(s) \in Seq(ToFlightController)
      /\ Len(Tail(s)) = Len(s) - 1
      /\ \A k \in DOMAIN Tail(s) : k + 1 \in DOMAIN s /\ Tail(s)[k] = s[k + 1]
      /\ \A k \in DOMAIN s : k # 1 => k - 1 \in DOMAIN Tail(s) /\ Tail(s)[k - 1] = s[k]
  OBVIOUS
<1> DEFINE t == Tail(s)
<1> HIDE DEF t
<1>2. Ordered(t)
  BY <1>1 DEF Waiting, Ordered, t
<1>3. UpTo(t, sid, c)
  <2> SUFFICES ASSUME NEW j \in DOMAIN t, IsQuery(t[j])
               PROVE  /\ Index(t[j]) < c
                      /\ t[j].data.SessionID = sid
                      /\ \A i \in Index(t[j]) .. c - 1 :
                           \E k \in DOMAIN t : IsQuery(t[k]) /\ Index(t[k]) = i
    BY DEF UpTo
  <2>1. j + 1 \in DOMAIN s /\ t[j] = s[j + 1] /\ j \in Nat \ {0}
    BY <1>1 DEF t
  <2>2. Index(t[j]) < c /\ t[j].data.SessionID = sid
    BY <2>1 DEF Waiting, UpTo
  <2>3. ASSUME NEW i \in Index(t[j]) .. c - 1
        PROVE  \E k \in DOMAIN t : IsQuery(t[k]) /\ Index(t[k]) = i
    <3>1. PICK k \in DOMAIN s : IsQuery(s[k]) /\ Index(s[k]) = i
      BY <2>1, <2>3 DEF Waiting, UpTo
    <3>2. Index(s[j + 1]) \in Nat
      BY <2>1, QueryIndex, ElementOfSeq
    <3>3. k # 1
      BY <2>1, <2>3, <3>1, <3>2 DEF Waiting, Ordered
    <3> QED
      BY <1>1, <3>1, <3>3 DEF t
  <2> QED
    BY <2>2, <2>3
<1> QED
  BY <1>2, <1>3 DEF Waiting, t

\* A packet that is no query joins the channel, ahead of what the blocked
\* handler still has to send.
LEMMA WaitingInsert ==
  ASSUME NEW a \in Seq(ToFlightController), NEW b \in Seq(ToFlightController),
         NEW x \in ToFlightController, ~IsQuery(x), NEW sid, NEW c \in Nat,
         Waiting(a \o b, sid, c)
  PROVE  Waiting(Append(a, x) \o b, sid, c)
<1> DEFINE s == a \o b
           t == Append(a, x) \o b
           n == Len(a) + 1
<1>1. /\ n \in Nat /\ DOMAIN s \subseteq Nat /\ DOMAIN t \subseteq Nat
      /\ \A k \in DOMAIN t : /\ k < n => k \in DOMAIN s /\ t[k] = s[k]
                             /\ k = n => t[k] = x
                             /\ k > n => k - 1 \in DOMAIN s /\ t[k] = s[k - 1]
      /\ \A k \in DOMAIN s : /\ k < n => k \in DOMAIN t /\ t[k] = s[k]
                             /\ k >= n => k + 1 \in DOMAIN t /\ t[k + 1] = s[k]
  <2>1. /\ DOMAIN s = 1 .. Len(a) + Len(b) /\ Len(a) \in Nat /\ Len(b) \in Nat
        /\ \A k \in DOMAIN s : s[k] = IF k <= Len(a) THEN a[k] ELSE b[k - Len(a)]
    OBVIOUS
  <2>2. /\ DOMAIN t = 1 .. Len(a) + 1 + Len(b)
        /\ \A k \in DOMAIN t : t[k] = IF k <= Len(a) + 1 THEN Append(a, x)[k]
                                       ELSE b[k - (Len(a) + 1)]
    OBVIOUS
  <2>3. \A k \in 1 .. Len(a) + 1 : Append(a, x)[k] = IF k = Len(a) + 1 THEN x ELSE a[k]
    OBVIOUS
  <2> HIDE DEF s, t
  <2>4. /\ n \in Nat /\ DOMAIN s \subseteq Nat /\ DOMAIN t \subseteq Nat
    BY <2>1, <2>2
  <2>5. ASSUME NEW k \in DOMAIN t
        PROVE  /\ k < n => k \in DOMAIN s /\ t[k] = s[k]
               /\ k = n => t[k] = x
               /\ k > n => k - 1 \in DOMAIN s /\ t[k] = s[k - 1]
    BY <2>1, <2>2, <2>3
  <2>6. ASSUME NEW k \in DOMAIN s
        PROVE  /\ k < n => k \in DOMAIN t /\ t[k] = s[k]
               /\ k >= n => k + 1 \in DOMAIN t /\ t[k + 1] = s[k]
    BY <2>1, <2>2, <2>3
  <2> QED
    BY <2>4, <2>5, <2>6
<1> HIDE DEF s, t, n
<1>2. Waiting(s, sid, c)
  BY DEF s
<1>3. \A j \in DOMAIN t : IsQuery(t[j]) =>
        \E i \in DOMAIN s : s[i] = t[j] /\ ((i = j /\ j < n) \/ (i = j - 1 /\ j > n))
  <2> SUFFICES ASSUME NEW j \in DOMAIN t, IsQuery(t[j])
               PROVE  \E i \in DOMAIN s :
                        s[i] = t[j] /\ ((i = j /\ j < n) \/ (i = j - 1 /\ j > n))
    OBVIOUS
  <2>1. j # n
    BY <1>1
  <2>2. j < n \/ j > n
    BY <1>1, <2>1
  <2> QED
    BY <1>1, <2>2
<1>4. Ordered(t)
  <2> SUFFICES ASSUME NEW j \in DOMAIN t, NEW k \in DOMAIN t,
                      j < k, IsQuery(t[j]), IsQuery(t[k])
               PROVE  Index(t[j]) < Index(t[k])
    BY DEF Ordered
  <2>1. PICK j1 \in DOMAIN s : s[j1] = t[j] /\ ((j1 = j /\ j < n) \/ (j1 = j - 1 /\ j > n))
    BY <1>3
  <2>2. PICK k1 \in DOMAIN s : s[k1] = t[k] /\ ((k1 = k /\ k < n) \/ (k1 = k - 1 /\ k > n))
    BY <1>3
  <2>3. j1 < k1
    BY <1>1, <2>1, <2>2
  <2> QED
    BY <1>2, <2>1, <2>2, <2>3 DEF Waiting, Ordered
<1>5. \A i : (\E k \in DOMAIN s : IsQuery(s[k]) /\ Index(s[k]) = i)
               => \E k \in DOMAIN t : IsQuery(t[k]) /\ Index(t[k]) = i
  <2> SUFFICES ASSUME NEW k \in DOMAIN s, IsQuery(s[k])
               PROVE  \E m \in DOMAIN t : IsQuery(t[m]) /\ Index(t[m]) = Index(s[k])
    OBVIOUS
  <2>1. \E m \in DOMAIN t : t[m] = s[k]
    BY <1>1
  <2> QED
    BY <2>1
<1>6. UpTo(t, sid, c)
  BY <1>2, <1>3, <1>5 DEF Waiting, UpTo
<1> QED
  BY <1>4, <1>6 DEF Waiting, t

\* The handler asks for index c, in the session of the queries before it.
LEMMA WaitingAsk ==
  ASSUME NEW a \in Seq(ToFlightController), NEW q \in ToFlightController,
         NEW sid, NEW old, NEW c \in Nat, Waiting(a, old, c),
         c > 0 => sid = old, Index(q) = c, q.data.SessionID = sid,
         IsQuery(q) <=> sid # 0
  PROVE  Waiting(Append(a, q), sid, c + 1)
<1> DEFINE t == Append(a, q)
           n == Len(a) + 1
<1>1. /\ n \in Nat
      /\ DOMAIN t = DOMAIN a \cup {n} /\ DOMAIN a \subseteq Nat
      /\ t[n] = q
      /\ \A k \in DOMAIN a : k < n /\ t[k] = a[k]
  OBVIOUS
<1> HIDE DEF t, n
<1>2. \A k \in DOMAIN a : IsQuery(a[k]) =>
        Index(a[k]) \in Nat /\ Index(a[k]) < c /\ a[k].data.SessionID = sid /\ sid # 0
  <2> SUFFICES ASSUME NEW k \in DOMAIN a, IsQuery(a[k])
               PROVE  /\ Index(a[k]) \in Nat /\ Index(a[k]) < c
                      /\ a[k].data.SessionID = sid /\ sid # 0
    OBVIOUS
  <2>1. Index(a[k]) \in Nat
    BY QueryIndex, ElementOfSeq
  <2>2. Index(a[k]) < c /\ a[k].data.SessionID = old
    BY DEF Waiting, UpTo
  <2>3. a[k].data.SessionID # 0
    BY DEF IsQuery
  <2> QED
    BY <2>1, <2>2, <2>3
<1>3. Ordered(t)
  BY <1>1, <1>2 DEF Waiting, Ordered
<1>4. UpTo(t, sid, c + 1)
  <2> SUFFICES ASSUME NEW j \in DOMAIN t, IsQuery(t[j])
               PROVE  /\ Index(t[j]) < c + 1
                      /\ t[j].data.SessionID = sid
                      /\ \A i \in Index(t[j]) .. c + 1 - 1 :
                           \E k \in DOMAIN t : IsQuery(t[k]) /\ Index(t[k]) = i
    BY DEF UpTo
  <2>1. sid # 0
    BY <1>1, <1>2
  <2>2. n \in DOMAIN t /\ IsQuery(t[n]) /\ Index(t[n]) = c
    BY <1>1, <2>1
  <2>3. CASE j = n
    BY <1>1, <2>2, <2>3
  <2>4. CASE j \in DOMAIN a
    <3>1. \A i \in Index(a[j]) .. c - 1 :
            \E k \in DOMAIN a : IsQuery(a[k]) /\ Index(a[k]) = i
      BY <1>1, <2>4 DEF Waiting, UpTo
    <3>2. t[j] = a[j] /\ Index(a[j]) \in Nat /\ Index(a[j]) < c
          /\ a[j].data.SessionID = sid
      BY <1>1, <1>2, <2>4
    <3>3. ASSUME NEW i \in Index(a[j]) .. c + 1 - 1
          PROVE  \E k \in DOMAIN t : IsQuery(t[k]) /\ Index(t[k]) = i
      <4>1. CASE i = c
        BY <2>2, <4>1
      <4>2. CASE i # c
        <5>1. i \in Index(a[j]) .. c - 1
          BY <3>2, <3>3, <4>2
        <5>2. PICK k \in DOMAIN a : IsQuery(a[k]) /\ Index(a[k]) = i
          BY <3>1, <5>1
        <5>3. k \in DOMAIN t /\ t[k] = a[k]
          BY <1>1
        <5> QED
          BY <5>2, <5>3
      <4> QED
        BY <4>1, <4>2
    <3> QED
      BY <3>2, <3>3
  <2> QED
    BY <1>1, <2>3, <2>4
<1> QED
  BY <1>3, <1>4 DEF Waiting, t

-----------------------------------------------------------------------------
(***************************************************************************)
(* The inductive invariant.  An invocation of a handler has at most one    *)
(* packet left to send once it has passed its other sends, and what waits  *)
(* reaches exactly up to currentObjectID.                                  *)
(***************************************************************************)
QueryInv ==
  /\ TypeInv
  /\ out = <<>> \/ (pc = "idle" /\ Len(out) = 1)
  /\ Waiting(Outgoing, sessionID, currentObjectID)

LEMMA InitQueryInv == Init => QueryInv
<1> SUFFICES ASSUME Init PROVE QueryInv
  OBVIOUS
<1>1. TypeInv
  BY InitTypeInv
<1>2. \A j \in DOMAIN Outgoing : ~IsQuery(Outgoing[j])
  <2>1. ~IsQuery(CreateGCSTelemetryStatsObjectPacket("HandshakeReq"))
    BY QueryPackets DEF Statuses
  <2> HIDE DEF IsQuery
  <2> QED
    BY <2>1 DEF Init, Outgoing
<1>3. Waiting(Outgoing, sessionID, currentObjectID)
  BY <1>2 DEF Waiting, Ordered, UpTo
<1> QED
  BY <1>1, <1>3 DEF Init, QueryInv

\* A packet that is no query is sent or becomes the last one to send.
LEMMA InsertStep ==
  ASSUME QueryInv, NEW x \in ToFlightController, ~IsQuery(x),
         UNCHANGED <<sessionID, currentObjectID>>,
         \/ fcIn' = Append(fcIn, x) /\ UNCHANGED out
         \/ out = <<>> /\ out' = <<x>> /\ UNCHANGED fcIn
  PROVE  Waiting(Outgoing, sessionID, currentObjectID)'
<1>1. fcIn \in Seq(ToFlightController) /\ out \in Seq(ToFlightController)
        /\ currentObjectID \in Nat
  BY PacketsAssumption DEF QueryInv, TypeInv, TypeOK, UInt8
<1>2. Outgoing' = Append(fcIn, x) \o out
  <2>1. CASE fcIn' = Append(fcIn, x) /\ UNCHANGED out
    BY <2>1 DEF Outgoing
  <2>2. CASE out = <<>> /\ out' = <<x>> /\ UNCHANGED fcIn
    <3>1. Outgoing' = fcIn \o <<x>>
      BY <2>2 DEF Outgoing
    <3>2. fcIn \o <<x>> = Append(fcIn, x) /\ Append(fcIn, x) \o <<>> = Append(fcIn, x)
      BY <1>1, ConcatShort
    <3> QED
      BY <2>2, <3>1, <3>2
  <2> QED
    BY <2>1, <2>2
<1>3. Waiting(Append(fcIn, x) \o out, sessionID, currentObjectID)
  BY <1>1, WaitingInsert DEF QueryInv, Outgoing
<1> QED
  BY <1>2, <1>3

LEMMA ReceiveQuery ==
  ASSUME QueryInv, Receive
  PROVE  QueryInv'
<1>1. TypeInv'
  BY ReceiveType DEF QueryInv
<1>2. UNCHANGED <<sessionID, currentObjectID, fcIn>> /\ out = <<>> /\ pc = "idle"
  BY DEF Receive, ReceiveDisconnected, ReceiveHandshakeAck, ReceiveConnected,
         ReceiveSession, ReceiveReply, ReceiveOther, Take, Idle, sessionVars
<1>3. CASE out' = out
  BY <1>1, <1>2, <1>3 DEF QueryInv, Outgoing
<1>4. CASE out' # out
  <2>1. PICK x \in ToFlightController : ~IsQuery(x) /\ out' = <<x>> /\ pc' = pc
    BY <1>4, QueryPackets, ConstructorTypes
       DEF Receive, ReceiveDisconnected, ReceiveHandshakeAck, ReceiveConnected,
           ReceiveSession, ReceiveReply, ReceiveOther, Statuses
  <2>2. Waiting(Outgoing, sessionID, currentObjectID)'
    BY <1>2, <2>1, InsertStep
  <2>3. Len(out') = 1
    BY <2>1
  <2> QED
    BY <1>1, <1>2, <2>1, <2>2, <2>3 DEF QueryInv
<1> QED
  BY <1>3, <1>4

LEMMA HandlerSendQuery ==
  ASSUME QueryInv, SendOpen \/ SendAck \/ SendOut
  PROVE  QueryInv'
<1>1. TypeInv'
  BY HandlerSendType DEF QueryInv
<1>2. /\ fcIn \in Seq(ToFlightController) /\ out \in Seq(ToFlightController)
      /\ currentObjectID \in UInt8 /\ numberOfObjects \in UInt8
      /\ sessionID \in SessionIDs
  BY DEF QueryInv, TypeInv, TypeOK
<1>3. CASE SendOpen
  <2>1. ~IsQuery(CreateSessionManagingPacket(0, 0))
    BY QueryPackets
  <2>2. CreateSessionManagingPacket(0, 0) \in ToFlightController
    BY ConstructorTypes, PacketsAssumption DEF UInt8
  <2>3. Waiting(Outgoing, sessionID, currentObjectID)'
    BY <1>3, <2>1, <2>2, InsertStep DEF SendOpen, Send, sessionVars
  <2> QED
    BY <1>1, <1>3, <2>3 DEF SendOpen, QueryInv
<1>4. CASE SendAck
  <2> DEFINE ack == CreatePacketAck("SessionManaging")
  <2>1. ~IsQuery(ack) /\ ack \in ToFlightController
    BY QueryPackets, ConstructorTypes
  <2>2. out = <<>> /\ fcIn' = Append(fcIn, ack) /\ pc' = "idle"
    BY <1>4 DEF SendAck, Send, QueryInv
  <2> HIDE DEF ack
  <2>3. CASE EnumerationDone
    <3>1. Waiting(Outgoing, sessionID, currentObjectID)'
      BY <2>1, <2>2, <2>3, InsertStep DEF EnumerationDone
    <3> QED
      BY <1>1, <2>2, <2>3, <3>1 DEF EnumerationDone, QueryInv
  <2>4. CASE AskNextObject
    <3> DEFINE q == CreateSessionManagingPacket(sessionID', currentObjectID)
    <3>1. /\ sessionID' \in SessionIDs
          /\ currentObjectID > 0 => sessionID' = sessionID
          /\ currentObjectID' = currentObjectID + 1
          /\ out' = <<q>>
      BY <1>2, <2>4, PacketsAssumption, SessionAssumption DEF AskNextObject, UInt8
    <3>2. /\ q \in ToFlightController /\ Index(q) = currentObjectID
          /\ q.data.SessionID = sessionID' /\ (IsQuery(q) <=> sessionID' # 0)
      BY <1>2, <3>1, ConstructorTypes, QueryPackets
    <3> HIDE DEF q
    <3>3. Append(fcIn, ack) \in Seq(ToFlightController) /\ currentObjectID \in Nat
      BY <1>2, <2>1, PacketsAssumption DEF UInt8
    <3>4. Waiting(Append(fcIn, ack), sessionID, currentObjectID)
      <4>1. /\ Append(fcIn, ack) \o <<>> = Append(fcIn, ack)
            /\ fcIn \o <<>> = Outgoing
        BY <1>2, <2>1, <2>2, ConcatShort DEF Outgoing
      <4>2. Waiting(fcIn \o <<>>, sessionID, currentObjectID)
        BY <4>1 DEF QueryInv
      <4>3. <<>> \in Seq(ToFlightController)
        OBVIOUS
      <4>4. Waiting(Append(fcIn, ack) \o <<>>, sessionID, currentObjectID)
        BY <1>2, <2>1, <3>3, <4>2, <4>3, WaitingInsert
      <4> QED
        BY <4>1, <4>4
    <3>5. Waiting(Append(Append(fcIn, ack), q), sessionID', currentObjectID + 1)
      BY <3>1, <3>2, <3>3, <3>4, WaitingAsk
    <3>6. Outgoing' = Append(Append(fcIn, ack), q) /\ Len(out') = 1
      BY <1>2, <2>1, <2>2, <3>1, <3>2 DEF Outgoing
    <3> QED
      BY <1>1, <2>2, <3>1, <3>5, <3>6 DEF QueryInv
  <2> QED
    BY <1>4, <2>3, <2>4 DEF SendAck
<1>5. CASE SendOut
  <2>1. Len(out) = 1 /\ out' = <<>> /\ fcIn' = Append(fcIn, Head(out))
    BY <1>5 DEF SendOut, Send, QueryInv
  <2>2. PICK x \in ToFlightController : out = <<x>> /\ Head(out) = x
    BY <1>2, <2>1, OnePacket
  <2>3. Outgoing = Append(fcIn, x)
    BY <1>2, <2>2, ConcatShort DEF Outgoing
  <2>4. Outgoing' = Append(fcIn, x)
    BY <1>2, <2>1, <2>2, ConcatShort DEF Outgoing
  <2> QED
    BY <1>1, <1>5, <2>1, <2>3, <2>4 DEF SendOut, sessionVars, QueryInv
<1> QED
  BY <1>3, <1>4, <1>5

LEMMA NextQueryInv == QueryInv /\ [Next]_vars => QueryInv'
<1> SUFFICES ASSUME QueryInv, [Next]_vars PROVE QueryInv'
  OBVIOUS
<1>1. TypeInv'
  BY NextTypeInv DEF QueryInv
<1>2. CASE AuthStep
  BY <1>2, ReceiveQuery, HandlerSendQuery DEF AuthStep
<1>3. ASSUME NEW g \in DOMAIN publishers, Publish(g) PROVE QueryInv'
  <2>1. UNCHANGED <<out, pc, sessionID, currentObjectID>>
    BY <1>3 DEF Publish, sessionVars, handlerVars
  <2>2. CASE fcIn' = fcIn
    BY <1>1, <2>1, <2>2 DEF QueryInv, Outgoing
  <2>3. CASE fcIn' # fcIn
    <3> DEFINE setter == CreateObjectSetter(Head(publishers[g].todo), g)
    <3>1. SendMeta(g)
      BY <1>3, <2>3 DEF Publish, PublisherStep, EndPause, SetMeta, StartDefinitions,
                        SendAsRotondeDefinitions, EndPublisher, TornRead
    <3>2. fcIn' = Append(fcIn, setter) /\ publishers[g].todo # <<>>
      BY <1>3, <3>1 DEF SendMeta, Send, QueryInv, TypeInv
    <3>3. g \in Nat /\ publishers[g].todo \in Seq(Definitions)
      <4>1. publishers \in Seq(Publishers)
        BY DEF QueryInv, TypeInv, TypeOK
      <4>2. g \in Nat /\ publishers[g] \in Publishers
        BY <1>3, <4>1, ElementOfSeq
      <4> QED
        BY <4>2 DEF Publishers
    <3>4. setter \in ToFlightController /\ ~IsQuery(setter)
      BY <3>2, <3>3, HeadTailProperties, ConstructorTypes, QueryPackets
    <3> HIDE DEF setter
    <3>5. Waiting(Outgoing, sessionID, currentObjectID)'
      BY <2>1, <3>2, <3>4, InsertStep
    <3> QED
      BY <1>1, <2>1, <3>5 DEF QueryInv
  <2> QED
    BY <2>2, <2>3
<1>4. CASE Write
  <2>1. /\ fcIn # <<>> /\ fcIn' = Tail(fcIn)
        /\ UNCHANGED <<out, pc, sessionID, currentObjectID>>
    BY <1>4 DEF Write, sessionVars, handlerVars
  <2>2. /\ fcIn \in Seq(ToFlightController) /\ out \in Seq(ToFlightController)
        /\ currentObjectID \in Nat
    BY PacketsAssumption DEF QueryInv, TypeInv, TypeOK, UInt8
  <2>3. Outgoing \in Seq(ToFlightController) /\ Outgoing # <<>>
    BY <2>1, <2>2 DEF Outgoing
  <2>4. Outgoing' = Tail(Outgoing)
    BY <2>1, <2>2, TailConcat DEF Outgoing
  <2>5. Waiting(Tail(Outgoing), sessionID, currentObjectID)
    BY <2>2, <2>3, WaitingTail DEF QueryInv
  <2> QED
    BY <1>1, <2>1, <2>4, <2>5 DEF QueryInv
<1>5. ASSUME NEW p \in FromFlightController, Deliver(p) PROVE QueryInv'
  BY <1>1, <1>5 DEF Deliver, sessionVars, QueryInv, Outgoing
<1>6. CASE UNCHANGED vars
  BY <1>1, <1>6 DEF vars, sessionVars, handlerVars, QueryInv, Outgoing
<1> QED
  BY <1>2, <1>3, <1>4, <1>5, <1>6 DEF Next

LEMMA SpecQueryInv == Spec => []QueryInv
BY InitQueryInv, NextQueryInv, PTL DEF Spec

\* sessionHandler asks for the indices in increasing order, so for none
\* twice, whatever is retransmitted, reordered or reopened.
THEOREM QueriesInOrderTheorem == Spec => []QueriesInOrder
<1>1. QueryInv => QueriesInOrder
  BY DEF QueryInv, Waiting, Ordered, QueriesInOrder
<1> QED
  BY <1>1, SpecQueryInv, PTL

\* sessionHandler skips no index, and all queries under way are in the
\* session it is in.
THEOREM QueriesContiguousTheorem == Spec => []QueriesContiguous
<1>1. QueryInv => QueriesContiguous
  BY DEF QueryInv, Waiting, UpTo, QueriesContiguous
<1> QED
  BY <1>1, SpecQueryInv, PTL

\* currentObjectID++ never overflows its uint8, for any width.
THEOREM IndexNeverWrapsTheorem == Spec => IndexNeverWraps
<1>1. TypeInv /\ [Next]_vars => [currentObjectID' >= currentObjectID]_vars
  <2> SUFFICES ASSUME TypeInv, Next PROVE currentObjectID' >= currentObjectID
    OBVIOUS
  <2>1. currentObjectID \in Nat
    BY PacketsAssumption DEF TypeInv, TypeOK, UInt8
  <2>2. CASE SendAck /\ AskNextObject
    <3>1. currentObjectID + 1 \in 0 .. UInt8Max
      BY <2>1, <2>2, PacketsAssumption DEF AskNextObject, UInt8, TypeInv, TypeOK
    <3>2. (currentObjectID + 1) % (UInt8Max + 1) = currentObjectID + 1
      BY <3>1, PacketsAssumption
    <3> QED
      BY <2>1, <2>2, <3>2 DEF AskNextObject
  <2>3. CASE ~(SendAck /\ AskNextObject)
    <3>1. UNCHANGED currentObjectID
      BY <2>3 DEF Next, AuthStep, Receive, ReceiveDisconnected, ReceiveHandshakeAck,
                  ReceiveConnected, ReceiveSession, ReceiveReply, ReceiveOther,
                  SendOpen, SendAck, EnumerationDone, SendOut, Publish, Write,
                  Deliver, sessionVars
    <3> QED
      BY <2>1, <3>1
  <2> QED
    BY <2>2, <2>3
<1>2. Spec => []TypeInv
  BY InitTypeInv, NextTypeInv, PTL DEF Spec
<1> QED
  BY <1>1, <1>2, PTL DEF Spec, IndexNeverWraps

\* Once an object was asked for, the session identifier stays what it is.
THEOREM SessionFixedTheorem == Spec => SessionFixed
<1>1. TypeInv /\ [Next]_vars => [currentObjectID > 0 => sessionID' = sessionID]_vars
  <2> SUFFICES ASSUME TypeInv, Next, currentObjectID > 0
               PROVE  sessionID' = sessionID
    OBVIOUS
  <2>1. currentObjectID # 0
    BY PacketsAssumption DEF TypeInv, TypeOK, UInt8
  <2> QED
    BY <2>1 DEF Next, AuthStep, Receive, ReceiveDisconnected, ReceiveHandshakeAck,
                ReceiveConnected, ReceiveSession, ReceiveReply, ReceiveOther,
                SendOpen, SendAck, EnumerationDone, AskNextObject, SendOut, Publish,
                Write, Deliver, sessionVars
<1>2. Spec => []TypeInv
  BY InitTypeInv, NextTypeInv, PTL DEF Spec
<1> QED
  BY <1>1, <1>2, PTL DEF Spec, SessionFixed
=============================================================================
