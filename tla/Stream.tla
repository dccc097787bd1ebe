------------------------------- MODULE Stream -------------------------------
(***************************************************************************)
(* The steady state of the bridge (main.go): what happens to the packets   *)
(* of the flight controller once they are read, and to the actions of      *)
(* rotonde's clients.                                                      *)
(*                                                                         *)
(*   link -> reader -> fcOut -> chanCast -> root -> auth manager           *)
(*                                               -> stream manager -> events *)
(*   actions, auth and stream handlers -> fcIn -> writer -> flight controller *)
(*                                                                         *)
(* Every arrow is a channel of bounded capacity or a goroutine that holds  *)
(* one packet while its next send blocks.  The handlers package, the       *)
(* rotonde client and the flight controller's object store are external,   *)
(* modelled from how main.go uses them.                                    *)
(***************************************************************************)
EXTENDS Naturals, Sequences

CONSTANTS
  Defs,            \* definitions, "ObjectPersistence" among them
  Auth,            \* those in authPackets
  Settings,        \* those with Settings == true
  MultiInstance,   \* those without SingleInstance
  Instances,       \* uint16 instance identifiers, 0 among them
  Values,          \* contents of an object
  FcOutCap, FcInCap,  \* capacities of the two channels, 100 in the code
  OutCap,          \* capacity of root.NewOutChan, 10 in the code
  Scenarios        \* what is sent from either end: updates, the packets the flight
                   \* controller sends of its own accord; actions, those of clients:
                   \* [verb, def, index (<<>> if absent), value]; and maxUpdates and
                   \* maxActions, bounds on them

ASSUME StreamAssumption ==
  /\ "ObjectPersistence" \in Defs
  /\ 0 \in Instances
  /\ {FcOutCap, FcInCap, OutCap} \subseteq Nat \ {0}

VARIABLES
  scenario, \* one of Scenarios, the same throughout
  link,     \* packets of the flight controller that have not been read
  fcOut,    \* fcOutChan
  cast,     \* the packet chanCast's goroutine holds, if any
  root,     \* the packets the root manager still owes: <<manager, packet>>
  authIn, streamIn,  \* the managers' channels
  handling, \* what the stream handler has left to do: "ack"/"persist"/"event"
  reply,    \* the packet an auth handler wants to send, if any
  action,   \* the packet of a client's action that waits for fcIn, if any
  fcIn,     \* fcInChan
  ram, flash,   \* the flight controller's settings and their saved copies
  unacked,  \* definitions whose update waits for an acknowledgement
  sent, authSent,    \* data packets sent, for the stream and the auth manager
  events, authSeen,  \* events given to rotonde; packets the auth handlers saw
  count     \* [updates, actions] so far

queues == <<link, fcOut, cast, root, authIn, streamIn>>
store == <<ram, flash, unacked>>
log == <<sent, authSent, events, authSeen, count>>
vars == <<scenario, queues, handling, reply, action, fcIn, store, log>>

DataCmds == {"ObjectCmd", "ObjectCmdWithAck"}

NewPacket(def, cmd, inst, data) == [def |-> def, cmd |-> cmd, inst |-> inst, data |-> data]

NoData == <<>>

CreatePacketAck(def) == NewPacket(def, "ObjectAck", 0, NoData)

\* Mutant: the instance of the acknowledged object is not passed on.
CreatePersistObjectFirst(def, inst) ==
  NewPacket("ObjectPersistence", "ObjectCmdWithAck", 0, <<def, 0>>)

CreatePersistObject(def, inst) ==
  NewPacket("ObjectPersistence", "ObjectCmdWithAck", inst, <<def, inst>>)

\* An action's index: deleted from the data and converted when it is a
\* number; data is empty in a GET, so nothing is found there.
InstanceOf(a) ==
  IF a.def \in MultiInstance /\ a.verb = "SET" /\ a.index # <<>>
  THEN a.index[1] ELSE 0

\* Clients name definitions that were declared: the lookup succeeds.
ToUAVTalkPacket(a) ==
  IF a.verb = "GET"
  THEN NewPacket(a.def, "ObjectRequest", InstanceOf(a), NoData)
  ELSE NewPacket(a.def, IF a.def \in Settings THEN "ObjectCmdWithAck" ELSE "ObjectCmd",
                 InstanceOf(a), <<a.value>>)

PacketSet == [def : Defs, cmd : DataCmds \cup {"ObjectRequest", "ObjectAck"},
              inst : Instances,
              data : {NoData} \cup {<<v>> : v \in Values} \cup (Defs \X Instances)]

Init ==
  /\ scenario \in Scenarios
  /\ link = <<>> /\ fcOut = <<>> /\ cast = <<>> /\ root = <<>>
  /\ authIn = <<>> /\ streamIn = <<>>
  /\ handling = <<>> /\ reply = <<>> /\ action = <<>> /\ fcIn = <<>>
  /\ ram = [object \in Settings \X Instances |-> CHOOSE v \in Values : TRUE]
  /\ flash = ram
  /\ unacked = {}
  /\ sent = <<>> /\ authSent = <<>> /\ events = <<>> /\ authSeen = <<>>
  /\ count = [updates |-> 0, actions |-> 0]

-----------------------------------------------------------------------------
(***************************************************************************)
(* From the link to the managers.                                          *)
(***************************************************************************)
\* outChan <- *uavTalkObject in the reader goroutine.
Read ==
  /\ link # <<>>
  /\ Len(fcOut) < FcOutCap
  /\ fcOut' = Append(fcOut, Head(link))
  /\ link' = Tail(link)
  /\ UNCHANGED <<scenario, cast, root, authIn, streamIn, handling, reply, action, fcIn, store, log>>

ChanCastReceive ==
  /\ cast = <<>>
  /\ fcOut # <<>>
  /\ cast' = <<Head(fcOut)>>
  /\ fcOut' = Tail(fcOut)
  /\ UNCHANGED <<scenario, link, root, authIn, streamIn, handling, reply, action, fcIn, store, log>>

\* outChan is unbuffered: the root manager takes the packet when it is done
\* with the one before, for the two out channels in the order they were made.
ChanCastSend ==
  /\ cast # <<>>
  /\ root = <<>>
  /\ root' = << <<"auth", cast[1]>>, <<"stream", cast[1]>> >>
  /\ cast' = <<>>
  /\ UNCHANGED <<scenario, link, fcOut, authIn, streamIn, handling, reply, action, fcIn, store, log>>

\* Mutant: a full channel of the auth manager loses the packet.
RootSendLossy ==
  /\ root # <<>>
  /\ LET p == root[1][2] IN
       \/ /\ root[1][1] = "auth"
          /\ authIn' = IF Len(authIn) < OutCap THEN Append(authIn, p) ELSE authIn
          /\ UNCHANGED streamIn
       \/ /\ root[1][1] = "stream" /\ Len(streamIn) < OutCap
          /\ streamIn' = Append(streamIn, p) /\ UNCHANGED authIn
  /\ root' = Tail(root)
  /\ UNCHANGED <<scenario, link, fcOut, cast, handling, reply, action, fcIn, store, log>>

\* A full channel of one manager holds up the other.
RootSend ==
  /\ root # <<>>
  /\ LET p == root[1][2] IN
       \/ /\ root[1][1] = "auth" /\ Len(authIn) < OutCap
          /\ authIn' = Append(authIn, p) /\ UNCHANGED streamIn
       \/ /\ root[1][1] = "stream" /\ Len(streamIn) < OutCap
          /\ streamIn' = Append(streamIn, p) /\ UNCHANGED authIn
  /\ root' = Tail(root)
  /\ UNCHANGED <<scenario, link, fcOut, cast, handling, reply, action, fcIn, store, log>>

-----------------------------------------------------------------------------
(***************************************************************************)
(* The managers.                                                           *)
(***************************************************************************)
Send(p) ==
  /\ Len(fcIn) < FcInCap
  /\ fcIn' = Append(fcIn, p)

\* The auth filter; the handlers (module Session) answer what needs it.
AuthReceive ==
  /\ reply = <<>>
  /\ authIn # <<>>
  /\ LET p == Head(authIn) IN
       IF p.def \in Auth /\ p.cmd \in DataCmds
       THEN /\ authSeen' = Append(authSeen, p)
            /\ reply' = IF p.cmd = "ObjectCmdWithAck" THEN <<CreatePacketAck(p.def)>> ELSE <<>>
       ELSE UNCHANGED <<authSeen, reply>>
  /\ authIn' = Tail(authIn)
  /\ UNCHANGED <<scenario, link, fcOut, cast, root, streamIn, handling, action, fcIn, store,
                 sent, authSent, events, count>>

AuthSend ==
  /\ reply # <<>>
  /\ Send(reply[1])
  /\ reply' = <<>>
  /\ UNCHANGED <<scenario, queues, handling, action, store, log>>

\* Mutant: settings are saved when their own saving is acknowledged, too.
WorkLoop(p) ==
  CASE p.cmd = "ObjectCmdWithAck" -> << <<"send", CreatePacketAck(p.def)>>, <<"event", p>> >>
    [] p.cmd = "ObjectAck" /\ p.def \in Settings ->
         << <<"send", CreatePersistObject(p.def, p.inst)>> >>
    [] p.cmd = "ObjectCmd" -> << <<"event", p>> >>
    [] OTHER -> <<>>

\* Mutant: the update of a setting is not acknowledged.
WorkNoAck(p) ==
  CASE p.cmd = "ObjectCmdWithAck" -> << <<"event", p>> >>
    [] p.cmd = "ObjectAck" /\ p.def # "ObjectPersistence" /\ p.def \in Settings ->
         << <<"send", CreatePersistObject(p.def, p.inst)>> >>
    [] p.cmd = "ObjectCmd" -> << <<"event", p>> >>
    [] OTHER -> <<>>

\* What the handler does about a packet, in order; toRotondePacket makes an
\* event of data only.
Work(p) ==
  CASE p.cmd = "ObjectCmdWithAck" -> << <<"send", CreatePacketAck(p.def)>>, <<"event", p>> >>
    [] p.cmd = "ObjectAck" /\ p.def # "ObjectPersistence" /\ p.def \in Settings ->
         << <<"send", CreatePersistObject(p.def, p.inst)>> >>
    [] p.cmd = "ObjectCmd" -> << <<"event", p>> >>
    [] OTHER -> <<>>

StreamReceive ==
  /\ handling = <<>>
  /\ streamIn # <<>>
  /\ handling' = IF Head(streamIn).def \in Auth THEN <<>> ELSE Work(Head(streamIn))
  /\ streamIn' = Tail(streamIn)
  /\ UNCHANGED <<scenario, link, fcOut, cast, root, authIn, reply, action, fcIn, store, log>>

StreamSend ==
  /\ handling # <<>>
  /\ handling[1][1] = "send"
  /\ Send(handling[1][2])
  /\ handling' = Tail(handling)
  /\ UNCHANGED <<scenario, queues, reply, action, store, log>>

\* client.SendMessage(event).
SendMessage ==
  /\ handling # <<>>
  /\ handling[1][1] = "event"
  /\ events' = Append(events, handling[1][2])
  /\ handling' = Tail(handling)
  /\ UNCHANGED <<scenario, queues, reply, action, fcIn, store, sent, authSent, authSeen, count>>

-----------------------------------------------------------------------------
(***************************************************************************)
(* Clients.                                                                *)
(***************************************************************************)
OnAction(a) ==
  /\ count.actions < scenario.maxActions
  /\ action = <<>>
  /\ action' = <<ToUAVTalkPacket(a)>>
  /\ count' = [count EXCEPT !.actions = @ + 1]
  /\ UNCHANGED <<scenario, queues, handling, reply, fcIn, store, sent, authSent, events, authSeen>>

ActionSend ==
  /\ action # <<>>
  /\ Send(action[1])
  /\ action' = <<>>
  /\ UNCHANGED <<scenario, queues, handling, reply, store, log>>

-----------------------------------------------------------------------------
(***************************************************************************)
(* The writer goroutine and the flight controller's end of the link.       *)
(***************************************************************************)
IsSetting(p) == p.def \in Settings \ {"ObjectPersistence"}

\* Settings are stored and acknowledged, saved on demand; a request is
\* answered with the object; an acknowledgement ends its transaction.
Respond(q) ==
  /\ ram' = IF IsSetting(q) /\ q.cmd \in DataCmds
            THEN [ram EXCEPT ![q.def, q.inst] = q.data[1]] ELSE ram
  /\ flash' = IF q.def = "ObjectPersistence" /\ q.cmd = "ObjectCmdWithAck"
              THEN [flash EXCEPT ![q.data] = ram[q.data]]
              ELSE flash
  /\ unacked' = IF q.cmd = "ObjectAck" THEN unacked \ {<<q.def, q.inst>>} ELSE unacked
  /\ LET answer == CASE q.cmd = "ObjectCmdWithAck" ->
                          <<NewPacket(q.def, "ObjectAck", q.inst, NoData)>>
                     [] q.cmd = "ObjectRequest" /\ IsSetting(q) ->
                          <<NewPacket(q.def, "ObjectCmd", q.inst, <<ram[q.def, q.inst]>>)>>
                     [] OTHER -> <<>>
     IN  /\ link' = link \o answer
         /\ sent' = IF answer # <<>> /\ answer[1].cmd \in DataCmds
                    THEN sent \o answer ELSE sent

Write ==
  /\ fcIn # <<>>
  /\ fcIn' = Tail(fcIn)
  /\ Respond(Head(fcIn))
  /\ UNCHANGED <<scenario, fcOut, cast, root, authIn, streamIn, handling, reply, action,
                 authSent, events, authSeen, count>>

\* One transaction per object: an unacknowledged update is not overtaken.
Update(p) ==
  /\ count.updates < scenario.maxUpdates
  /\ <<p.def, p.inst>> \notin unacked
  /\ count' = [count EXCEPT !.updates = @ + 1]
  /\ link' = Append(link, p)
  /\ unacked' = IF p.cmd = "ObjectCmdWithAck" THEN unacked \cup {<<p.def, p.inst>>} ELSE unacked
  /\ IF p.def \in Auth
     THEN authSent' = Append(authSent, p) /\ UNCHANGED sent
     ELSE sent' = Append(sent, p) /\ UNCHANGED authSent
  /\ UNCHANGED <<scenario, fcOut, cast, root, authIn, streamIn, handling, reply, action, fcIn,
                 ram, flash, events, authSeen>>

Goroutines ==
  \/ Read \/ ChanCastReceive \/ ChanCastSend \/ RootSend
  \/ AuthReceive \/ AuthSend \/ StreamReceive \/ StreamSend \/ SendMessage
  \/ ActionSend \/ Write

Next ==
  \/ Goroutines
  \/ \E a \in scenario.actions : OnAction(a)
  \/ \E p \in scenario.updates : Update(p)

\* Every goroutine keeps running; the driver accepts what is written and
\* rotonde takes the events.  A blocked send is served in turn.
Fairness ==
  /\ WF_vars(Read) /\ WF_vars(ChanCastReceive) /\ WF_vars(ChanCastSend)
  /\ WF_vars(RootSend) /\ WF_vars(AuthReceive) /\ SF_vars(AuthSend)
  /\ WF_vars(StreamReceive) /\ SF_vars(StreamSend) /\ WF_vars(SendMessage)
  /\ SF_vars(ActionSend) /\ WF_vars(Write)

Spec == Init /\ [][Next]_vars /\ Fairness

-----------------------------------------------------------------------------
StreamChannel == INSTANCE PacketChannel WITH Packets <- PacketSet, delivered <- events

AuthChannel ==
  INSTANCE PacketChannel WITH Packets <- PacketSet, sent <- authSent, delivered <- authSeen

\* Whatever blocks on whatever, the root manager is a reliable channel to
\* each of its two managers: the stream handlers turn each data packet into
\* one event, in the order the flight controller sent them, and the other
\* objects neither delay the session handlers' packets for ever nor lose or
\* reorder them.
ManagersGetChannels == StreamChannel!Spec /\ AuthChannel!Spec

\* A setting that a client has set is saved in the end, under its own
\* instance, though saving takes two more packets each way that compete
\* with everything else for fcInChan.
SettingsSaved == <>[](flash = ram)

\* An update that asks for it is acknowledged.  Every acknowledgement names
\* instance 0 (CreatePacketAck), so this is about the instance 0 only.
UpdatesAcknowledged ==
  \A d \in Defs : (<<d, 0>> \in unacked) ~> (<<d, 0>> \notin unacked)

Quiet ==
  /\ queues = <<<<>>, <<>>, <<>>, <<>>, <<>>, <<>>>>
  /\ <<handling, reply, action, fcIn>> = <<<<>>, <<>>, <<>>, <<>>>>

\* Nothing the handlers send makes the flight controller's answers go round
\* for ever, the acknowledgement of a saved setting included.
ComesToRest == <>[]Quiet
=============================================================================
