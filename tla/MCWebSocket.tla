---------------------------- MODULE MCWebSocket ----------------------------
(***************************************************************************)
(* WebSocket and Handshake for TLC: the opening of a connection between a  *)
(* Dialer and an Upgrader, and what happens on open connections.  A        *)
(* behaviour is about one of the two.                                      *)
(***************************************************************************)
EXTENDS WebSocket

VARIABLES conf, client, server, request, response, isOpen, deadline  \* see Handshake

handshakeVars == <<conf, client, server, request, response, isOpen, deadline>>

-----------------------------------------------------------------------------
(***************************************************************************)
(* Connections: what the applications do.                                  *)
(***************************************************************************)
At(c, s) == [e \in Ends |-> IF e = "client" THEN c ELSE s]

Quiet ==
  [ops |-> At({}, {}), maxOps |-> At(0, 0), controls |-> At({}, {}), maxControls |-> At(0, 0),
   foreign |-> At({}, {}), readLimit |-> 0, discards |-> FALSE,
   writeDeadline |-> FALSE, readDeadline |-> FALSE]

Ping == <<"ping", << <<"p">> >> >>
CloseNormal == <<"close", << <<"normal">> >> >>

\* A client uses messageWriters, also old ones; the server sends a ping.
WriterLoad ==
  [Quiet EXCEPT
     !.ops = At({<<"NextWriter", "text">>, <<"Write", 3>>, <<"Close", 0>>}, {}),
     !.maxOps = At(3, 0),
     !.controls = At({}, {Ping}), !.maxControls = At(0, 1)]

\* A server sends whole messages, some too large for its buffer.
ServerLoad ==
  [Quiet EXCEPT
     !.ops = At({}, {<<"WriteMessage", "text", 2>>, <<"WriteMessage", "binary", 5>>,
                     <<"NextWriter", "binary">>, <<"ReadFrom", 2>>}),
     !.maxOps = At(0, 2),
     !.controls = At({}, {CloseNormal}), !.maxControls = At(0, 1),
     !.readLimit = 3]

\* Both ends may close; the pings are valid and too long, and a type is bad.
CloseLoad ==
  [Quiet EXCEPT
     !.ops = At({}, {<<"WriteMessage", "ping", 1>>, <<"WriteMessage", "ping", 2>>,
                     <<"WriteMessage", "bad", 1>>, <<"WriteMessage", "close", 0>>}),
     !.maxOps = At(0, 1),
     !.controls = At({CloseNormal}, {<<"close", << <<"other">> >> >>}), !.maxControls = At(1, 1),
     !.discards = TRUE]

\* A frame is larger than what the network holds, and there are deadlines.
TimeoutLoad ==
  [Quiet EXCEPT
     !.ops = At({}, {<<"WriteMessage", "text", 5>>}), !.maxOps = At(0, 1),
     !.controls = At({Ping}, {}), !.maxControls = At(1, 0),
     !.discards = TRUE, !.writeDeadline = TRUE, !.readDeadline = TRUE]

\* Frames of every kind that advanceFrame tells apart.
Frame(type, final, len, masked, reserved) ==
  <<[h |-> TRUE, type |-> type, final |-> final, len |-> len, masked |-> masked,
     reserved |-> reserved]>> \o MaskBytes("client", [i \in 1 .. len |-> <<"x">>])

ForeignLoad ==
  [Quiet EXCEPT
     !.foreign =
       At({Frame(type, final, 1, TRUE, FALSE) :
             type \in {"text", "cont", "ping", "pong", "bad"}, final \in BOOLEAN}
          \cup {Frame("ping", TRUE, 2, TRUE, FALSE), Frame("text", TRUE, 2, FALSE, FALSE),
                Frame("text", TRUE, 2, TRUE, TRUE), Frame("text", TRUE, 2, TRUE, FALSE)}, {}),
     !.maxOps = At(3, 0), !.readLimit = 2, !.discards = TRUE]

MCValues == {<<"p">>, <<"normal">>, <<"other">>, <<"x">>}

MCLoads == {WriterLoad, ServerLoad, CloseLoad, TimeoutLoad, ForeignLoad}

-----------------------------------------------------------------------------
(***************************************************************************)
(* Handshakes: Dialers and Upgraders with up to two subprotocols, and      *)
(* peers of other implementations.                                         *)
(***************************************************************************)
URL(scheme, host, port, path) ==
  [scheme |-> scheme, host |-> host, port |-> port, path |-> path, rest |-> host \o port \o path]

Lists == {<<>>, <<"a">>, <<"a", "b">>, <<"b", "a">>}

SomeClients ==
  [url : {URL("wss", <<"h">>, <<>>, <<"/">>)}, protocols : Lists,
   origin : {<<>>, <<"h">>, <<"o">>}, timeout : BOOLEAN]
  \cup
  [url : {URL("ws", h, p, f) : h \in {<<"h">>, <<"[", ":", "h", "]">>},
             p \in {<<>>, <<":", "7">>}, f \in {<<>>, <<"/">>, <<"/", ":", "/", "]">>}}
         \cup {URL("http", <<"h">>, <<>>, <<>>)},
   protocols : {<<>>}, origin : {<<>>}, timeout : {TRUE}]

SomeServers ==
  [protocols : {<<>>, << <<"a">> >>, << <<"b", "a">> >>}, header : {"", "a"},
   anyOrigin : BOOLEAN, timeout : {TRUE}, hijacker : {TRUE}]
  \cup
  [protocols : {<< <<>> >>}, header : {""}, anyOrigin : {TRUE}, timeout : BOOLEAN, hijacker : BOOLEAN]

Request ==
  [version |-> "13", connection |-> << <<"keep-alive">>, <<"x", "upgrade">> >>,
   upgrade |-> << <<"h2c", "websocket">> >>, key |-> "f", early |-> FALSE,
   origin |-> <<>>, protocols |-> <<"b", "c">>]

SomeRequests ==
  {Request, [Request EXCEPT !.version = "8"], [Request EXCEPT !.connection = <<>>],
   [Request EXCEPT !.upgrade = << <<"h2c">> >>], [Request EXCEPT !.key = ""],
   [Request EXCEPT !.early = TRUE]}

Response ==
  [status |-> 101, connection |-> "upgrade", upgrade |-> "websocket",
   accept |-> <<"accept", "k">>, protocol |-> "c"]

SomeResponses ==
  {Response, [Response EXCEPT !.status = 302], [Response EXCEPT !.connection = "close"],
   [Response EXCEPT !.upgrade = "h2c"], [Response EXCEPT !.accept = <<"accept", "f">>]}

HS == INSTANCE Handshake WITH
        Clients <- SomeClients, Servers <- SomeServers, Host <- "h",
        ForeignRequests <- SomeRequests, ForeignResponses <- SomeResponses

-----------------------------------------------------------------------------
\* Nothing is dialled, and nothing can happen in Handshake.
NoHandshake ==
  /\ conf = [client |-> [url |-> URL("http", <<"h">>, <<>>, <<>>), protocols |-> <<>>,
                         origin |-> <<>>, timeout |-> FALSE], server |-> <<>>]
  /\ client = [pc |-> "foreign", protocol |-> ""]
  /\ server = [pc |-> "foreign", protocol |-> ""]
  /\ request = <<>> /\ response = <<>>
  /\ isOpen = At(FALSE, FALSE) /\ deadline = At(FALSE, FALSE)

\* The connection is closed, and nothing can happen in WebSocket.
NoConnection ==
  /\ load = Quiet
  /\ closed = At(TRUE, TRUE)
  /\ wire = At(<<>>, <<>>)
  /\ mu = At("free", "free")
  /\ closeSent = At(FALSE, FALSE)
  /\ out = [e \in Ends |-> [g \in Goroutines |-> Off]]
  /\ controls = At(0, 0)
  /\ w = [e \in Ends |-> [err |-> "nil", type |-> "noFrame", buf |-> <<>>, seq |-> 0,
                          todo |-> <<>>, ops |-> 0]]
  /\ msgs = At(<<>>, <<>>)
  /\ r = [e \in Ends |-> [pc |-> "end", err |-> "EOF", remaining |-> 0, final |-> TRUE,
                          length |-> 0, maskPos |-> 0, type |-> "none", got |-> <<>>,
                          reading |-> FALSE, after |-> "nil"]]
  /\ received = At(<<>>, <<>>)

MCInit == (Init /\ NoHandshake) \/ (HS!Init /\ NoConnection)

MCNext == (Next /\ UNCHANGED handshakeVars) \/ (HS!Next /\ UNCHANGED vars)

MCSpec ==
  /\ MCInit /\ [][MCNext]_<<vars, handshakeVars>>
  /\ Fairness /\ WF_handshakeVars(HS!ClientNext)

-----------------------------------------------------------------------------
\* Handshake: parseURL and hostPortNoPort take every URL apart as it was put
\* together, and when Dial returns, both ends name the same subprotocol, the
\* first one in the Upgrader's order that the Dialer asked for.
DialAsAsked == HS!DialAsAsked

\* Handshake: Dial and Upgrade close the net.Conn exactly when they fail, and
\* no deadline of the handshake or of the HTTP server stays on a connection
\* that they return.
NothingLeftBehind == HS!NothingLeftBehind

\* Handshake: with a HandshakeTimeout, Dial returns.
TimeoutEndsDial == HS!TimeoutEndsDial
=============================================================================
