----------------------------- MODULE Handshake -----------------------------
(***************************************************************************)
(* The opening handshake of gorilla/websocket: Dialer.Dial and NewClient   *)
(* of client.go on one side, Upgrader.Upgrade of server.go on the other.   *)
(* A header is a sequence of values, each a sequence of tokens; SHA-1 is   *)
(* an injective function.                                                  *)
(***************************************************************************)
EXTENDS Integers, Sequences, SequencesExt

CONSTANTS
  Clients,           \* [url, protocols, origin, timeout]: a Dialer and its call
  Servers,           \* [protocols, header, anyOrigin, timeout, hijacker]
  ForeignRequests,   \* requests of other clients
  ForeignResponses,  \* responses of other servers
  Host               \* the host in the requests

VARIABLES
  conf,      \* the client and the server of this behaviour
  client,    \* [pc, protocol]
  server,    \* [pc, protocol]
  request, response,  \* what was sent: <<>> or one message
  isOpen,    \* isOpen[e]: e has a net.Conn that it has not closed
  deadline   \* deadline[e]: a deadline is set on that net.Conn

vars == <<conf, client, server, request, response, isOpen, deadline>>

-----------------------------------------------------------------------------
(***************************************************************************)
(* URLs, as sequences of symbols after the scheme.                         *)
(***************************************************************************)
Index(s, x) == {i \in DOMAIN s : s[i] = x /\ \A j \in 1 .. i - 1 : s[j] # x}
LastIndex(s, x) == LET at == {i \in DOMAIN s : s[i] = x}
                   IN  IF at = {} THEN 0 ELSE CHOOSE i \in at : \A j \in at : j <= i

ParseURL(url) ==
  LET slash == Index(url.rest, "/")
      i == CHOOSE j \in slash : TRUE
  IN  IF slash = {} THEN [host |-> url.rest, opaque |-> <<"/">>]
      ELSE [host |-> SubSeq(url.rest, 1, i - 1), opaque |-> SubSeq(url.rest, i, Len(url.rest))]

HasPort(host) == LastIndex(host, ":") > LastIndex(host, "]")

HostPortNoPort(url) ==
  LET host == ParseURL(url).host IN
  IF HasPort(host)
  THEN [hostPort |-> host, hostNoPort |-> SubSeq(host, 1, LastIndex(host, ":") - 1)]
  ELSE [hostPort |-> host \o <<":", IF url.scheme = "wss" THEN "443" ELSE "80">>,
        hostNoPort |-> host]

-----------------------------------------------------------------------------
(***************************************************************************)
(* The client.                                                             *)
(***************************************************************************)
ComputeAcceptKey(key) == <<"accept", key>>

Init ==
  /\ conf \in [client : Clients, server : Servers]
  /\ client = [pc |-> "dial", protocol |-> ""]
  /\ server = [pc |-> "accept", protocol |-> ""]
  /\ request = <<>> /\ response = <<>>
  /\ isOpen = [e \in {"client", "server"} |-> FALSE]
  /\ deadline = [e \in {"client", "server"} |-> e = "server"]

\* Mutant: only the net.Dialer has the deadline, not the connection.
DialNoDeadline ==
  /\ client.pc = "dial"
  /\ \/ /\ conf.client.url.scheme \in {"ws", "wss"}
        /\ client' = [client EXCEPT !.pc = IF conf.client.url.scheme = "wss" THEN "tls" ELSE "request"]
        /\ isOpen' = [e \in DOMAIN isOpen |-> TRUE]
     \/ /\ client' = [client EXCEPT !.pc = "failed"]
        /\ UNCHANGED isOpen
  /\ UNCHANGED <<conf, server, request, response, deadline>>

\* Dial up to netDial; an HTTP server may have set deadlines of its own.
Dial ==
  /\ client.pc = "dial"
  /\ \/ /\ conf.client.url.scheme \in {"ws", "wss"}
        /\ client' = [client EXCEPT !.pc = IF conf.client.url.scheme = "wss" THEN "tls" ELSE "request"]
        /\ isOpen' = [e \in DOMAIN isOpen |-> TRUE]
        /\ deadline' = [deadline EXCEPT !.client = conf.client.timeout]
     \/ /\ client' = [client EXCEPT !.pc = "failed"]
        /\ UNCHANGED <<isOpen, deadline>>
  /\ UNCHANGED <<conf, server, request, response>>

\* Mutant: the connection stays open.
DialFailsOpen ==
  /\ client' = [client EXCEPT !.pc = "failed"]
  /\ UNCHANGED <<conf, server, request, response, isOpen, deadline>>

\* Dial returns an error after netDial: the deferred function closes.
DialFails ==
  /\ client' = [client EXCEPT !.pc = "failed"]
  /\ isOpen' = [isOpen EXCEPT !.client = FALSE]
  /\ UNCHANGED <<conf, server, request, response, deadline>>

Handshaking == client.pc \in {"tls", "request", "response"}

\* A read or a write of the handshake fails.
NetError == Handshaking /\ DialFails

DialTimeout == Handshaking /\ deadline.client /\ DialFails

\* Handshake and VerifyHostname.
TLSHandshake ==
  /\ client.pc = "tls"
  /\ client' = [client EXCEPT !.pc = "request"]
  /\ UNCHANGED <<conf, server, request, response, isOpen, deadline>>

\* NewClient writes the request, with the headers of Dial.
SendRequest ==
  /\ client.pc = "request"
  /\ client' = [client EXCEPT !.pc = "response"]
  /\ request' = <<[version |-> "13", connection |-> << <<"upgrade">> >>,
                   upgrade |-> << <<"websocket">> >>, key |-> "k", early |-> FALSE,
                   origin |-> conf.client.origin, protocols |-> conf.client.protocols]>>
  /\ UNCHANGED <<conf, server, response, isOpen, deadline>>

\* Another client at the other end of the server's connection.
ForeignRequest ==
  /\ client.pc = "request"
  /\ client' = [client EXCEPT !.pc = "foreign"]
  /\ \E req \in ForeignRequests : request' = <<req>>
  /\ UNCHANGED <<conf, server, response, isOpen, deadline>>

GoodResponse(resp) ==
  /\ resp.status = 101 /\ resp.upgrade = "websocket" /\ resp.connection = "upgrade"
  /\ resp.accept = ComputeAcceptKey("k")

DialReturns ==
  /\ client' = [pc |-> "open", protocol |-> response[1].protocol]
  /\ deadline' = [deadline EXCEPT !.client = FALSE]
  /\ UNCHANGED <<conf, server, request, response, isOpen>>

ReceiveResponse ==
  /\ client.pc = "response" /\ response # <<>>
  /\ IF GoodResponse(response[1]) THEN DialReturns ELSE DialFails

-----------------------------------------------------------------------------
(***************************************************************************)
(* The server.                                                             *)
(***************************************************************************)
TokenListContainsValue(header, value) ==
  \E i \in DOMAIN header : \E j \in DOMAIN header[i] : header[i][j] = value

CheckSameOrigin(req) == req.origin = <<>> \/ req.origin[1] = Host

\* Mutant: the order of the client's list decides.
SelectSubprotocolOfClient(u, req) ==
  IF u.protocols = <<>> THEN u.header
  ELSE LET match == SelectSeq(req.protocols, LAMBDA p : Contains(u.protocols[1], p))
       IN  IF match = <<>> THEN "" ELSE Head(match)

\* u.protocols is <<>> when Subprotocols is nil, <<list>> otherwise.
SelectSubprotocol(u, req) ==
  IF u.protocols = <<>> THEN u.header
  ELSE LET match == SelectSeq(u.protocols[1], LAMBDA p : Contains(req.protocols, p))
       IN  IF match = <<>> THEN "" ELSE Head(match)

\* The status returned before the connection is hijacked; 101 when none is.
Refusal(u, req) ==
  CASE req.version # "13" -> 400
    [] ~TokenListContainsValue(req.connection, "upgrade") -> 400
    [] ~TokenListContainsValue(req.upgrade, "websocket") -> 400
    [] ~u.anyOrigin /\ ~CheckSameOrigin(req) -> 403
    [] req.key = "" -> 400
    [] ~u.hijacker -> 500
    [] OTHER -> 101

Respond(status, accept, protocol) ==
  response' = <<[status |-> status, connection |-> "upgrade", upgrade |-> "websocket",
                 accept |-> accept, protocol |-> protocol]>>

ReturnError ==
  /\ server.pc = "accept" /\ request # <<>>
  /\ \E status \in {Refusal(conf.server, request[1]), 500} \ {101} :
       response' = <<[status |-> status, connection |-> "", upgrade |-> "",
                      accept |-> <<>>, protocol |-> ""]>>
  /\ server' = [server EXCEPT !.pc = "refused"]
  /\ UNCHANGED <<conf, client, request, isOpen, deadline>>

\* Up to the write of the response; a client that already sent data is dropped.
Hijack ==
  /\ server.pc = "accept" /\ request # <<>>
  /\ Refusal(conf.server, request[1]) = 101
  /\ IF request[1].early
     THEN /\ server' = [server EXCEPT !.pc = "failed"]
          /\ isOpen' = [isOpen EXCEPT !.server = FALSE]
          /\ UNCHANGED deadline
     ELSE /\ server' = [pc |-> "write", protocol |-> SelectSubprotocol(conf.server, request[1])]
          /\ deadline' = [deadline EXCEPT !.server = conf.server.timeout]
          /\ UNCHANGED isOpen
  /\ UNCHANGED <<conf, client, request, response>>

\* netConn.Write: an error may come after the response has left.
WriteResponse ==
  /\ server.pc = "write"
  /\ \/ /\ Respond(101, ComputeAcceptKey(request[1].key), server.protocol)
        /\ server' = [server EXCEPT !.pc = "open"]
        /\ deadline' = [deadline EXCEPT !.server = @ /\ ~conf.server.timeout]
        /\ UNCHANGED isOpen
     \/ /\ \/ UNCHANGED response
           \/ Respond(101, ComputeAcceptKey(request[1].key), server.protocol)
        /\ server' = [server EXCEPT !.pc = "failed"]
        /\ isOpen' = [isOpen EXCEPT !.server = FALSE]
        /\ UNCHANGED deadline
  /\ UNCHANGED <<conf, client, request>>

\* Another server at the other end of the client's connection.
ForeignResponse ==
  /\ server.pc = "accept" /\ request # <<>>
  /\ \E resp \in ForeignResponses : response' = <<resp>>
  /\ server' = [server EXCEPT !.pc = "foreign"]
  /\ UNCHANGED <<conf, client, request, isOpen, deadline>>

-----------------------------------------------------------------------------
ClientNext == Dial \/ DialTimeout \/ TLSHandshake \/ SendRequest \/ ReceiveResponse
ServerNext == ReturnError \/ Hijack \/ WriteResponse
Next == ClientNext \/ NetError \/ ForeignRequest \/ ServerNext \/ ForeignResponse

Spec == Init /\ [][Next]_vars /\ WF_vars(ClientNext)

-----------------------------------------------------------------------------
(***************************************************************************)
(* Properties.                                                             *)
(***************************************************************************)
\* parseURL and hostPortNoPort take a host apart from its path and its port,
\* for names and for bracketed IPv6 addresses, whatever colons and slashes the
\* path has, and add the port of the scheme when there is none.
URLTakenApart ==
  LET u == conf.client.url
      p == HostPortNoPort(u)
  IN  u.scheme \in {"ws", "wss"} =>
        /\ ParseURL(u) = [host |-> u.host \o u.port,
                          opaque |-> IF u.path = <<>> THEN <<"/">> ELSE u.path]
        /\ p.hostNoPort = u.host
        /\ p.hostPort = u.host \o (CASE u.port # <<>> -> u.port
                                     [] u.scheme = "ws" -> <<":", "80">>
                                     [] OTHER -> <<":", "443">>)

\* When Dial returns a connection that this package's Upgrade answered, both
\* ends name the same subprotocol, and with Upgrader.Subprotocols set it is the
\* first of that list that the Dialer asked for ("in order of preference").
SubprotocolAgreed ==
  (client.pc = "open" /\ server.pc # "foreign") =>
    /\ client.protocol = server.protocol
    /\ conf.server.protocols # <<>> =>
         LET mine == conf.server.protocols[1]
             both == {i \in DOMAIN mine : Contains(conf.client.protocols, mine[i])}
         IN  IF both = {} THEN client.protocol = ""
             ELSE \E i \in both : client.protocol = mine[i] /\ \A j \in both : i <= j

\* Dial goes where the URL says, and both ends agree on how to talk.
DialAsAsked == URLTakenApart /\ SubprotocolAgreed

\* Dial and Upgrade leave no connection behind that nobody will close: on every
\* error after netDial or Hijack the net.Conn is closed, whichever of the two
\* sides, the network or the timeout caused it; on success it is still open.
NoConnectionLeaked ==
  /\ client.pc \in {"failed", "open"} => (isOpen.client <=> client.pc = "open")
  /\ server.pc \in {"failed", "open"} => (isOpen.server <=> server.pc = "open")

\* The deadline of the handshake, and those the HTTP server had set, are gone
\* from a connection that is handed to the application.
NoDeadlineLeft ==
  /\ client.pc = "open" => ~deadline.client
  /\ server.pc = "open" => ~deadline.server

\* A handshake leaves neither connections nor deadlines behind.
NothingLeftBehind == NoConnectionLeaked /\ NoDeadlineLeft

\* With a HandshakeTimeout, Dial returns even if the peer never answers.
TimeoutEndsDial ==
  conf.client.timeout => <>(client.pc \in {"open", "failed", "foreign"})
=============================================================================
