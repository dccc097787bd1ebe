-------------------------------- MODULE Chat --------------------------------
(***************************************************************************)
(* The chat example of gorilla/websocket (examples/chat/hub.go, conn.go):  *)
(* a hub goroutine, and a readPump and a writePump for each connection.    *)
(* Channels of the hub are unbuffered, so that sending is a joint step;    *)
(* send[c] is the buffered channel of connection c.                        *)
(***************************************************************************)
EXTENDS Integers, Sequences, FiniteSets

CONSTANTS
  Conns,    \* connections
  SendCap,  \* capacity of the send channel, 256
  MaxSaid   \* bound on the messages of all clients

VARIABLES
  connections,  \* hub.connections
  send, ended,  \* the send channels, and the closed ones
  reader,       \* goroutine of serveWs and readPump, see ChatInit
  writer,       \* goroutine of writePump
  wsClosed,     \* connections whose WebSocket was closed by the server
  said,         \* number of messages that were broadcast
  joined,       \* joined[c]: how many messages there were when c registered
  heard,        \* heard[c]: numbers of the messages written to the client
  panicked      \* a closed channel was closed or sent to

chatVars == <<connections, send, ended, reader, writer, wsClosed, said, joined, heard, panicked>>

ChatInit ==
  /\ connections = {} /\ ended = {} /\ wsClosed = {}
  /\ send = [c \in Conns |-> <<>>]
  /\ reader = [c \in Conns |-> "new"]
  /\ writer = [c \in Conns |-> "off"]
  /\ said = 0
  /\ joined = [c \in Conns |-> 0]
  /\ heard = [c \in Conns |-> <<>>]
  /\ panicked = FALSE

-----------------------------------------------------------------------------
(***************************************************************************)
(* The hub, with the goroutine that talks to it.                           *)
(***************************************************************************)
CloseSend(C) ==
  /\ ended' = ended \cup C
  /\ panicked' = (panicked \/ C \cap ended # {})

\* h.register <- c, then both pumps run.
Register(c) ==
  /\ reader[c] = "new"
  /\ connections' = connections \cup {c}
  /\ joined' = [joined EXCEPT ![c] = said]
  /\ reader' = [reader EXCEPT ![c] = "read"]
  /\ writer' = [writer EXCEPT ![c] = "select"]
  /\ UNCHANGED <<send, ended, wsClosed, said, heard, panicked>>

\* Mutant: the channel is closed whether or not the hub still knows it.
UnregisterAlways(c) ==
  /\ reader[c] = "unregister"
  /\ connections' = connections \ {c}
  /\ CloseSend({c})
  /\ reader' = [reader EXCEPT ![c] = "close"]
  /\ UNCHANGED <<send, writer, wsClosed, said, joined, heard>>

Unregister(c) ==
  /\ reader[c] = "unregister"
  /\ connections' = connections \ {c}
  /\ CloseSend({c} \cap connections)
  /\ reader' = [reader EXCEPT ![c] = "close"]
  /\ UNCHANGED <<send, writer, wsClosed, said, joined, heard>>

Full == {c \in connections : Len(send[c]) >= SendCap}

\* Mutant: a connection that is too slow misses the message and stays.
BroadcastSkips(c) ==
  /\ reader[c] = "broadcast"
  /\ said' = said + 1
  /\ send' = [d \in Conns |-> IF d \in connections \ Full THEN Append(send[d], said') ELSE send[d]]
  /\ reader' = [reader EXCEPT ![c] = "read"]
  /\ UNCHANGED <<connections, ended, writer, wsClosed, joined, heard, panicked>>

\* A connection whose channel is full is dropped.
Broadcast(c) ==
  /\ reader[c] = "broadcast"
  /\ said' = said + 1
  /\ send' = [d \in Conns |-> IF d \in connections \ Full THEN Append(send[d], said') ELSE send[d]]
  /\ CloseSend(Full)
  /\ connections' = connections \ Full
  /\ reader' = [reader EXCEPT ![c] = "read"]
  /\ UNCHANGED <<writer, wsClosed, joined, heard>>

-----------------------------------------------------------------------------
(***************************************************************************)
(* readPump.                                                               *)
(***************************************************************************)
ReadMessage(c) ==
  /\ reader[c] = "read" /\ c \notin wsClosed
  /\ said + Cardinality({d \in Conns : reader[d] = "broadcast"}) < MaxSaid
  /\ reader' = [reader EXCEPT ![c] = "broadcast"]
  /\ UNCHANGED <<connections, send, ended, writer, wsClosed, said, joined, heard, panicked>>

\* The client is gone, too large a message, no pong in time, or closed.
ReadFails(c) ==
  /\ reader[c] = "read"
  /\ reader' = [reader EXCEPT ![c] = "unregister"]
  /\ UNCHANGED <<connections, send, ended, writer, wsClosed, said, joined, heard, panicked>>

ReaderCloses(c) ==
  /\ reader[c] = "close"
  /\ reader' = [reader EXCEPT ![c] = "end"]
  /\ wsClosed' = wsClosed \cup {c}
  /\ UNCHANGED <<connections, send, ended, writer, said, joined, heard, panicked>>

-----------------------------------------------------------------------------
(***************************************************************************)
(* writePump.                                                              *)
(***************************************************************************)
\* A message, and the close message after the last one.
WriteMessage(c) ==
  /\ writer[c] = "select"
  /\ send[c] # <<>> /\ c \notin wsClosed
  /\ heard' = [heard EXCEPT ![c] = Append(@, Head(send[c]))]
  /\ send' = [send EXCEPT ![c] = Tail(@)]
  /\ UNCHANGED <<connections, ended, reader, writer, wsClosed, said, joined, panicked>>

WriteClose(c) ==
  /\ writer[c] = "select"
  /\ send[c] = <<>> /\ c \in ended
  /\ writer' = [writer EXCEPT ![c] = "close"]
  /\ UNCHANGED <<connections, send, ended, reader, wsClosed, said, joined, heard, panicked>>

\* A message or a ping was not written within writeWait.
WriteFails(c) ==
  /\ writer[c] = "select"
  /\ writer' = [writer EXCEPT ![c] = "close"]
  /\ send' = [send EXCEPT ![c] = IF @ = <<>> THEN @ ELSE Tail(@)]
  /\ UNCHANGED <<connections, ended, reader, wsClosed, said, joined, heard, panicked>>

\* Mutant: the WebSocket stays open.
WriterReturns(c) ==
  /\ writer[c] = "close"
  /\ writer' = [writer EXCEPT ![c] = "end"]
  /\ UNCHANGED <<connections, send, ended, reader, wsClosed, said, joined, heard, panicked>>

WriterCloses(c) ==
  /\ writer[c] = "close"
  /\ writer' = [writer EXCEPT ![c] = "end"]
  /\ wsClosed' = wsClosed \cup {c}
  /\ UNCHANGED <<connections, send, ended, reader, said, joined, heard, panicked>>

-----------------------------------------------------------------------------
ChatNext ==
  \E c \in Conns :
    \/ Register(c) \/ Unregister(c) \/ Broadcast(c)
    \/ ReadMessage(c) \/ ReadFails(c) \/ ReaderCloses(c)
    \/ WriteMessage(c) \/ WriteClose(c) \/ WriteFails(c) \/ WriterCloses(c)

\* Goroutines run; a client need not say anything, nor leave.
Fairness ==
  \A c \in Conns :
    /\ WF_chatVars(Unregister(c)) /\ WF_chatVars(Broadcast(c)) /\ WF_chatVars(ReaderCloses(c))
    /\ WF_chatVars(ReadFails(c) /\ c \in wsClosed)
    /\ WF_chatVars(WriteMessage(c) \/ WriteClose(c)) /\ WF_chatVars(WriteFails(c) /\ c \in wsClosed)
    /\ WF_chatVars(WriterCloses(c))

ChatSpec == ChatInit /\ [][ChatNext]_chatVars /\ Fairness

-----------------------------------------------------------------------------
\* The hub and the pumps never close a send channel twice, and never send
\* on a closed one, however a slow client and a leaving client race.
NoPanic == ~panicked /\ connections \cap ended = {}

\* What a client hears has no gap: every message since it joined, in the
\* order of the hub, until it is dropped.
NoGaps ==
  \A c \in Conns : \A i \in DOMAIN heard[c] : heard[c][i] = joined[c] + i

\* When a pump of a connection ends, or the hub drops it, the other pump
\* ends too, the WebSocket is closed and the hub forgets the connection.
Leaving(c) == reader[c] \in {"unregister", "close", "end"} \/ writer[c] \in {"close", "end"} \/ c \in ended
Gone(c) == reader[c] = "end" /\ writer[c] = "end" /\ c \in wsClosed /\ c \notin connections
LeavesCompletely == \A c \in Conns : Leaving(c) ~> Gone(c)
=============================================================================
