----------------------------- MODULE WebSocket -----------------------------
(***************************************************************************)
(* A WebSocket connection between two ends of gorilla/websocket (conn.go). *)
(* At each end three goroutines share a Conn: "writer" (NextWriter, the    *)
(* messageWriter, WriteMessage), "reader" (NextReader, the messageReader,  *)
(* and the replies it sends) and "control" (WriteControl).  They meet at   *)
(* the mutex mu that guards writes to the net.Conn, and in closeSent.      *)
(*                                                                         *)
(* A direction of the network connection is a sequence of units: a header  *)
(* [h, type, final, len, masked, reserved] or a byte [v, mask], where mask *)
(* is the position of the key it was masked with.  Applications behave as  *)
(* in doc.go and the examples: a goroutine that gets an error closes the   *)
(* connection.                                                             *)
(***************************************************************************)
EXTENDS Integers, Sequences

CONSTANTS
  Loads,        \* what the applications do, see below
  BufSize,      \* writeBuf, without room for the header
  LargeMin,     \* a server does not buffer longer writes, 2*len(writeBuf)
  ControlMax,   \* maxControlFramePayloadSize
  KeyLen,       \* bytes of a mask key, 4
  Cap,          \* units the network holds in each direction
  Values        \* bytes of control messages, and of peers other than this library

(***************************************************************************)
(* A load is a record of                                                   *)
(*   ops[e], maxOps[e]            calls the writer may make, <<op,         *)
(*                                argument>>, and a bound on them          *)
(*   controls[e], maxControls[e]  what is given to WriteControl, <<type,   *)
(*                                payload>>, and a bound on them           *)
(*   foreign[e]                   frames that a peer other than this       *)
(*                                library sends                            *)
(*   readLimit                    SetReadLimit, 0 for none                 *)
(*   discards                     may the reader abandon a message?        *)
(*   writeDeadline, readDeadline  are deadlines set?                       *)
(***************************************************************************)
Ends == {"client", "server"}
Peer(e) == IF e = "client" THEN "server" ELSE "client"
Goroutines == {"writer", "reader", "control"}

Data == {"text", "binary"}
Control == {"close", "ping", "pong"}
FrameTypes == Data \cup Control \cup {"cont", "bad"}   \* "bad": no such opcode

\* The bytes of messages, see below, those of the library's own control
\* messages, and what a byte is when the wrong byte of the key unmasks it.
AllBytes == Values \cup (Nat \X Nat) \cup {<<"protocol">>, <<"tooBig">>, <<"garbled">>}

Headers ==
  [h : {TRUE}, type : FrameTypes, final : BOOLEAN, len : Nat, masked : BOOLEAN, reserved : BOOLEAN]
ByteUnits == [h : {FALSE}, v : AllBytes, mask : Int]
Units == Headers \cup ByteUnits

IsFrame(f) ==
  /\ f \in Seq(Units) /\ f # <<>>
  /\ f[1] \in Headers /\ Len(f) = f[1].len + 1
  /\ \A i \in 2 .. Len(f) : f[i] \in ByteUnits

\* WriteControl refuses other types and longer payloads.
ASSUME WebSocketAssumption ==
  /\ {BufSize, LargeMin, ControlMax, KeyLen, Cap} \subseteq Nat \ {0}
  /\ \A l \in Loads :
       /\ l.readLimit \in Nat
       /\ {l.discards, l.writeDeadline, l.readDeadline} \subseteq BOOLEAN
       /\ \A e \in Ends :
            /\ l.ops[e] \subseteq ({"NextWriter"} \X FrameTypes)
                                    \cup ({"WriteMessage"} \X FrameTypes \X Nat)
                                    \cup ({"Write", "ReadFrom", "Close"} \X Nat)
            /\ \A c \in l.controls[e] :
                 c \in Control \X Seq(Values) /\ Len(c[2]) <= ControlMax
            /\ \A f \in l.foreign[e] : IsFrame(f)

VARIABLES
  load,       \* one of Loads, the same throughout
  closed,     \* closed[e]: the net.Conn was closed at e
  wire,       \* wire[e]: units from e that its peer has not read
  mu,         \* mu[e]: the goroutine that holds it, or "free"
  closeSent,  \* closeSent[e]
  out,        \* out[e][g]: the call of write or WriteControl of goroutine g
  controls,   \* controls[e]: calls of WriteControl made by the application
  w,          \* w[e]: the fields of the message writer
  msgs,       \* msgs[e]: the messageWriters handed out, with what was written
  r,          \* r[e]: the fields of the message reader
  received    \* received[e]: messages the application has read up to io.EOF

vars == <<load, closed, wire, mu, closeSent, out, controls, w, msgs, r, received>>

Off == [pc |-> "off"]

Init ==
  /\ load \in Loads
  /\ closed = [e \in Ends |-> FALSE]
  /\ wire = [e \in Ends |-> <<>>]
  /\ mu = [e \in Ends |-> "free"]
  /\ closeSent = [e \in Ends |-> FALSE]
  /\ out = [e \in Ends |-> [g \in Goroutines |-> Off]]
  /\ controls = [e \in Ends |-> 0]
  /\ w = [e \in Ends |-> [err |-> "nil", type |-> "noFrame", buf |-> <<>>, seq |-> 0,
                          todo |-> <<>>, ops |-> 0]]
  /\ msgs = [e \in Ends |-> <<>>]
  /\ r = [e \in Ends |-> [pc |-> "idle", err |-> "nil", remaining |-> 0, final |-> TRUE,
                          length |-> 0, maskPos |-> 0, type |-> "none", got |-> <<>>,
                          reading |-> FALSE, after |-> "nil"]]
  /\ received = [e \in Ends |-> <<>>]

-----------------------------------------------------------------------------
(***************************************************************************)
(* Frames.  Clients mask, from position 0 of a new key.                    *)
(***************************************************************************)
Header(e, type, final, len) ==
  [h |-> TRUE, type |-> type, final |-> final, len |-> len, masked |-> e = "client",
   reserved |-> FALSE]

MaskBytes(e, data) ==
  [i \in DOMAIN data |-> [h |-> FALSE, v |-> data[i],
                          mask |-> IF e = "client" THEN (i - 1) % KeyLen ELSE -1]]

\* Unmasking with another byte of the key gives something else.
Unmask(e, unit, pos) ==
  IF e = "server" /\ unit.mask # pos % KeyLen THEN <<"garbled">> ELSE unit.v

Call(type, deadline, bufs) ==
  [pc |-> "wait", type |-> type, deadline |-> deadline, bufs |-> bufs, wrote |-> FALSE]

\* WriteControl, up to the mutex.
WriteControl(e, type, data) ==
  Call(type, TRUE, << <<Header(e, type, TRUE, Len(data))>> \o MaskBytes(e, data) >>)

-----------------------------------------------------------------------------
(***************************************************************************)
(* write and WriteControl: the mutex, closeSent, and the net.Conn.         *)
(***************************************************************************)
Return(e, g, res) == out' = [out EXCEPT ![e][g] = [pc |-> "done", res |-> res]]

Lock(e, g) ==
  /\ out[e][g].pc = "wait"
  /\ mu[e] = "free"
  /\ IF closeSent[e] THEN Return(e, g, "closeSent") /\ UNCHANGED <<mu, closeSent>>
     ELSE /\ mu' = [mu EXCEPT ![e] = g]
          /\ closeSent' = [closeSent EXCEPT ![e] = out[e][g].type = "close"]
          /\ out' = [out EXCEPT ![e][g].pc = "write"]
  /\ UNCHANGED <<load, closed, wire, controls, w, msgs, r, received>>

\* The timer of WriteControl.
LockTimeout(e, g) ==
  /\ out[e][g].pc = "wait" /\ g # "writer"
  /\ mu[e] # "free"
  /\ Return(e, g, "timeout")
  /\ UNCHANGED <<load, closed, wire, mu, closeSent, controls, w, msgs, r, received>>

Space(e) == Cap - Len(wire[e])

\* Mutant: the mutex is released after every buffer.
ConnWriteUnlocks(e, g) ==
  LET b == Head(out[e][g].bufs)
      n == IF Len(b) < Space(e) THEN Len(b) ELSE Space(e)
      rest == IF n = Len(b) THEN Tail(out[e][g].bufs)
              ELSE <<SubSeq(b, n + 1, Len(b))>> \o Tail(out[e][g].bufs)
  IN /\ out[e][g].pc = "write"
     /\ ~closed[e]
     /\ n > 0
     /\ wire' = [wire EXCEPT ![e] = @ \o SubSeq(b, 1, n)]
     /\ mu' = IF n = Len(b) THEN [mu EXCEPT ![e] = "free"] ELSE mu
     /\ IF rest = <<>> THEN Return(e, g, "nil") ELSE out' = [out EXCEPT ![e][g].bufs = rest]
     /\ UNCHANGED <<load, closed, closeSent, controls, w, msgs, r, received>>

\* conn.Write puts what fits on the network, and the rest later.
ConnWrite(e, g) ==
  LET b == Head(out[e][g].bufs)
      n == IF Len(b) < Space(e) THEN Len(b) ELSE Space(e)
      rest == IF n = Len(b) THEN Tail(out[e][g].bufs)
              ELSE <<SubSeq(b, n + 1, Len(b))>> \o Tail(out[e][g].bufs)
  IN /\ out[e][g].pc = "write"
     /\ ~closed[e]
     /\ n > 0
     /\ wire' = [wire EXCEPT ![e] = @ \o SubSeq(b, 1, n)]
     /\ IF rest = <<>>
        THEN Return(e, g, "nil") /\ mu' = [mu EXCEPT ![e] = "free"]
        ELSE /\ out' = [out EXCEPT ![e][g].bufs = rest, ![e][g].wrote = TRUE]
             /\ UNCHANGED mu
     /\ UNCHANGED <<load, closed, closeSent, controls, w, msgs, r, received>>

\* conn.Write fails: write closes the connection on any partial write,
\* WriteControl only when a part of the frame was written.
ConnWriteFails(e, g) ==
  /\ out[e][g].pc = "write"
  /\ closed[e] \/ closed[Peer(e)] \/ (out[e][g].deadline /\ Space(e) = 0)
  /\ Return(e, g, "net")
  /\ mu' = [mu EXCEPT ![e] = "free"]
  /\ closed' = [closed EXCEPT ![e] = @ \/ g = "writer" \/ out[e][g].wrote]
  /\ UNCHANGED <<load, wire, closeSent, controls, w, msgs, r, received>>

\* The application calls WriteControl.
AppControl(e) ==
  /\ out[e].control.pc = "off"
  /\ controls[e] < load.maxControls[e]
  /\ \E c \in load.controls[e] : out' = [out EXCEPT ![e]["control"] = WriteControl(e, c[1], c[2])]
  /\ controls' = [controls EXCEPT ![e] = @ + 1]
  /\ UNCHANGED <<load, closed, wire, mu, closeSent, w, msgs, r, received>>

\* It closes the connection when WriteControl fails.
AppControlReturns(e) ==
  /\ out[e].control.pc = "done"
  /\ closed' = [closed EXCEPT ![e] = @ \/ out[e].control.res # "nil"]
  /\ out' = [out EXCEPT ![e]["control"] = Off]
  /\ UNCHANGED <<load, wire, mu, closeSent, controls, w, msgs, r, received>>

-----------------------------------------------------------------------------
(***************************************************************************)
(* The message writer.  A call is a sequence of steps, w[e].todo, each of  *)
(* which ends the call when it fails.  Message k is written by the k-th    *)
(* messageWriter, and its bytes are <<k, 1>>, <<k, 2>>, ...                *)
(***************************************************************************)
NewBytes(e, k, n) == [i \in 1 .. n |-> <<k, i + IF k > Len(msgs[e]) THEN 0 ELSE Len(msgs[e][k].data)>>]

\* What a call does, <<op, argument>>; old writers are used as well.
Steps(e, op) ==
  LET k == Len(msgs[e]) IN
  CASE op[1] = "NextWriter" -> { << <<"finish">>, <<"open", op[2]>> >> }
    [] op[1] = "WriteMessage" -> { << <<"finish">>, <<"open", op[2]>>,
                                      <<"write", k + 1, NewBytes(e, k + 1, op[3]), TRUE>>,
                                      <<"end", k + 1>> >> }
    [] op[1] = "Write" -> { << <<"write", j, NewBytes(e, j, op[2]), FALSE>> >> : j \in 1 .. k }
    [] op[1] = "ReadFrom" -> { << <<"readFrom", j, NewBytes(e, j, op[2])>> >> : j \in 1 .. k }
    [] op[1] = "Close" -> { << <<"close", j>> >> : j \in 1 .. k }

Begin(e) ==
  /\ w[e].todo = <<>>
  /\ w[e].ops < load.maxOps[e]
  /\ \E op \in load.ops[e] : \E steps \in Steps(e, op) :
       w' = [w EXCEPT ![e].todo = steps, ![e].ops = @ + 1]
  /\ UNCHANGED <<load, closed, wire, mu, closeSent, out, controls, msgs, r, received>>

Fail(e) == w' = [w EXCEPT ![e].todo = <<>>]

\* Mutant: a writer does not notice that its message is finished.
ErrSticky(e, k) == w[e].err # "nil"

\* messageWriter.err.
Err(e, k) == msgs[e][k].seq # w[e].seq \/ w[e].err # "nil"

\* flushFrame, up to the call of write; then is what is left of the call.
FlushFrame(e, final, extra, then) ==
  LET len == Len(w[e].buf) + Len(extra)
      buf == <<Header(e, w[e].type, final, len)>> \o MaskBytes(e, w[e].buf)
  IN IF w[e].type \in Control /\ (~final \/ len > ControlMax)
     THEN /\ w' = [w EXCEPT ![e].seq = @ + 1, ![e].type = "noFrame", ![e].buf = <<>>,
                            ![e].todo = <<>>]
          /\ UNCHANGED out
     ELSE /\ w' = [w EXCEPT ![e].todo = << <<"flushed", final>> >> \o then]
          /\ out' = [out EXCEPT ![e]["writer"] =
                       Call(w[e].type, load.writeDeadline,
                            IF extra = <<>> THEN <<buf>> ELSE <<buf, MaskBytes(e, extra)>>)]

\* flushFrame after write; the application closes when the write failed.
Flushed(e, final) ==
  LET res == out[e].writer.res IN
  w' = [w EXCEPT ![e].err = res, ![e].buf = <<>>,
                 ![e].todo = IF res = "nil" THEN Tail(@) ELSE <<>>,
                 ![e].seq = IF final THEN @ + 1 ELSE @,
                 ![e].type = IF final THEN "noFrame" ELSE "cont"]

\* messageWriter.write: one round of the loop, or all of a large buffer.
Write(e, k, bytes, final, then) ==
  LET n == BufSize - Len(w[e].buf)
      m == IF n < Len(bytes) THEN n ELSE Len(bytes)
      more == << <<"write", k, SubSeq(bytes, m + 1, Len(bytes)), final>> >>
  IN IF Len(bytes) > LargeMin /\ e = "server"
     THEN FlushFrame(e, final, bytes, then) /\ msgs' = [msgs EXCEPT ![e][k].data = @ \o bytes]
     ELSE \/ /\ bytes = <<>>
             /\ w' = [w EXCEPT ![e].todo = then]
             /\ UNCHANGED <<out, msgs>>
          \/ /\ bytes # <<>> /\ n > 0
             /\ w' = [w EXCEPT ![e].buf = @ \o SubSeq(bytes, 1, m), ![e].todo = more \o then]
             /\ msgs' = [msgs EXCEPT ![e][k].data = @ \o SubSeq(bytes, 1, m)]
             /\ UNCHANGED out
          \/ /\ bytes # <<>> /\ n <= 0
             /\ FlushFrame(e, FALSE, <<>>, << <<"write", k, bytes, final>> >> \o then)
             /\ UNCHANGED msgs

\* messageWriter.ReadFrom: a full buffer is flushed before it is known
\* whether there is more to read.
ReadFrom(e, k, bytes) ==
  LET n == BufSize - Len(w[e].buf)
      m == IF n < Len(bytes) THEN n ELSE Len(bytes)
      more == << <<"readFrom", k, SubSeq(bytes, m + 1, Len(bytes))>> >>
  IN \/ /\ n = 0
        /\ FlushFrame(e, FALSE, <<>>, << <<"readFrom", k, bytes>> >>)
        /\ UNCHANGED msgs
     \/ /\ n > 0
        /\ w' = [w EXCEPT ![e].buf = @ \o SubSeq(bytes, 1, m),
                          ![e].todo = IF bytes = <<>> THEN <<>> ELSE more]
        /\ msgs' = [msgs EXCEPT ![e][k].data = @ \o SubSeq(bytes, 1, m)]
        /\ UNCHANGED out

WriterStep(e) ==
  /\ w[e].todo # <<>>
  /\ LET step == Head(w[e].todo)
         then == Tail(w[e].todo)
     IN \/ /\ step[1] = "finish"
           /\ CASE w[e].err # "nil" -> Fail(e) /\ UNCHANGED out
                [] w[e].err = "nil" /\ w[e].type # "noFrame" -> FlushFrame(e, TRUE, <<>>, then)
                [] OTHER -> w' = [w EXCEPT ![e].todo = then] /\ UNCHANGED out
           /\ UNCHANGED <<closed, msgs>>
        \/ /\ step[1] = "open"
           /\ IF step[2] \in Data \cup Control
              THEN /\ w' = [w EXCEPT ![e].type = step[2], ![e].todo = then]
                   /\ msgs' = [msgs EXCEPT ![e] =
                                 Append(@, [seq |-> w[e].seq, type |-> step[2], data |-> <<>>])]
              ELSE Fail(e) /\ UNCHANGED msgs
           /\ UNCHANGED <<closed, out>>
        \/ /\ step[1] \in {"write", "readFrom", "close"} /\ Err(e, step[2])
           /\ Fail(e)
           /\ UNCHANGED <<closed, out, msgs>>
        \/ /\ step[1] = "write" /\ ~Err(e, step[2])
           /\ Write(e, step[2], step[3], step[4], then)
           /\ UNCHANGED closed
        \/ /\ step[1] = "readFrom" /\ ~Err(e, step[2])
           /\ ReadFrom(e, step[2], step[3])
           /\ UNCHANGED closed
        \/ /\ step[1] = "close" /\ ~Err(e, step[2])
           /\ FlushFrame(e, TRUE, <<>>, then)
           /\ UNCHANGED <<closed, msgs>>
        \/ /\ step[1] = "end"
           /\ IF msgs[e][step[2]].seq = w[e].seq THEN FlushFrame(e, TRUE, <<>>, then)
              ELSE w' = [w EXCEPT ![e].todo = then] /\ UNCHANGED out
           /\ UNCHANGED <<closed, msgs>>
        \/ /\ step[1] = "flushed" /\ out[e].writer.pc = "done"
           /\ Flushed(e, step[2])
           /\ closed' = [closed EXCEPT ![e] = @ \/ out[e].writer.res # "nil"]
           /\ out' = [out EXCEPT ![e]["writer"] = Off]
           /\ UNCHANGED msgs
  /\ UNCHANGED <<load, wire, mu, closeSent, controls, r, received>>

\* Frames of a peer that does not use this library.
ForeignWrite(e) ==
  /\ w[e].ops < load.maxOps[e]
  /\ ~closed[e] /\ mu[e] = "free"
  /\ \E frame \in load.foreign[e] :
       /\ Len(frame) <= Space(e)
       /\ wire' = [wire EXCEPT ![e] = @ \o frame]
  /\ w' = [w EXCEPT ![e].ops = @ + 1]
  /\ UNCHANGED <<load, closed, mu, closeSent, out, controls, msgs, r, received>>

-----------------------------------------------------------------------------
(***************************************************************************)
(* The message reader.  r[e].pc is "idle" between calls, "read" in the     *)
(* loop of messageReader.Read, "advance" in advanceFrame (called by Read   *)
(* when reading holds, and by NextReader otherwise), "reply" while a       *)
(* control message is sent, and "end" when the application has stopped.    *)
(***************************************************************************)
Incoming(e) == wire[Peer(e)]
Drained(e) == Incoming(e) = <<>> /\ closed[Peer(e)]

\* A read that fails because of this end.
ReadFails(e) == closed[e] \/ (load.readDeadline /\ Incoming(e) = <<>>)

\* A call returns an error; a Read turns io.EOF of the connection into
\* errUnexpectedEOF.
ReturnErr(rec, err) == [rec EXCEPT !.pc = "idle", !.err = err, !.type = "none", !.got = <<>>]

NextReader(e) ==
  /\ r[e].pc = "idle" /\ r[e].err = "nil"
  /\ r[e].type = "none" \/ load.discards
  /\ r' = [r EXCEPT ![e].pc = "advance", ![e].reading = FALSE, ![e].length = 0,
                     ![e].type = "none", ![e].got = <<>>]
  /\ UNCHANGED <<load, closed, wire, mu, closeSent, out, controls, w, msgs, received>>

Read(e) ==
  /\ r[e].pc = "idle" /\ r[e].err = "nil" /\ r[e].type # "none"
  /\ r' = [r EXCEPT ![e].pc = "read", ![e].reading = TRUE]
  /\ UNCHANGED <<load, closed, wire, mu, closeSent, out, controls, w, msgs, received>>

\* The application has read the message up to io.EOF.
Deliver(e, clean) ==
  received' = [received EXCEPT ![e] =
                 Append(@, [type |-> r[e].type, data |-> r[e].got, clean |-> clean])]

ReadBytes(e, n) ==
  r' = [r EXCEPT ![e].pc = "idle", ![e].remaining = @ - n, ![e].maskPos = (@ + n) % KeyLen,
          ![e].got = @ \o [i \in 1 .. n |-> Unmask(e, Incoming(e)[i], r[e].maskPos + i - 1)]]

\* The loop of messageReader.Read.
ReadStep(e) ==
  /\ r[e].pc = "read"
  /\ \/ /\ r[e].remaining > 0
        /\ \E n \in 1 .. r[e].remaining :
             /\ n <= Len(Incoming(e))
             /\ ReadBytes(e, n)
             /\ wire' = [wire EXCEPT ![Peer(e)] = SubSeq(@, n + 1, Len(@))]
        /\ UNCHANGED received
     \/ /\ r[e].remaining > 0 /\ Drained(e)
        /\ Deliver(e, FALSE)
        /\ r' = [r EXCEPT ![e] = ReturnErr(@, "EOF")]
        /\ UNCHANGED wire
     \/ /\ r[e].remaining > 0 /\ ReadFails(e)
        /\ r' = [r EXCEPT ![e] = ReturnErr(@, "net")]
        /\ UNCHANGED <<wire, received>>
     \/ /\ r[e].remaining = 0 /\ r[e].final
        /\ Deliver(e, TRUE)
        /\ r' = [r EXCEPT ![e].pc = "idle", ![e].type = "none", ![e].got = <<>>]
        /\ UNCHANGED wire
     \/ /\ r[e].remaining = 0 /\ ~r[e].final
        /\ r' = [r EXCEPT ![e].pc = "advance"]
        /\ UNCHANGED <<wire, received>>
  /\ UNCHANGED <<load, closed, mu, closeSent, out, controls, w, msgs>>

\* A control message is sent and its error ignored; then err is returned,
\* or the loop goes on.
Reply(e, rec, type, data, err) ==
  /\ r' = [r EXCEPT ![e] = [rec EXCEPT !.pc = "reply", !.after = err]]
  /\ out' = [out EXCEPT ![e]["reader"] = WriteControl(e, type, data)]

\* Step 1 of advanceFrame, and reads that fail.
Skip(e) ==
  /\ r[e].pc = "advance" /\ r[e].remaining > 0
  /\ \/ /\ Incoming(e) # <<>>
        /\ wire' = [wire EXCEPT ![Peer(e)] = Tail(@)]
        /\ r' = [r EXCEPT ![e].remaining = @ - 1]
     \/ /\ Drained(e)
        /\ r' = [r EXCEPT ![e] = ReturnErr(@, "EOF")]
        /\ UNCHANGED wire
  /\ UNCHANGED <<load, closed, mu, closeSent, out, controls, w, msgs, received>>

Missing(e) ==
  IF Incoming(e) = <<>> THEN TRUE
  ELSE LET h == Head(Incoming(e)) IN h.type \in Control /\ Len(Incoming(e)) <= h.len

\* readFull fails in the header, or in the payload of a control frame.
AdvanceFails(e) ==
  /\ r[e].pc = "advance"
  /\ \/ /\ r[e].remaining = 0 /\ Missing(e) /\ closed[Peer(e)]
        /\ r' = [r EXCEPT ![e] = ReturnErr(@, "unexpected")]
     \/ /\ ReadFails(e)
        /\ r' = [r EXCEPT ![e] = ReturnErr(@, "net")]
  /\ UNCHANGED <<load, closed, wire, mu, closeSent, out, controls, w, msgs, received>>

\* Steps 2 to 4: what is refused.
ProtocolError(e, h) ==
  \/ h.reserved
  \/ h.type \in Control /\ (h.len > ControlMax \/ ~h.final)
  \/ h.type \in Data /\ ~r[e].final
  \/ h.type = "cont" /\ r[e].final
  \/ h.type \notin Data \cup Control \cup {"cont"}
  \/ h.masked # (e = "server")

\* The close code of a control frame decides what the application gets.
CloseErr(payload) ==
  IF payload # <<>> /\ Head(payload) \in {<<"normal">>, <<"goingAway">>} THEN "EOF" ELSE "close"

\* Mutant: the limit is applied to every frame on its own.
NewLengthOfFrame(e, h) == h.len

NewLength(e, h) == r[e].length + h.len

\* advanceFrame, and what its callers do with the frame.
AdvanceFrame(e) ==
  /\ r[e].pc = "advance" /\ r[e].remaining = 0
  /\ ~Missing(e)
  /\ LET h == Head(Incoming(e))
         data == h.type \in Data \cup {"cont"}
         length == NewLength(e, h)
         payload == [i \in 1 .. h.len |-> Unmask(e, Incoming(e)[i + 1], i - 1)]
         rec == [r[e] EXCEPT !.remaining = IF data THEN h.len ELSE 0,
                             !.final = IF data THEN h.final ELSE @,
                             !.length = IF data THEN length ELSE @,
                             !.maskPos = 0]
         loop == IF r[e].reading THEN "read" ELSE "advance"
     IN \/ /\ ProtocolError(e, h)
           /\ Reply(e, r[e], "close", << <<"protocol">> >>, "protocol")
           /\ wire' = [wire EXCEPT ![Peer(e)] = Tail(@)]
        \/ /\ ~ProtocolError(e, h) /\ data
           /\ wire' = [wire EXCEPT ![Peer(e)] = Tail(@)]
           /\ CASE load.readLimit > 0 /\ length > load.readLimit ->
                     Reply(e, rec, "close", << <<"tooBig">> >>, "limit")
                [] ~(load.readLimit > 0 /\ length > load.readLimit) /\ h.type = "cont" ->
                     r' = [r EXCEPT ![e] = [rec EXCEPT !.pc = loop]] /\ UNCHANGED out
                [] OTHER ->
                     r' = [r EXCEPT ![e] = [rec EXCEPT !.pc = "idle", !.type = h.type]]
                     /\ UNCHANGED out
        \/ /\ ~ProtocolError(e, h) /\ ~data
           /\ wire' = [wire EXCEPT ![Peer(e)] = SubSeq(@, h.len + 2, Len(@))]
           /\ CASE h.type = "pong" -> r' = [r EXCEPT ![e] = [rec EXCEPT !.pc = loop]] /\ UNCHANGED out
                [] h.type = "ping" -> Reply(e, rec, "pong", payload, "nil")
                [] h.type = "close" -> Reply(e, rec, "close", <<>>, CloseErr(payload))
  /\ UNCHANGED <<load, closed, mu, closeSent, controls, w, msgs, received>>

\* The control message was sent or not.
Replied(e) ==
  /\ r[e].pc = "reply" /\ out[e].reader.pc = "done"
  /\ out' = [out EXCEPT ![e]["reader"] = Off]
  /\ r' = [r EXCEPT ![e] =
             IF r[e].after = "nil" THEN [r[e] EXCEPT !.pc = IF r[e].reading THEN "read" ELSE "advance"]
             ELSE ReturnErr(@, r[e].after)]
  /\ UNCHANGED <<load, closed, wire, mu, closeSent, controls, w, msgs, received>>

\* Mutant: the connection stays open.
StopOpen(e) ==
  /\ r[e].pc = "idle" /\ r[e].err # "nil"
  /\ r' = [r EXCEPT ![e].pc = "end"]
  /\ UNCHANGED <<load, closed, wire, mu, closeSent, out, controls, w, msgs, received>>

\* The application ends its loop and closes the connection.
Stop(e) ==
  /\ r[e].pc = "idle" /\ r[e].err # "nil"
  /\ r' = [r EXCEPT ![e].pc = "end"]
  /\ closed' = [closed EXCEPT ![e] = TRUE]
  /\ UNCHANGED <<load, wire, mu, closeSent, out, controls, w, msgs, received>>

-----------------------------------------------------------------------------
Sender(e, g) == Lock(e, g) \/ LockTimeout(e, g) \/ ConnWrite(e, g) \/ ConnWriteFails(e, g)

Reader(e) ==
  \/ NextReader(e) \/ Read(e) \/ ReadStep(e) \/ Skip(e) \/ AdvanceFails(e) \/ AdvanceFrame(e)
  \/ Replied(e) \/ Stop(e)

Next ==
  \E e \in Ends :
    \/ \E g \in Goroutines : Sender(e, g)
    \/ AppControl(e) \/ AppControlReturns(e)
    \/ Begin(e) \/ WriterStep(e) \/ ForeignWrite(e)
    \/ Reader(e)

Fairness ==
  \A e \in Ends :
    /\ \A g \in Goroutines : WF_vars(Sender(e, g))
    /\ WF_vars(AppControlReturns(e)) /\ WF_vars(WriterStep(e)) /\ WF_vars(Reader(e))

Spec == Init /\ [][Next]_vars /\ Fairness

-----------------------------------------------------------------------------
(***************************************************************************)
(* Properties.                                                             *)
(***************************************************************************)
\* e has finished message k, by Close, NextWriter or WriteMessage.
Finished(e, k) ==
  \/ msgs[e][k].seq < w[e].seq
  \/ w[e].todo # <<>> /\ Head(w[e].todo) = <<"flushed", TRUE>>

\* Messages that were read to the end of their final frame are messages
\* sent, with their types, in order and without a byte of another message,
\* and none is missing between them unless the application abandons messages:
\* however they are cut into frames by writeBuf, with ping, pong and close
\* frames between the frames, writers that are used when their message is
\* finished, and reads of any size.
Reassembled ==
  \A e \in Ends : load.foreign[Peer(e)] = {} =>
    LET got == {i \in DOMAIN received[e] : received[e][i].clean}
        all == {k \in DOMAIN msgs[Peer(e)] : msgs[Peer(e)][k].type \in Data}
    IN  \E at \in [got -> all] :
          /\ \A i \in got : /\ Finished(Peer(e), at[i])
                            /\ received[e][i].type = msgs[Peer(e)][at[i]].type
                            /\ received[e][i].data = msgs[Peer(e)][at[i]].data
          /\ \A i, j \in got : i < j => at[i] < at[j]
          /\ ~load.discards => \A i \in got, k \in all : k < at[i] => \E j \in got : at[j] = k

\* Nothing is sent after a close frame, whichever of the goroutines sends.
NothingAfterClose ==
  \A e \in Ends : load.foreign[e] = {} =>
    \A i \in DOMAIN wire[e] :
      wire[e][i].h /\ wire[e][i].type = "close" => Len(wire[e]) <= i + wire[e][i].len

\* The n units behind unit i of u, as far as they are there, are bytes, and
\* a header follows.
Whole(u, i, n) ==
  /\ \A j \in i + 1 .. i + n : j <= Len(u) => ~u[j].h
  /\ i + n + 1 <= Len(u) => u[i + n + 1].h

\* The frames of the goroutines of an end never mix: what comes is the bytes
\* that the reader still expects of a frame, and then headers, each followed
\* by as many bytes as it announces.
FramesNotTorn ==
  \A e \in Ends : load.foreign[e] = {} =>
    /\ Whole(wire[e], 0, r[Peer(e)].remaining)
    /\ \A i \in DOMAIN wire[e] : wire[e][i].h => Whole(wire[e], i, wire[e][i].len)

\* What an end puts on the wire is whole frames, up to a close frame.
WireWellFormed == FramesNotTorn /\ NothingAfterClose

\* Two ends of this library never accuse each other of a protocol error.
PeersSpeakProtocol ==
  \A e \in Ends : load.foreign[Peer(e)] = {} => r[e].after # "protocol"

\* Between two ends of this library messages arrive as they were sent, and
\* without protocol errors.
MessagesArrive == Reassembled /\ PeersSpeakProtocol

\* No message longer than SetReadLimit allows reaches the application, in
\* however many frames it comes.
LimitHonoured == load.readLimit > 0 => \A e \in Ends : Len(r[e].got) <= load.readLimit

\* Only a message that is longer than the limit is refused, as long as no
\* message is abandoned (the frames that are left of one count towards the
\* message after it).
OnlyLargeRefused ==
  ~load.discards => \A e \in Ends :
    load.foreign[Peer(e)] = {} /\ r[e].after = "limit" =>
      \E k \in DOMAIN msgs[Peer(e)] : Len(msgs[Peer(e)][k].data) > load.readLimit

\* The read limit holds for every message that is too long, and for no other.
LimitExact == LimitHonoured /\ OnlyLargeRefused

\* When one end has sent a close frame, or has tried to, both readers get
\* an error in the end, and both connections are closed.
CloseEnds ==
  \A e \in Ends : closeSent[e] ~> \A f \in Ends : r[f].pc = "end" /\ closed[f]
=============================================================================
