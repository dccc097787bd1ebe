---------------------------- MODULE FrameHeader ----------------------------
(***************************************************************************)
(* The header of a WebSocket frame (gorilla/websocket/conn.go): flushFrame *)
(* builds it in the room kept at the start of writeBuf, right before the   *)
(* payload, and advanceFrame takes it apart.  Bytes of writeBuf that       *)
(* flushFrame did not set are Stale.                                       *)
(***************************************************************************)
EXTENDS Integers, Sequences

CONSTANTS
  Lengths,  \* lengths of payloads
  Types,    \* opcodes
  Key,      \* the four bytes of newMaskKey
  Stale     \* what another frame left in the buffer

MaxFrameHeaderSize == 2 + 8 + 4

VARIABLES
  frame,  \* what flushFrame sends: [server, final, type, length]
  parsed  \* what advanceFrame at the other end makes of it

vars == <<frame, parsed>>

-----------------------------------------------------------------------------
BigEndian(n, length) == [i \in 1 .. length |-> (n \div 256 ^ (length - i)) % 256]

\* binary.BigEndian.PutUint64, for a length below 2^31.
PutUint64(n) == <<0, 0, 0, 0>> \o BigEndian(n, 4)

\* Mutant: a length of 126 is sent in one byte.
LengthBytesOffByOne(n) ==
  CASE n >= 65536 -> <<127>> \o PutUint64(n)
    [] n < 65536 /\ n > 126 -> <<126>> \o BigEndian(n, 2)
    [] OTHER -> <<n>>

LengthBytes(n) ==
  CASE n >= 65536 -> <<127>> \o PutUint64(n)
    [] n < 65536 /\ n > 125 -> <<126>> \o BigEndian(n, 2)
    [] OTHER -> <<n>>

FramePos(f) ==
  (IF f.server THEN 4 ELSE 0)
    + CASE f.length >= 65536 -> 0
        [] f.length < 65536 /\ f.length > 125 -> 6
        [] OTHER -> 8

\* writeBuf[framePos:] up to the payload.
FlushFrame(f) ==
  LET b0 == f.type + IF f.final THEN 128 ELSE 0
      length == LengthBytes(f.length)
      b1 == Head(length) + IF f.server THEN 0 ELSE 128
      head == <<b0, b1>> \o Tail(length)
      set(pos) ==
        CASE pos - FramePos(f) \in 0 .. Len(head) - 1 -> head[pos - FramePos(f) + 1]
          [] pos - FramePos(f) \notin 0 .. Len(head) - 1 /\ ~f.server
               /\ pos >= MaxFrameHeaderSize - 4 -> Key[pos - MaxFrameHeaderSize + 5]
          [] OTHER -> Stale
  IN  [i \in 1 .. MaxFrameHeaderSize - FramePos(f) |-> set(FramePos(f) + i - 1)]

FromBigEndian(bytes) ==
  LET upTo[i \in 0 .. Len(bytes)] == IF i = 0 THEN 0 ELSE upTo[i - 1] * 256 + bytes[i]
  IN  upTo[Len(bytes)]

\* Steps 2 to 4 of advanceFrame.
AdvanceFrame(bytes) ==
  LET short == bytes[2] % 128
      mask == bytes[2] >= 128
      more == CASE short = 126 -> 2 [] short = 127 -> 8 [] OTHER -> 0
      key == 2 + more + IF mask THEN 4 ELSE 0
  IN  [final |-> bytes[1] >= 128, type |-> bytes[1] % 16, reserved |-> (bytes[1] \div 16) % 8,
       server |-> ~mask,
       length |-> IF more = 0 THEN short ELSE FromBigEndian(SubSeq(bytes, 3, 2 + more)),
       key |-> SubSeq(bytes, 3 + more, key), payload |-> SubSeq(bytes, key + 1, Len(bytes))]

-----------------------------------------------------------------------------
Init ==
  /\ frame \in [server : BOOLEAN, final : BOOLEAN, type : Types, length : Lengths]
  /\ parsed = <<>>

Receive ==
  /\ parsed = <<>>
  /\ parsed' = <<AdvanceFrame(FlushFrame(frame))>>
  /\ UNCHANGED frame

Spec == Init /\ [][Receive]_vars

\* The other end finds the opcode, the final bit, the length and the key
\* that were sent, and the payload right behind them, for lengths around
\* every change of the encoding.
HeaderReadsBack ==
  parsed # <<>> =>
    parsed[1] = [final |-> frame.final, type |-> frame.type, reserved |-> 0,
                 server |-> frame.server, length |-> frame.length,
                 key |-> IF frame.server THEN <<>> ELSE Key, payload |-> <<>>]
=============================================================================
