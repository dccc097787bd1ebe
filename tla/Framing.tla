------------------------------ MODULE Framing ------------------------------
(***************************************************************************)
(* UAVTalk frames on a byte stream (uavtalk/uavtalk.go): toBinary makes    *)
(* them; the reader goroutine of start() collects the bytes of the HID     *)
(* reports in a buffer, and packetComplete finds the frames in it.         *)
(*                                                                         *)
(* A frame is sync, command, length (2 bytes), object identifier (4), the  *)
(* instance (2, unless the object has a single one), data, checksum.  The  *)
(* data of an object is kept as its bytes here.                            *)
(***************************************************************************)
EXTENDS Naturals, Sequences, Crc8

CONSTANTS
  Definitions,  \* object identifier (4 bytes) -> [single, size]
  CorruptBytes, \* values the link changes a byte to
  Scenarios     \* what may happen on the link, see below

(***************************************************************************)
(* A scenario says which packets the flight controller sends, how many of  *)
(* them at most, how many bytes a HID report carries (62 in the code), how *)
(* many leading bytes may go by before the reader starts, how many bytes   *)
(* the link may change, and how many packets that damage may cost.         *)
(***************************************************************************)

VARIABLES
  scenario,  \* one of Scenarios, the same throughout
  sent,      \* the packets sent, oldest first
  wire,      \* the bytes that have not been read
  buffer,    \* buffer of the reader goroutine
  reader,    \* "off" before the link is open, "read", "scan" or "panic"
  delivered, \* the packets put on fcOutChan
  faults     \* [skipped, corrupt] so far

vars == <<scenario, sent, wire, buffer, reader, delivered, faults>>

VersionMask == 32
ShortHeaderLength == 8
Sync == 60

DataCmd(cmd) == cmd \in {0, 2}

HeaderLength(def) == IF def.single THEN ShortHeaderLength ELSE ShortHeaderLength + 2

\* NewPacket: the Length of a packet.
LengthOf(p) ==
  HeaderLength(Definitions[p.id]) + (IF DataCmd(p.cmd) THEN Definitions[p.id].size ELSE 0)

\* Start: the longest object, header included.
MaxUAVObjectLength ==
  LET lengths == {HeaderLength(Definitions[id]) + Definitions[id].size : id \in DOMAIN Definitions}
  IN  CHOOSE n \in lengths : \A m \in lengths : m <= n

Bytes == 0 .. 255

\* A packet has an instance when its object has many, and data when its
\* command does.
Packets ==
  {p \in [id : DOMAIN Definitions, cmd : 0 .. 4, instance : Nat, data : Seq(Bytes)] :
     /\ p.instance < 65536 /\ (Definitions[p.id].single => p.instance = 0)
     /\ Len(p.data) = IF DataCmd(p.cmd) THEN Definitions[p.id].size ELSE 0}

\* The length of a frame is an uint16.
ASSUME FramingAssumption ==
  /\ Definitions \in [DOMAIN Definitions -> [single : BOOLEAN, size : Nat]]
  /\ DOMAIN Definitions \subseteq [1 .. 4 -> Bytes]
  /\ \A id \in DOMAIN Definitions : HeaderLength(Definitions[id]) + Definitions[id].size <= 65535
  /\ CorruptBytes \subseteq Bytes
  /\ \A s \in Scenarios : s.packets \subseteq Packets /\ {s.sent, s.report, s.skipped, s.corrupt} \subseteq Nat

LittleEndian16(n) == <<n % 256, n \div 256>>
ByteArrayToInt16(b) == b[1] + 256 * b[2]

\* The commands are below versionMask: or is addition.
ToBinary(p) ==
  LET frame == <<Sync, p.cmd + VersionMask>> \o LittleEndian16(LengthOf(p)) \o p.id
                 \o (IF Definitions[p.id].single THEN <<>> ELSE LittleEndian16(p.instance))
                 \o (IF DataCmd(p.cmd) THEN p.data ELSE <<>>)
  IN  Append(frame, ComputeCrc8(0, frame))

-----------------------------------------------------------------------------
(***************************************************************************)
(* packetComplete.  An offset whose length is out of range is passed over. *)
(***************************************************************************)
LengthAt(b, offset) == ByteArrayToInt16(SubSeq(b, offset + 2, offset + 3))

Offsets(b) ==
  {i \in 1 .. Len(b) - ShortHeaderLength + 1 :
     b[i] = Sync /\ LengthAt(b, i) <= MaxUAVObjectLength + ShortHeaderLength + 2}

\* The frame at the first offset, if all of it is there: where it starts
\* and ends, and whether its checksum is right.
PacketComplete(b) ==
  LET whole == {i \in Offsets(b) : /\ \A j \in Offsets(b) : i <= j
                                   /\ i + LengthAt(b, i) <= Len(b)}
  IN  { [from |-> i, to |-> i + LengthAt(b, i),
         ok |-> b[i + LengthAt(b, i)]
                  = ComputeCrc8(0, SubSeq(b, i, i + LengthAt(b, i) - 1))] : i \in whole }

Command(b) == XorBytes(b, VersionMask)

(***************************************************************************)
(* newPacketFromBinary on the frame b[from .. to]: a packet, or none when  *)
(* there is no definition or too little data.  The slice behind a header   *)
(* that the frame is too short for is out of range and ends the process.   *)
(***************************************************************************)
NewPacketFromBinary(b, from, to) ==
  LET id == SubSeq(b, from + 4, from + 7)
      def == Definitions[id]
      cmd == Command(b[from + 1])
      data == SubSeq(b, from + HeaderLength(def), to - 1)
      instance == IF def.single THEN 0
                  ELSE ByteArrayToInt16(SubSeq(b, from + 8, from + 9))
  IN  CASE id \notin DOMAIN Definitions -> [outcome |-> "drop"]
        [] id \in DOMAIN Definitions /\ to - from < HeaderLength(def) ->
             [outcome |-> "panic"]
        [] id \in DOMAIN Definitions /\ to - from >= HeaderLength(def) ->
             IF DataCmd(cmd) /\ Len(data) < def.size
             THEN [outcome |-> "drop"]
             ELSE [outcome |-> "packet",
                   packet |-> [id |-> id, cmd |-> cmd, instance |-> instance,
                               data |-> IF DataCmd(cmd) THEN SubSeq(data, 1, def.size)
                                        ELSE <<>>]]

-----------------------------------------------------------------------------
Init ==
  /\ scenario \in Scenarios
  /\ sent = <<>>
  /\ wire = <<>>
  /\ buffer = <<>>
  /\ reader = "off"
  /\ delivered = <<>>
  /\ faults = [skipped |-> 0, corrupt |-> 0]

\* The flight controller sends a packet.
SendPacket(p) ==
  /\ Len(sent) < scenario.sent
  /\ sent' = Append(sent, p)
  /\ wire' = wire \o ToBinary(p)
  /\ UNCHANGED <<scenario, buffer, reader, delivered, faults>>

\* A byte goes by before the link is open.
SkipByte ==
  /\ reader = "off"
  /\ wire # <<>>
  /\ faults.skipped < scenario.skipped
  /\ wire' = Tail(wire)
  /\ faults' = [faults EXCEPT !.skipped = @ + 1]
  /\ UNCHANGED <<scenario, sent, buffer, reader, delivered>>

\* The link changes a byte.
CorruptByte(i, b) ==
  /\ faults.corrupt < scenario.corrupt
  /\ wire[i] # b
  /\ wire' = [wire EXCEPT ![i] = b]
  /\ faults' = [faults EXCEPT !.corrupt = @ + 1]
  /\ UNCHANGED <<scenario, sent, buffer, reader, delivered>>

\* start: the link is open and the reader goroutine runs.
OpenLink ==
  /\ reader = "off"
  /\ reader' = "read"
  /\ UNCHANGED <<scenario, sent, wire, buffer, delivered, faults>>

\* link.Read: n bytes of a report go to the end of the buffer.
ReadReport(n) ==
  /\ reader = "read"
  /\ n <= Len(wire)
  /\ buffer' = buffer \o SubSeq(wire, 1, n)
  /\ wire' = SubSeq(wire, n + 1, Len(wire))
  /\ reader' = "scan"
  /\ UNCHANGED <<scenario, sent, delivered, faults>>

\* Nothing complete in the buffer: back to link.Read.
NeedMore ==
  /\ reader = "scan"
  /\ PacketComplete(buffer) = {}
  /\ reader' = "read"
  /\ UNCHANGED <<scenario, sent, wire, buffer, delivered, faults>>

\* Mutant: the bytes behind the frame go too.
StripAll(found) == <<>>

Strip(found) == SubSeq(buffer, found.to + 1, Len(buffer))

\* Mutant: a frame is made into a packet whatever its checksum.
MakeUnchecked(found) == NewPacketFromBinary(buffer, found.from, found.to)

Make(found) ==
  IF found.ok THEN NewPacketFromBinary(buffer, found.from, found.to)
  ELSE [outcome |-> "drop"]

\* Mutant: one frame is taken from a report.
TakeFrameOnce ==
  /\ reader = "scan"
  /\ \E found \in PacketComplete(buffer) :
       /\ buffer' = Strip(found)
       /\ delivered' = IF Make(found).outcome = "packet"
                       THEN Append(delivered, Make(found).packet)
                       ELSE delivered
       /\ reader' = IF Make(found).outcome = "panic" THEN "panic" ELSE "read"
  /\ UNCHANGED <<scenario, sent, wire, faults>>

\* A complete frame leaves the buffer with everything before it.  It is
\* delivered when its checksum is right and its packet can be made.
TakeFrame ==
  /\ reader = "scan"
  /\ \E found \in PacketComplete(buffer) :
       /\ buffer' = Strip(found)
       /\ delivered' = IF Make(found).outcome = "packet"
                       THEN Append(delivered, Make(found).packet)
                       ELSE delivered
       /\ reader' = IF Make(found).outcome = "panic" THEN "panic" ELSE "scan"
  /\ UNCHANGED <<scenario, sent, wire, faults>>

Next ==
  \/ \E p \in scenario.packets : SendPacket(p)
  \/ SkipByte
  \/ \E i \in DOMAIN wire, b \in CorruptBytes : CorruptByte(i, b)
  \/ OpenLink
  \/ \E n \in 1 .. scenario.report : ReadReport(n)
  \/ NeedMore
  \/ TakeFrame

Fairness ==
  /\ WF_vars(OpenLink)
  /\ WF_vars(\E n \in 1 .. scenario.report : ReadReport(n))
  /\ WF_vars(NeedMore \/ TakeFrame)

Spec == Init /\ [][Next]_vars /\ Fairness

-----------------------------------------------------------------------------
Channel == INSTANCE PacketChannel WITH Packets <- UNION {s.packets : s \in Scenarios}

\* The link loses and changes nothing.
Clean == scenario.skipped = 0 /\ scenario.corrupt = 0

\* On a link that loses and changes nothing the reader goroutine delivers the
\* packets as they were sent, each once and in order, however the bytes are cut
\* into reports and whatever bytes of a frame look like the start of another.
ReliableChannel == (Clean => Channel!Init) /\ [][Clean => Channel!Next]_<<sent, delivered>>

\* On such a link every packet is delivered, without a next one to push it.
PacketsArrive == Clean => WF_<<sent, delivered>>(Channel!Deliver)

\* Whatever went wrong on the link, what is delivered was sent, in that
\* order and at most once each, since the checksum lets no other frame pass;
\* and no damaged frame makes the reader goroutine slice out of range.
NothingInvented ==
  /\ reader # "panic"
  /\ \E at \in [DOMAIN delivered -> DOMAIN sent] :
       /\ \A k \in DOMAIN delivered : delivered[k] = sent[at[k]]
       /\ \A j, k \in DOMAIN delivered : j < k => at[j] < at[k]

\* Where no byte of a packet looks like a header, once all bytes are read, at
\* most scenario.lost packets are missing, and later ones arrive.
LossIsLocal ==
  (wire = <<>> /\ reader = "read") => Len(sent) - Len(delivered) <= scenario.lost

\* Damage on the link costs packets, few where they hold no second header, and
\* never makes up or repeats one.
DamageContained == NothingInvented /\ LossIsLocal
=============================================================================
