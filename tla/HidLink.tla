------------------------------ MODULE HidLink ------------------------------
(***************************************************************************)
(* The USB link (uavtalk/links.go) on the HID bindings it uses             *)
(* (go.hid/hid.go): finding and opening the flight controller in the loop  *)
(* of start(), writing frames as numbered reports of a fixed size, reading *)
(* reports with a timeout into a buffer that is used again.  What hidapi   *)
(* and the device do is external: any write may move fewer bytes than it   *)
(* was given, or none, or fail.                                            *)
(***************************************************************************)
EXTENDS Naturals, Sequences, SequencesExt

CONSTANTS
  DeviceIDs,    \* the vendor and product identifiers of flight controllers
  MaxHIDFrameSize,  \* 64 in the code
  Frames,       \* frames to write, sequences of bytes
  Reports,      \* payloads the flight controller sends in a report
  Scenarios     \* what is around: devices, the USB devices [id, unit, readable],
                \* readable if product_string converts; maxPlugs, maxFrames and
                \* maxReports, bounds; and mayFail, whether hid_write and
                \* hid_read may fail while the device is there

ASSUME HidLinkAssumption ==
  /\ MaxHIDFrameSize \in Nat /\ MaxHIDFrameSize > 2
  /\ Frames \subseteq Seq(0 .. 255)
  /\ Reports \subseteq Seq(0 .. 255)
  /\ \A r \in Reports : Len(r) \in 1 .. MaxHIDFrameSize - 2
  /\ \A s \in Scenarios : s.mayFail \in BOOLEAN

VARIABLES
  scenario,   \* one of Scenarios, the same throughout
  attached,   \* the devices that are plugged in, in the order hidapi lists them
  initOnce,   \* whether hidInit's function has run
  candidate,  \* the identifier NewUSBLink is about to open, if any
  opened,     \* the device that is open, if any
  gone,       \* it was unplugged since: its handle is of no more use
  dead,       \* log.Fatal: the process is gone
  b,          \* the frame Write was called with; <<>> when it is not running
  currentOffset,
  written,    \* the frames Write has returned for, concatenated
  received,   \* the bytes the flight controller has taken out of its reports
  inbox,      \* reports that wait to be read
  buffer,     \* packet, the buffer of the reader goroutine
  sentIn, readOut,  \* payload bytes sent by the flight controller, and read
  count       \* [plugs, frames, reports] so far

search == <<attached, initOnce, candidate, opened, gone>>
writer == <<b, currentOffset, written, received>>
readerVars == <<inbox, buffer, sentIn, readOut>>
vars == <<scenario, search, dead, writer, readerVars, count>>

Payload == MaxHIDFrameSize - 2
Least(x, y) == IF x <= y THEN x ELSE y

Init ==
  /\ scenario \in Scenarios
  /\ attached = <<>>
  /\ initOnce = FALSE
  /\ candidate = {}
  /\ opened = {}
  /\ gone = FALSE
  /\ dead = FALSE
  /\ b = <<>> /\ currentOffset = 0 /\ written = <<>> /\ received = <<>>
  /\ inbox = <<>>
  /\ buffer = [i \in 1 .. MaxHIDFrameSize |-> 0]
  /\ sentIn = <<>> /\ readOut = <<>>
  /\ count = [plugs |-> 0, frames |-> 0, reports |-> 0]

-----------------------------------------------------------------------------
(***************************************************************************)
(* Plugging; finding and opening the device.                               *)
(***************************************************************************)
Plug(d) ==
  /\ count.plugs < scenario.maxPlugs
  /\ d \notin Range(attached)
  /\ \E before \in {<<d>> \o attached, Append(attached, d)} : attached' = before
  /\ count' = [count EXCEPT !.plugs = @ + 1]
  /\ UNCHANGED <<scenario, initOnce, candidate, opened, gone, dead, writer, readerVars>>

Unplug(d) ==
  /\ count.plugs < scenario.maxPlugs
  /\ d \in Range(attached)
  /\ attached' = Remove(attached, d)
  /\ gone' = (gone \/ d \in opened)
  /\ inbox' = IF d \in opened THEN <<>> ELSE inbox
  /\ count' = [count EXCEPT !.plugs = @ + 1]
  /\ UNCHANGED <<scenario, initOnce, candidate, opened, dead, writer, buffer, sentIn, readOut>>

Suitable(d) == d.id \in DeviceIDs

\* Enumerate: an error when there is no device, and when the product string
\* of any device cannot be converted.
Enumerated == attached # <<>> /\ \A d \in Range(attached) : d.readable

\* NewUSBLink takes the first suitable device of the enumeration; without
\* one it returns an error, and start() tries again.
Enumerate ==
  /\ opened = {} /\ candidate = {} /\ ~dead
  /\ Enumerated
  /\ LET found == SelectSeq(attached, Suitable)
     IN  found # <<>> /\ candidate' = {found[1].id}
  /\ UNCHANGED <<scenario, attached, initOnce, opened, gone, dead, writer, readerVars, count>>

Openable(id) == SelectSeq(attached, LAMBDA d : d.id = id)

\* hidInit runs hid_init once; its error reaches the first caller only.
InitFails ==
  /\ candidate # {} /\ ~initOnce
  /\ initOnce' = TRUE
  /\ candidate' = {}
  /\ UNCHANGED <<scenario, attached, opened, gone, dead, writer, readerVars, count>>

\* Mutant: a device that is gone by now is retried without a new search.
OpenStale ==
  /\ candidate # {}
  /\ initOnce' = TRUE
  /\ LET found == Openable(CHOOSE id \in candidate : TRUE)
     IN  IF found = <<>> THEN UNCHANGED <<opened, candidate>>
         ELSE opened' = {found[1]} /\ candidate' = {}
  /\ UNCHANGED <<scenario, attached, gone, dead, writer, readerVars, count>>

\* hid.Open: the first device with the identifiers, if it is still there.
\* An error sends start() back to the search.
Open ==
  /\ candidate # {}
  /\ initOnce' = TRUE
  /\ LET found == Openable(CHOOSE id \in candidate : TRUE)
     IN  opened' = IF found = <<>> THEN {} ELSE {found[1]}
  /\ candidate' = {}
  /\ UNCHANGED <<scenario, attached, gone, dead, writer, readerVars, count>>

Present == opened # {} /\ ~gone

\* A read or a write fails: log.Fatal.
Fail ==
  /\ opened # {} /\ ~dead
  /\ ~Present \/ scenario.mayFail
  /\ dead' = TRUE
  /\ UNCHANGED <<scenario, search, writer, readerVars, count>>

-----------------------------------------------------------------------------
(***************************************************************************)
(* Writing.                                                                *)
(***************************************************************************)
\* The writer goroutine calls link.Write.
CallWrite(frame) ==
  /\ Present /\ ~dead /\ b = <<>>
  /\ count.frames < scenario.maxFrames
  /\ b' = frame
  /\ currentOffset' = 0
  /\ count' = [count EXCEPT !.frames = @ + 1]
  /\ UNCHANGED <<scenario, search, dead, written, received, readerVars>>

ToWriteLength == Least(Len(b) - currentOffset, Payload)

Advance(n) == IF n > 2 THEN n - 2 ELSE 0

\* Mutant: the chunk is taken from the beginning of the frame.
ChunkFirst == SubSeq(b, 1, ToWriteLength)

Chunk == SubSeq(b, currentOffset + 1, currentOffset + ToWriteLength)

\* hid_write moves n bytes of the report, whose second byte is the number of
\* bytes in use; the flight controller takes those of them that arrive.
DeviceWrite(chunk, n) == SubSeq(chunk, 1, Least(Len(chunk), Advance(n)))

WriteReport(n) ==
  /\ Present /\ ~dead
  /\ currentOffset < Len(b)
  /\ received' = received \o DeviceWrite(Chunk, n)
  /\ currentOffset' = currentOffset + Advance(n)
  /\ UNCHANGED <<scenario, search, dead, b, written, readerVars, count>>

\* Mutant: the loop ends only when the offset meets the length.
ReturnExact ==
  /\ b # <<>>
  /\ currentOffset = Len(b)
  /\ written' = written \o b
  /\ b' = <<>>
  /\ UNCHANGED <<scenario, search, dead, currentOffset, received, readerVars, count>>

Return ==
  /\ b # <<>>
  /\ currentOffset >= Len(b)
  /\ written' = written \o b
  /\ b' = <<>>
  /\ UNCHANGED <<scenario, search, dead, currentOffset, received, readerVars, count>>

-----------------------------------------------------------------------------
(***************************************************************************)
(* Reading.                                                                *)
(***************************************************************************)
\* The flight controller sends a report; its unused bytes may be left out.
SendReport(r, n) ==
  /\ Present
  /\ count.reports < scenario.maxReports
  /\ Len(r) + 2 <= n
  /\ inbox' = Append(inbox, [n |-> n, bytes |-> <<1, Len(r)>> \o r])
  /\ sentIn' = sentIn \o r
  /\ count' = [count EXCEPT !.reports = @ + 1]
  /\ UNCHANGED <<scenario, search, dead, writer, buffer, readOut>>

LengthIn(read, report) == read[2]

\* hid_read_timeout fills the front of the buffer and leaves the rest.
ReadTimeout(report) ==
  [i \in 1 .. MaxHIDFrameSize |->
     IF i <= Len(report.bytes) THEN report.bytes[i]
     ELSE IF i <= report.n THEN 0 ELSE buffer[i]]

\* copy(b, b[2:]) shifts the header out.
ReadReport ==
  /\ Present /\ ~dead
  /\ inbox # <<>>
  /\ LET report == Head(inbox)
         read == ReadTimeout(report)
         shifted == SubSeq(read, 3, MaxHIDFrameSize)
                      \o SubSeq(read, MaxHIDFrameSize - 1, MaxHIDFrameSize)
     IN  /\ buffer' = shifted
         /\ readOut' = readOut \o SubSeq(shifted, 1, LengthIn(read, report))
  /\ inbox' = Tail(inbox)
  /\ UNCHANGED <<scenario, search, dead, writer, sentIn, count>>

Next ==
  \/ \E d \in scenario.devices : Plug(d) \/ Unplug(d)
  \/ Enumerate \/ InitFails \/ Open \/ Fail
  \/ \E frame \in Frames : CallWrite(frame)
  \/ \E n \in 0 .. MaxHIDFrameSize : WriteReport(n)
  \/ Return
  \/ \E r \in Reports, n \in 1 .. MaxHIDFrameSize : SendReport(r, n)
  \/ ReadReport

\* start() keeps trying, once a second; a read every 50 ms notices that the
\* device is gone; the driver does not refuse every write for ever.
Fairness ==
  /\ WF_vars(Enumerate) /\ WF_vars(Open)
  /\ WF_vars(~Present /\ Fail)
  /\ SF_vars(\E n \in 3 .. MaxHIDFrameSize : WriteReport(n))
  /\ WF_vars(Return)
  /\ WF_vars(ReadReport)

Spec == Init /\ [][Next]_vars /\ Fairness

-----------------------------------------------------------------------------
\* However the frames are cut into reports and however much of a report the
\* driver takes, the flight controller receives the bytes of the frames, in
\* order, each once: usbLink.Write repeats exactly what was not taken.  And
\* what is read is what was sent, though the buffer holds bytes of earlier
\* reports and a report may be longer than its contents.
BytesExact ==
  /\ received = written \o SubSeq(b, 1, Least(currentOffset, Len(b)))
  /\ IsPrefix(readOut, sentIn)

\* Write comes back: it ends, or the process does.
WriteReturns == b # <<>> ~> (b = <<>> \/ dead)

\* A flight controller that stays plugged in is opened, in spite of devices
\* that come and go and of a failing initialisation, provided every device
\* has a readable product string in the end.
LinkOpens ==
  <>[](Enumerated /\ \E d \in Range(attached) : Suitable(d)) => <>(opened # {})
=============================================================================
