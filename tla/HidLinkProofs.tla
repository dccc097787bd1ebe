--------------------------- MODULE HidLinkProofs ---------------------------
(***************************************************************************)
(* Proof that usbLink.Write and usbLink.Read lose, repeat and reorder no   *)
(* byte, for every size of report, all frames and reports, and however     *)
(* many bytes the driver takes.                                            *)
(***************************************************************************)
EXTENDS HidLink, SequenceTheorems, TLAPS

Byte == 0 .. 255

LEMMA Concatenation ==
  ASSUME NEW S, NEW s \in Seq(S), NEW t \in Seq(S)
  PROVE  /\ s \o t \in Seq(S) /\ Len(s \o t) = Len(s) + Len(t)
         /\ \A i \in 1 .. Len(s) : (s \o t)[i] = s[i]
OBVIOUS

LEMMA WiderSeq ==
  ASSUME NEW S, NEW T, S \subseteq T, NEW s \in Seq(S)
  PROVE  s \in Seq(T)
<1>1. Len(s) \in Nat /\ s \in [1 .. Len(s) -> S]
  BY LenProperties
<1>2. s \in [1 .. Len(s) -> T]
  <2> DEFINE n == Len(s)
  <2> HIDE DEF n
  <2>1. s \in [1 .. n -> S]
    BY <1>1 DEF n
  <2>2. s \in [1 .. n -> T]
    BY <2>1
  <2> QED
    BY <2>2 DEF n
<1> QED
  BY <1>1, <1>2, SeqDef

-----------------------------------------------------------------------------
(***************************************************************************)
(* Writing.                                                                *)
(***************************************************************************)
WriteInv ==
  /\ b \in Seq(Byte) /\ currentOffset \in Nat
  /\ written \in Seq(Byte) /\ received \in Seq(Byte)
  /\ received = written \o SubSeq(b, 1, Least(currentOffset, Len(b)))

\* What the device takes of a chunk continues what it took of the frame.
LEMMA ChunkContinues ==
  ASSUME NEW f \in Seq(Byte), NEW o \in Nat, o < Len(f), NEW k \in Nat, k <= Payload
  PROVE  LET m == Least(Len(f) - o, Payload)
             chunk == SubSeq(f, o + 1, o + m)
         IN  SubSeq(f, 1, o) \o SubSeq(chunk, 1, Least(Len(chunk), k))
               = SubSeq(f, 1, Least(o + k, Len(f)))
<1> DEFINE m == Least(Len(f) - o, Payload)
           chunk == SubSeq(f, o + 1, o + m)
           j == Least(m, k)
<1>1. Payload \in Nat /\ Len(f) \in Nat /\ m \in Nat /\ m >= 1 /\ o + m <= Len(f)
  BY HidLinkAssumption DEF Payload, Least
<1>2. j \in Nat /\ j <= m /\ o + j = Least(o + k, Len(f))
  BY <1>1 DEF Least
<1> HIDE DEF m
<1>3. Len(chunk) = m /\ chunk \in Seq(Byte)
  BY <1>1, SubSeqProperties
<1> HIDE DEF j
<1>4. SubSeq(chunk, 1, j) = SubSeq(f, o + 1, o + j)
  BY <1>1, <1>2, <1>3
<1>5. SubSeq(f, 1, o) \o SubSeq(f, o + 1, o + j) = SubSeq(f, 1, o + j)
  BY <1>1, <1>2
<1> QED
  BY <1>2, <1>3, <1>4, <1>5 DEF j, m

LEMMA WriteStep == ASSUME WriteInv, [Next]_vars PROVE WriteInv'
<1>1. CASE UNCHANGED writer
  BY <1>1 DEF WriteInv, writer
<1>2. ASSUME NEW frame \in Frames, CallWrite(frame) PROVE WriteInv'
  <2>1. /\ frame \in Seq(Byte) /\ b = <<>> /\ b' = frame /\ currentOffset' = 0
        /\ UNCHANGED <<written, received>>
    BY <1>2, HidLinkAssumption DEF CallWrite, Byte
  <2>2. SubSeq(b, 1, Least(currentOffset, Len(b))) = <<>> /\ SubSeq(frame, 1, Least(0, Len(frame))) = <<>>
    BY <2>1 DEF Least, WriteInv
  <2> QED
    BY <2>1, <2>2 DEF WriteInv
<1>3. ASSUME NEW n \in 0 .. MaxHIDFrameSize, WriteReport(n) PROVE WriteInv'
  <2> DEFINE taken == DeviceWrite(Chunk, n)
             k == Advance(n)
  <2>1. /\ currentOffset < Len(b) /\ received' = received \o taken
        /\ currentOffset' = currentOffset + k /\ UNCHANGED <<b, written>>
    BY <1>3 DEF WriteReport
  <2>2. k \in Nat /\ k <= Payload
    BY HidLinkAssumption DEF Advance, Payload
  <2>3. received = written \o SubSeq(b, 1, currentOffset)
    BY <2>1 DEF WriteInv, Least
  <2>4. SubSeq(b, 1, currentOffset) \o taken = SubSeq(b, 1, Least(currentOffset + k, Len(b)))
    BY <2>1, <2>2, ChunkContinues DEF WriteInv, DeviceWrite, Chunk, ToWriteLength
  <2>5. taken \in Seq(Byte) /\ SubSeq(b, 1, currentOffset) \in Seq(Byte)
    <3>1. Chunk \in Seq(Byte)
      BY <2>1, HidLinkAssumption DEF WriteInv, Chunk, ToWriteLength, Least, Payload
    <3>2. Least(Len(Chunk), k) \in 0 .. Len(Chunk)
      BY <2>2, <3>1 DEF Least
    <3> QED
      BY <2>1, <3>1, <3>2 DEF WriteInv, DeviceWrite
  <2> HIDE DEF taken, k
  <2>6. written \in Seq(Byte) /\ received \in Seq(Byte) /\ b \in Seq(Byte) /\ currentOffset \in Nat
    BY DEF WriteInv
  <2>7. received' = written \o (SubSeq(b, 1, currentOffset) \o taken)
    <3> DEFINE front == SubSeq(b, 1, currentOffset)
    <3> HIDE DEF front
    <3>1. front \in Seq(Byte) /\ received' = (written \o front) \o taken
      BY <2>1, <2>3, <2>5 DEF front
    <3>2. (written \o front) \o taken = written \o (front \o taken)
      <4>1. written \in Seq(Byte) /\ front \in Seq(Byte) /\ taken \in Seq(Byte)
        BY <2>5, <2>6, <3>1
      <4> QED
        BY <4>1
    <3> QED
      BY <3>1, <3>2 DEF front
  <2>8. received' \in Seq(Byte)
    BY <2>1, <2>5, <2>6
  <2>9. received' = written' \o SubSeq(b', 1, Least(currentOffset', Len(b')))
    BY <2>1, <2>4, <2>7
  <2>10. currentOffset' \in Nat
    BY <2>1, <2>2, <2>6
  <2> QED
    BY <2>1, <2>6, <2>8, <2>9, <2>10 DEF WriteInv
<1>4. CASE Return
  <2>1. /\ currentOffset >= Len(b) /\ written' = written \o b /\ b' = <<>>
        /\ UNCHANGED <<currentOffset, received>>
    BY <1>4 DEF Return
  <2>2. SubSeq(b, 1, Least(currentOffset, Len(b))) = b
    BY <2>1, SubSeqFull DEF WriteInv, Least
  <2>3. SubSeq(b', 1, Least(currentOffset', Len(b'))) = <<>>
    BY <2>1 DEF WriteInv, Least
  <2>4. written' \in Seq(Byte) /\ written' \o <<>> = written' /\ b' \in Seq(Byte)
    BY <2>1 DEF WriteInv
  <2>5. received' = written'
    BY <2>1, <2>2 DEF WriteInv
  <2> QED
    BY <2>1, <2>3, <2>4, <2>5 DEF WriteInv
<1>5. CASE \/ \E d \in scenario.devices : Plug(d) \/ Unplug(d)
           \/ Enumerate \/ InitFails \/ Open \/ Fail
           \/ \E r \in Reports, n \in 1 .. MaxHIDFrameSize : SendReport(r, n)
           \/ ReadReport
  BY <1>1, <1>5 DEF Plug, Unplug, Enumerate, InitFails, Open, Fail, SendReport, ReadReport
<1> QED
  BY <1>1, <1>2, <1>3, <1>4, <1>5 DEF Next, vars

-----------------------------------------------------------------------------
(***************************************************************************)
(* Reading.  The bytes that were sent and not read yet are cut into the    *)
(* reports that wait: report i holds those from cut[i - 1] + 1 to cut[i].  *)
(***************************************************************************)
Report(bytes, n) == [n |-> n, bytes |-> <<1, Len(bytes)>> \o bytes]

IsCut(cut, reports, from, sent) ==
  /\ cut \in [0 .. Len(reports) -> Nat]
  /\ cut[0] = from /\ cut[Len(reports)] = Len(sent)
  /\ \A i \in 1 .. Len(reports) :
       /\ cut[i] - cut[i - 1] \in 1 .. Payload /\ cut[i] <= Len(sent)
       /\ \E n \in Nat : reports[i] = Report(SubSeq(sent, cut[i - 1] + 1, cut[i]), n)

ReadInv ==
  /\ sentIn \in Seq(Byte) /\ readOut \in Seq(Byte)
  /\ inbox \in Seq([n : Nat, bytes : Seq(Nat)])
  /\ buffer \in [1 .. MaxHIDFrameSize -> Nat]
  /\ Len(readOut) <= Len(sentIn)
  /\ readOut = SubSeq(sentIn, 1, Len(readOut))
  /\ gone \/ \E cut : IsCut(cut, inbox, Len(readOut), sentIn)

\* Shifting the header out and taking the length that it gives.
LEMMA ShiftedPayload ==
  ASSUME NEW M \in Nat, M > 2, NEW read \in Seq(Nat), Len(read) = M,
         NEW k \in 1 .. M - 2
  PROVE  LET shifted == SubSeq(read, 3, M) \o SubSeq(read, M - 1, M)
         IN  /\ shifted \in [1 .. M -> Nat]
             /\ SubSeq(shifted, 1, k) \in Seq(Nat) /\ Len(SubSeq(shifted, 1, k)) = k
             /\ \A i \in 1 .. k : SubSeq(shifted, 1, k)[i] = read[i + 2]
<1> DEFINE front == SubSeq(read, 3, M)
           back == SubSeq(read, M - 1, M)
           shifted == front \o back
<1>1. front \in Seq(Nat) /\ Len(front) = M - 2 /\ \A i \in 1 .. M - 2 : front[i] = read[i + 2]
  OBVIOUS
<1>2. back \in Seq(Nat) /\ Len(back) = 2
  OBVIOUS
<1> HIDE DEF front, back
<1>3. /\ shifted \in Seq(Nat) /\ Len(shifted) = Len(front) + Len(back)
      /\ \A i \in 1 .. Len(front) : shifted[i] = front[i]
  BY <1>1, <1>2, Concatenation
<1> HIDE DEF shifted
<1>4. Len(shifted) = M /\ shifted \in [1 .. M -> Nat] /\ \A i \in 1 .. k : shifted[i] = front[i]
  <2>1. Len(shifted) = M /\ 1 .. k \subseteq 1 .. Len(front)
    BY <1>1, <1>2, <1>3
  <2>2. shifted \in [1 .. M -> Nat]
    BY <1>3, <2>1, LenProperties
  <2> QED
    BY <1>3, <2>1, <2>2
<1>5. /\ SubSeq(shifted, 1, k) \in Seq(Nat) /\ Len(SubSeq(shifted, 1, k)) = k
      /\ \A i \in 1 .. k : SubSeq(shifted, 1, k)[i] = shifted[i]
  BY <1>3, <1>4
<1> QED
  BY <1>1, <1>3, <1>4, <1>5 DEF shifted, front, back

\* Whatever the buffer held before, Read returns the payload of the report.
LEMMA PayloadRead ==
  ASSUME NEW p \in Seq(Byte), Len(p) \in 1 .. Payload, NEW n \in Nat,
         buffer \in [1 .. MaxHIDFrameSize -> Nat]
  PROVE  LET read == ReadTimeout(Report(p, n))
             shifted == SubSeq(read, 3, MaxHIDFrameSize)
                          \o SubSeq(read, MaxHIDFrameSize - 1, MaxHIDFrameSize)
         IN  /\ read[2] = Len(p)
             /\ SubSeq(shifted, 1, Len(p)) = p
             /\ shifted \in [1 .. MaxHIDFrameSize -> Nat]
<1> DEFINE M == MaxHIDFrameSize
           w == <<1, Len(p)>> \o p
           read == ReadTimeout(Report(p, n))
<1>1. M \in Nat /\ M > 2 /\ Len(p) \in 1 .. M - 2
  BY HidLinkAssumption DEF Payload
<1>2. /\ Len(w) = Len(p) + 2 /\ w[1] = 1 /\ w[2] = Len(p)
      /\ \A i \in 1 .. Len(p) : w[i + 2] = p[i]
  OBVIOUS
<1>3. read = [i \in 1 .. M |-> IF i <= Len(w) THEN w[i] ELSE IF i <= n THEN 0 ELSE buffer[i]]
  BY DEF ReadTimeout, Report
<1> HIDE DEF w, read
<1>4. read[2] = Len(p) /\ \A i \in 1 .. Len(p) : read[i + 2] = p[i]
  BY <1>1, <1>2, <1>3
<1>5. ASSUME NEW i \in 1 .. M PROVE read[i] \in Nat
  <2>1. CASE i \in {1, 2}
    BY <1>1, <1>2, <1>3, <2>1
  <2>2. CASE i - 2 \in 1 .. Len(p)
    <3>1. p[i - 2] \in Byte /\ read[(i - 2) + 2] = p[i - 2]
      BY <1>4, <2>2
    <3>2. (i - 2) + 2 = i /\ Byte \subseteq Nat
      BY DEF Byte
    <3> QED
      BY <3>1, <3>2
  <2>3. CASE i > Len(p) + 2
    BY <1>1, <1>2, <1>3, <2>3
  <2> QED
    BY <1>1, <2>1, <2>2, <2>3
<1>6. read \in [1 .. M -> Nat]
  BY <1>3, <1>5
<1>7. read \in Seq(Nat) /\ Len(read) = M
  BY <1>1, <1>6
<1> DEFINE shifted == SubSeq(read, 3, M) \o SubSeq(read, M - 1, M)
<1>8. /\ shifted \in [1 .. M -> Nat]
      /\ SubSeq(shifted, 1, Len(p)) \in Seq(Nat) /\ Len(SubSeq(shifted, 1, Len(p))) = Len(p)
      /\ \A i \in 1 .. Len(p) : SubSeq(shifted, 1, Len(p))[i] = p[i]
  BY <1>1, <1>4, <1>7, ShiftedPayload
<1> HIDE DEF shifted
<1>9. p \in Seq(Nat)
  <2>1. Byte \subseteq Nat
    BY DEF Byte
  <2> QED
    BY <2>1, WiderSeq
<1>10. SubSeq(shifted, 1, Len(p)) = p
  BY <1>8, <1>9, SeqEqual
<1> QED
  BY <1>4, <1>8, <1>10 DEF shifted, read

LEMMA FrontOfConcat ==
  ASSUME NEW S, NEW s \in Seq(S), NEW t \in Seq(S), NEW i \in Nat, NEW j \in Nat, j <= Len(s)
  PROVE  SubSeq(s \o t, i + 1, j) = SubSeq(s, i + 1, j)
OBVIOUS

LEMMA BackOfConcat ==
  ASSUME NEW S, NEW s \in Seq(S), NEW t \in Seq(S)
  PROVE  SubSeq(s \o t, Len(s) + 1, Len(s) + Len(t)) = t
OBVIOUS

LEMMA NextPiece ==
  ASSUME NEW S, NEW s \in Seq(S), NEW i \in Nat, NEW j \in Nat, i <= j, j <= Len(s)
  PROVE  /\ SubSeq(s, 1, i) \o SubSeq(s, i + 1, j) = SubSeq(s, 1, j)
         /\ SubSeq(s, i + 1, j) \in Seq(S) /\ Len(SubSeq(s, i + 1, j)) = j - i
         /\ SubSeq(s, 1, j) \in Seq(S) /\ Len(SubSeq(s, 1, j)) = j
OBVIOUS

LEMMA SendKeeps ==
  ASSUME ReadInv, NEW r \in Reports, NEW n \in 1 .. MaxHIDFrameSize, SendReport(r, n)
  PROVE  ReadInv'
<1>1. /\ sentIn \in Seq(Byte) /\ readOut \in Seq(Byte) /\ r \in Seq(Byte) /\ Len(r) \in 1 .. Payload
      /\ inbox \in Seq([n : Nat, bytes : Seq(Nat)])
  BY HidLinkAssumption DEF ReadInv, Byte, Payload
<1>2. /\ inbox' = Append(inbox, Report(r, n)) /\ sentIn' = sentIn \o r
      /\ UNCHANGED <<buffer, readOut>> /\ ~gone /\ gone' = gone
  BY DEF SendReport, Report, Present, search
<1>3. PICK cut : IsCut(cut, inbox, Len(readOut), sentIn)
  BY <1>2 DEF ReadInv
<1> DEFINE k == Len(inbox)
           total == Len(sentIn) + Len(r)
           next == [i \in 0 .. k + 1 |-> IF i <= k THEN cut[i] ELSE total]
<1>4. k \in Nat /\ Len(inbox') = k + 1 /\ Len(sentIn') = total /\ sentIn' \in Seq(Byte)
  BY <1>1, <1>2, Concatenation
<1>5. \A i \in 1 .. k : inbox'[i] = inbox[i]
  BY <1>1, <1>2
<1>6. inbox'[k + 1] = Report(r, n)
  BY <1>1, <1>2
<1> HIDE DEF k
<1>7. /\ cut \in [0 .. k -> Nat] /\ cut[0] = Len(readOut) /\ cut[k] = Len(sentIn)
      /\ \A i \in 1 .. k :
           /\ cut[i] - cut[i - 1] \in 1 .. Payload /\ cut[i] <= Len(sentIn)
           /\ \E m \in Nat : inbox[i] = Report(SubSeq(sentIn, cut[i - 1] + 1, cut[i]), m)
  BY <1>3 DEF IsCut, k
<1>8. next \in [0 .. k + 1 -> Nat] /\ next[0] = Len(readOut) /\ next[k + 1] = total
  BY <1>1, <1>4, <1>7
<1>9. ASSUME NEW i \in 1 .. k + 1
      PROVE  /\ next[i] - next[i - 1] \in 1 .. Payload /\ next[i] <= total
             /\ \E m \in Nat : inbox'[i] = Report(SubSeq(sentIn', next[i - 1] + 1, next[i]), m)
  <2>1. CASE i \in 1 .. k
    <3>1. next[i] = cut[i] /\ next[i - 1] = cut[i - 1] /\ cut[i] \in Nat /\ cut[i - 1] \in Nat
      BY <1>4, <1>7, <2>1
    <3>2. SubSeq(sentIn', cut[i - 1] + 1, cut[i]) = SubSeq(sentIn, cut[i - 1] + 1, cut[i])
      <4>1. cut[i] <= Len(sentIn)
        BY <1>7, <2>1
      <4> QED
        BY <1>1, <1>2, <3>1, <4>1, FrontOfConcat
    <3>3. total \in Nat /\ total >= Len(sentIn)
      BY <1>1
    <3>4. next[i] <= total
      BY <1>1, <1>7, <2>1, <3>1, <3>3
    <3> HIDE DEF next, total
    <3> QED
      BY <1>5, <1>7, <2>1, <3>1, <3>2, <3>4
  <2>2. CASE i = k + 1
    <3>1. next[i] = total /\ next[i - 1] = Len(sentIn)
      BY <1>4, <1>7, <2>2
    <3>2. SubSeq(sentIn', Len(sentIn) + 1, total) = r
      BY <1>1, <1>2, BackOfConcat
    <3>3. total - Len(sentIn) \in 1 .. Payload /\ total <= total
      BY <1>1
    <3>4. n \in Nat
      BY HidLinkAssumption
    <3> QED
      BY <1>6, <2>2, <3>1, <3>2, <3>3, <3>4
  <2> HIDE DEF next, total
  <2> QED
    BY <1>4, <2>1, <2>2
<1> HIDE DEF next, total
<1>10. IsCut(next, inbox', Len(readOut'), sentIn')
  BY <1>2, <1>4, <1>8, <1>9 DEF IsCut
<1>11. /\ Len(readOut') <= Len(sentIn') /\ readOut' = SubSeq(sentIn', 1, Len(readOut'))
  <2>1. Len(readOut) \in Nat /\ Len(readOut) <= Len(sentIn) /\ readOut = SubSeq(sentIn, 0 + 1, Len(readOut))
    BY <1>1 DEF ReadInv
  <2>2. SubSeq(sentIn', 0 + 1, Len(readOut)) = SubSeq(sentIn, 0 + 1, Len(readOut))
    BY <1>1, <1>2, <2>1, FrontOfConcat
  <2>3. Len(readOut) <= Len(sentIn')
    BY <1>1, <1>4, <2>1 DEF total
  <2> QED
    BY <1>2, <2>1, <2>2, <2>3
<1>12. inbox' \in Seq([n : Nat, bytes : Seq(Nat)])
  <2>1. Byte \subseteq Nat
    BY DEF Byte
  <2>2. r \in Seq(Nat)
    BY <1>1, <2>1, WiderSeq
  <2>a. n \in Nat
    BY HidLinkAssumption
  <2>3. <<1, Len(r)>> \in Seq(Nat)
    BY <2>2
  <2>4. <<1, Len(r)>> \o r \in Seq(Nat)
    BY <2>2, <2>3, Concatenation
  <2>5. Report(r, n) \in [n : Nat, bytes : Seq(Nat)]
    BY <2>a, <2>4 DEF Report
  <2> QED
    BY <1>1, <1>2, <2>5
<1> QED
  BY <1>1, <1>2, <1>4, <1>10, <1>11, <1>12 DEF ReadInv

LEMMA ReadKeeps == ASSUME ReadInv, ReadReport PROVE ReadInv'
<1> DEFINE R == [n : Nat, bytes : Seq(Nat)]
<1>1. /\ sentIn \in Seq(Byte) /\ readOut \in Seq(Byte) /\ inbox \in Seq(R)
      /\ buffer \in [1 .. MaxHIDFrameSize -> Nat]
      /\ readOut = SubSeq(sentIn, 1, Len(readOut))
  BY DEF ReadInv
<1>2. inbox # <<>> /\ inbox' = Tail(inbox) /\ sentIn' = sentIn /\ ~gone /\ gone' = gone
  BY DEF ReadReport, Present, search
<1>3. PICK cut : IsCut(cut, inbox, Len(readOut), sentIn)
  BY <1>2 DEF ReadInv
<1> DEFINE k == Len(inbox)
<1>4. k \in Nat /\ k >= 1 /\ Len(inbox') = k - 1 /\ inbox' \in Seq(R) /\ Head(inbox) = inbox[1]
  <2> HIDE DEF R
  <2> QED
    BY <1>1, <1>2
<1>5. \A i \in 1 .. k - 1 : inbox'[i] = inbox[i + 1]
  <2> HIDE DEF R
  <2> QED
    BY <1>1, <1>2, <1>4
<1> HIDE DEF k
<1>6. /\ cut \in [0 .. k -> Nat] /\ cut[0] = Len(readOut) /\ cut[k] = Len(sentIn)
      /\ \A i \in 1 .. k :
           /\ cut[i] - cut[i - 1] \in 1 .. Payload /\ cut[i] <= Len(sentIn)
           /\ \E m \in Nat : inbox[i] = Report(SubSeq(sentIn, cut[i - 1] + 1, cut[i]), m)
  BY <1>3 DEF IsCut, k
<1> DEFINE from == Len(readOut)
           to == cut[1]
           p == SubSeq(sentIn, from + 1, to)
<1>7. /\ from \in Nat /\ to \in Nat /\ from <= to /\ to <= Len(sentIn) /\ to - from \in 1 .. Payload
      /\ \E m \in Nat : inbox[1] = Report(p, m)
  <2>1. 1 \in 1 .. k /\ 1 - 1 = 0 /\ Payload \in Nat /\ from \in Nat
    BY <1>1, <1>4, HidLinkAssumption DEF Payload
  <2>2. cut[1] - cut[0] \in 1 .. Payload /\ cut[1] <= Len(sentIn) /\ cut[1] \in Nat
    BY <1>4, <1>6, <2>1
  <2>3. \E m \in Nat : inbox[1] = Report(SubSeq(sentIn, cut[0] + 1, cut[1]), m)
    BY <1>6, <2>1
  <2> QED
    BY <1>6, <2>1, <2>2, <2>3
<1>8. PICK m \in Nat : inbox[1] = Report(p, m)
  BY <1>7
<1>9. /\ p \in Seq(Byte) /\ Len(p) = to - from
      /\ SubSeq(sentIn, 1, from) \o p = SubSeq(sentIn, 1, to)
      /\ SubSeq(sentIn, 1, to) \in Seq(Byte) /\ Len(SubSeq(sentIn, 1, to)) = to
  <2> HIDE DEF from, to
  <2>1. from \in Nat /\ to \in Nat /\ from <= to /\ to <= Len(sentIn) /\ sentIn \in Seq(Byte)
    BY <1>1, <1>7
  <2> QED
    BY <2>1, NextPiece
<1> HIDE DEF p, from, to
<1>10. readOut' = readOut \o p /\ buffer' \in [1 .. MaxHIDFrameSize -> Nat]
  <2> DEFINE read == ReadTimeout(Report(p, m))
             shifted == SubSeq(read, 3, MaxHIDFrameSize)
                          \o SubSeq(read, MaxHIDFrameSize - 1, MaxHIDFrameSize)
  <2>1. buffer' = shifted /\ readOut' = readOut \o SubSeq(shifted, 1, read[2])
    BY <1>4, <1>8 DEF ReadReport, LengthIn
  <2>2. Len(p) \in 1 .. Payload
    BY <1>7, <1>9
  <2>3. /\ read[2] = Len(p) /\ SubSeq(shifted, 1, Len(p)) = p
        /\ shifted \in [1 .. MaxHIDFrameSize -> Nat]
    BY <1>1, <1>9, <2>2, PayloadRead
  <2> HIDE DEF read, shifted
  <2> QED
    BY <2>1, <2>3
<1>11. readOut' = SubSeq(sentIn', 1, to) /\ Len(readOut') = to /\ readOut' \in Seq(Byte)
  BY <1>1, <1>2, <1>9, <1>10 DEF from
<1> DEFINE next == [i \in 0 .. k - 1 |-> cut[i + 1]]
<1>12. next \in [0 .. k - 1 -> Nat] /\ next[0] = to /\ next[k - 1] = Len(sentIn)
  <2>1. \A i \in 0 .. k - 1 : i + 1 \in 0 .. k
    BY <1>4
  <2>2. next \in [0 .. k - 1 -> Nat]
    BY <1>6, <2>1
  <2>3. 0 \in 0 .. k - 1 /\ k - 1 \in 0 .. k - 1 /\ 0 + 1 = 1 /\ (k - 1) + 1 = k
    BY <1>4
  <2> QED
    BY <1>6, <2>2, <2>3 DEF to
<1>13. ASSUME NEW i \in 1 .. k - 1
       PROVE  /\ next[i] - next[i - 1] \in 1 .. Payload /\ next[i] <= Len(sentIn)
              /\ \E l \in Nat : inbox'[i] = Report(SubSeq(sentIn, next[i - 1] + 1, next[i]), l)
  <2>1. i + 1 \in 1 .. k /\ (i + 1) - 1 = i /\ next[i] = cut[i + 1] /\ next[i - 1] = cut[i]
    BY <1>4
  <2> HIDE DEF next
  <2>2. /\ cut[i + 1] - cut[i] \in 1 .. Payload /\ cut[i + 1] <= Len(sentIn)
        /\ \E l \in Nat : inbox[i + 1] = Report(SubSeq(sentIn, cut[i] + 1, cut[i + 1]), l)
    BY <1>6, <2>1
  <2> QED
    BY <1>5, <2>1, <2>2
<1> HIDE DEF next
<1>14. IsCut(next, inbox', Len(readOut'), sentIn')
  BY <1>2, <1>4, <1>11, <1>12, <1>13 DEF IsCut
<1> QED
  BY <1>1, <1>2, <1>4, <1>7, <1>10, <1>11, <1>14 DEF ReadInv

LEMMA ReadStep == ASSUME ReadInv, [Next]_vars PROVE ReadInv'
<1>1. CASE UNCHANGED <<readerVars, gone>>
  BY <1>1 DEF ReadInv, readerVars
<1>2. ASSUME NEW d \in scenario.devices, Unplug(d) PROVE ReadInv'
  <2>1. /\ gone' = (gone \/ d \in opened) /\ (d \notin opened => inbox' = inbox)
        /\ (d \in opened => inbox' = <<>>) /\ UNCHANGED <<buffer, sentIn, readOut>>
    BY <1>2 DEF Unplug
  <2>2. inbox' \in Seq([n : Nat, bytes : Seq(Nat)])
    <3> DEFINE R == [n : Nat, bytes : Seq(Nat)]
    <3>1. inbox \in Seq(R)
      BY DEF ReadInv
    <3> HIDE DEF R
    <3>2. inbox' = inbox \/ inbox' = <<>>
      BY <2>1
    <3>3. <<>> \in Seq(R)
      OBVIOUS
    <3>4. inbox' \in Seq(R)
      BY <3>1, <3>2, <3>3, Zenon
    <3> QED
      BY <3>4 DEF R
  <2> QED
    BY <2>1, <2>2 DEF ReadInv
<1>3. ASSUME NEW r \in Reports, NEW n \in 1 .. MaxHIDFrameSize, SendReport(r, n) PROVE ReadInv'
  BY <1>3, SendKeeps
<1>4. CASE ReadReport
  BY <1>4, ReadKeeps
<1>5. CASE \/ \E d \in scenario.devices : Plug(d)
           \/ Enumerate \/ InitFails \/ Open \/ Fail
           \/ \E frame \in Frames : CallWrite(frame)
           \/ \E n \in 0 .. MaxHIDFrameSize : WriteReport(n)
           \/ Return
  BY <1>1, <1>5 DEF Plug, Enumerate, InitFails, Open, Fail, CallWrite, WriteReport, Return, search
<1> QED
  BY <1>1, <1>2, <1>3, <1>4, <1>5 DEF Next, vars, search

-----------------------------------------------------------------------------
LEMMA InitHolds == Init => WriteInv /\ ReadInv
<1> SUFFICES ASSUME Init PROVE WriteInv /\ ReadInv
  OBVIOUS
<1>1. WriteInv
  BY DEF Init, WriteInv, Least
<1>2. /\ sentIn = <<>> /\ readOut = <<>> /\ inbox = <<>> /\ Len(sentIn) = 0
      /\ SubSeq(sentIn, 1, Len(readOut)) = <<>>
  BY DEF Init
<1>3. buffer \in [1 .. MaxHIDFrameSize -> Nat]
  BY DEF Init
<1>4. IsCut([i \in 0 .. 0 |-> 0], inbox, Len(readOut), sentIn)
  BY <1>2 DEF IsCut
<1> QED
  BY <1>1, <1>2, <1>3, <1>4 DEF ReadInv

\* usbLink.Write hands every byte of every frame to the flight controller, in
\* order and once, however few bytes hid_write takes; usbLink.Read returns
\* the bytes that were sent, in order and once, whatever is left in its
\* buffer: for every size of report and any number of frames and reports.
THEOREM BytesExactAlways == Spec => []BytesExact
<1>1. ASSUME WriteInv, ReadInv PROVE BytesExact
  <2>1. IsPrefix(readOut, sentIn)
    BY <1>1, SubSeqFull DEF ReadInv, IsPrefix
  <2> QED
    BY <1>1, <2>1 DEF WriteInv, BytesExact
<1> QED
  BY <1>1, InitHolds, WriteStep, ReadStep, PTL DEF Spec
=============================================================================
