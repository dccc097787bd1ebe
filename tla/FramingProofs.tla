--------------------------- MODULE FramingProofs ---------------------------
(***************************************************************************)
(* On a link that loses and changes nothing, the reader goroutine is a     *)
(* reliable channel (ReliableChannel): for any definitions and packets,    *)
(* whatever their bytes look like, and any cut into reports.               *)
(***************************************************************************)
EXTENDS Framing, SequenceTheorems, WellFoundedInduction, TLAPS

-----------------------------------------------------------------------------
(***************************************************************************)
(* The frame of a packet.                                                  *)
(***************************************************************************)

\* What may be on the wire; a checksum is a value of computeCrc8.
Units == Nat \cup {ComputeCrc8(0, s) : s \in Seq(Nat)}

LEMMA PacketType ==
  ASSUME NEW p \in Packets
  PROVE  /\ p \in [id : DOMAIN Definitions, cmd : 0 .. 4, instance : Nat, data : Seq(Bytes)]
         /\ Definitions[p.id] \in [single : BOOLEAN, size : Nat]
         /\ p.id \in [1 .. 4 -> Bytes]
         /\ Definitions[p.id].single => p.instance = 0
         /\ Len(p.data) = IF DataCmd(p.cmd) THEN Definitions[p.id].size ELSE 0
         /\ HeaderLength(Definitions[p.id]) \in {8, 10}
         /\ HeaderLength(Definitions[p.id]) = IF Definitions[p.id].single THEN 8 ELSE 10
         /\ LengthOf(p) = HeaderLength(Definitions[p.id]) + Len(p.data)
         /\ LengthOf(p) \in Nat /\ LengthOf(p) >= 8
<1>1. /\ p \in [id : DOMAIN Definitions, cmd : 0 .. 4, instance : Nat, data : Seq(Bytes)]
      /\ Definitions[p.id].single => p.instance = 0
      /\ Len(p.data) = IF DataCmd(p.cmd) THEN Definitions[p.id].size ELSE 0
  BY DEF Packets
<1>2. p.id \in DOMAIN Definitions
  BY <1>1
<1>3. /\ Definitions[p.id] \in [single : BOOLEAN, size : Nat]
      /\ p.id \in [1 .. 4 -> Bytes]
      /\ HeaderLength(Definitions[p.id]) + Definitions[p.id].size <= 65535
  BY <1>2, FramingAssumption
<1>4. HeaderLength(Definitions[p.id]) = IF Definitions[p.id].single THEN 8 ELSE 10
  BY DEF HeaderLength, ShortHeaderLength
<1>5. LengthOf(p) = HeaderLength(Definitions[p.id]) + Len(p.data)
  BY <1>1 DEF LengthOf
<1>6. LengthOf(p) \in Nat /\ LengthOf(p) >= 8
  <2>1. Definitions[p.id].size \in Nat
    BY <1>3
  <2>2. HeaderLength(Definitions[p.id]) \in {8, 10}
    BY <1>4
  <2> QED
    BY <1>1, <1>3, <1>5, <2>1, <2>2
<1> QED
  BY <1>1, <1>3, <1>4, <1>5, <1>6

\* or and exclusive or with versionMask undo each other.
LEMMA CommandReads ==
  ASSUME NEW c \in 0 .. 4
  PROVE  Command(c + VersionMask) = c
<1>1. CASE c = 0
  BY <1>1 DEF Command, XorBytes, VersionMask
<1>2. CASE c = 1
  BY <1>2 DEF Command, XorBytes, VersionMask
<1>3. CASE c = 2
  BY <1>3 DEF Command, XorBytes, VersionMask
<1>4. CASE c = 3
  BY <1>4 DEF Command, XorBytes, VersionMask
<1>5. CASE c = 4
  BY <1>5 DEF Command, XorBytes, VersionMask
<1> QED
  BY <1>1, <1>2, <1>3, <1>4, <1>5

LEMMA BytesNat == Bytes \subseteq Nat
BY DEF Bytes

LEMMA LengthReads ==
  ASSUME NEW n \in Nat
  PROVE  /\ n % 256 \in Nat /\ n \div 256 \in Nat
         /\ (n % 256) + 256 * (n \div 256) = n
OBVIOUS

\* The elements of c are those of a and then those of b.
Joined(a, b, c) ==
  /\ Len(c) = Len(a) + Len(b)
  /\ \A j \in 1 .. Len(a) : c[j] = a[j]
  /\ \A j \in 1 .. Len(b) : c[Len(a) + j] = b[j]

LEMMA Concat ==
  ASSUME NEW S, NEW a \in Seq(S), NEW b \in Seq(S)
  PROVE  a \o b \in Seq(S) /\ Joined(a, b, a \o b)
BY DEF Joined

\* The elements of t are those of s from m to n.
Cut(s, m, n, t) ==
  /\ Len(t) = n + 1 - m
  /\ \A j \in 1 .. n + 1 - m : t[j] = s[m + j - 1]

LEMMA Part ==
  ASSUME NEW S, NEW s \in Seq(S), NEW m \in Nat, NEW n \in Nat, 1 <= m, m <= n + 1, n <= Len(s)
  PROVE  SubSeq(s, m, n) \in Seq(S) /\ Cut(s, m, n, SubSeq(s, m, n))
<1>1. \A i \in m .. n : s[i] \in S
  OBVIOUS
<1>2. /\ SubSeq(s, m, n) \in Seq(S)
      /\ Len(SubSeq(s, m, n)) = IF m <= n THEN n - m + 1 ELSE 0
      /\ \A i \in 1 .. n - m + 1 : SubSeq(s, m, n)[i] = s[m + i - 1]
  BY <1>1, SubSeqProperties
<1> QED
  BY <1>2 DEF Cut

LEMMA Elements ==
  ASSUME NEW S, NEW s \in Seq(S)
  PROVE  Len(s) \in Nat /\ \A j \in 1 .. Len(s) : s[j] \in S
OBVIOUS

LEMMA Widen ==
  ASSUME NEW S, NEW T, S \subseteq T, NEW a \in Seq(S)
  PROVE  a \in Seq(T)
OBVIOUS

LEMMA Four ==
  ASSUME NEW S, NEW a \in [1 .. 4 -> S]
  PROVE  a \in Seq(S) /\ Len(a) = 4
<1>1. \A i \in 1 .. 4 : a[i] \in S
  OBVIOUS
<1>2. a = [i \in 1 .. 4 |-> a[i]]
  OBVIOUS
<1> QED
  BY <1>1, <1>2

\* A frame without its checksum.
Body(p) ==
  <<Sync, p.cmd + VersionMask>> \o LittleEndian16(LengthOf(p)) \o p.id
    \o (IF Definitions[p.id].single THEN <<>> ELSE LittleEndian16(p.instance))
    \o (IF DataCmd(p.cmd) THEN p.data ELSE <<>>)

LEMMA BodyBytes ==
  ASSUME NEW p \in Packets
  PROVE  LET f == Body(p)
             n == LengthOf(p)
             head == HeaderLength(Definitions[p.id])
         IN  /\ f \in Seq(Nat) /\ Len(f) = n
             /\ f[1] = Sync /\ f[2] = p.cmd + VersionMask
             /\ f[3] + 256 * f[4] = n
             /\ \A j \in 1 .. 4 : f[4 + j] = p.id[j]
             /\ ~Definitions[p.id].single => f[9] + 256 * f[10] = p.instance
             /\ \A j \in 1 .. Len(p.data) : f[head + j] = p.data[j]
<1> DEFINE n == LengthOf(p)
           def == Definitions[p.id]
           head == HeaderLength(def)
           low == <<Sync, p.cmd + VersionMask>> \o LittleEndian16(n)
           short == low \o p.id
           instance == IF def.single THEN <<>> ELSE LittleEndian16(p.instance)
           long == short \o instance
           data == IF DataCmd(p.cmd) THEN p.data ELSE <<>>
           f == long \o data
<1>1. /\ p \in [id : DOMAIN Definitions, cmd : 0 .. 4, instance : Nat, data : Seq(Bytes)]
      /\ p.id \in [1 .. 4 -> Bytes]
      /\ Len(p.data) = IF DataCmd(p.cmd) THEN def.size ELSE 0
      /\ head = IF def.single THEN 8 ELSE 10
      /\ n = head + Len(p.data) /\ n \in Nat
  BY PacketType
<1>2. p.cmd \in Nat /\ p.instance \in Nat /\ p.id \in Seq(Nat) /\ Len(p.id) = 4 /\ p.data \in Seq(Nat)
  <2>1. p.cmd \in 0 .. 4 /\ p.instance \in Nat /\ p.data \in Seq(Bytes)
    BY <1>1
  <2>2. p.id \in Seq(Bytes) /\ Len(p.id) = 4
    BY <1>1, Four
  <2>3. p.id \in Seq(Nat) /\ p.data \in Seq(Nat)
    BY <2>1, <2>2, BytesNat, Widen
  <2> QED
    BY <2>1, <2>2, <2>3
<1>3. n % 256 \in Nat /\ n \div 256 \in Nat /\ (n % 256) + 256 * (n \div 256) = n
  BY <1>1, LengthReads
<1>4. /\ p.instance % 256 \in Nat /\ p.instance \div 256 \in Nat
      /\ (p.instance % 256) + 256 * (p.instance \div 256) = p.instance
  BY <1>2, LengthReads
<1> HIDE DEF n, head
<1>5. /\ low \in Seq(Nat) /\ Len(low) = 4
      /\ low[1] = Sync /\ low[2] = p.cmd + VersionMask /\ low[3] + 256 * low[4] = n
  <2> DEFINE a == n % 256
             b == n \div 256
  <2>1. a \in Nat /\ b \in Nat /\ a + 256 * b = n
    BY <1>3
  <2>2. low = <<Sync, p.cmd + VersionMask>> \o <<a, b>>
    BY DEF LittleEndian16
  <2> HIDE DEF a, b, low
  <2> QED
    BY <1>2, <2>1, <2>2 DEF Sync, VersionMask
<1> HIDE DEF low
<1>6. /\ short \in Seq(Nat) /\ Len(short) = 8
      /\ \A j \in 1 .. 4 : short[j] = low[j] /\ short[4 + j] = p.id[j]
  <2>1. short \in Seq(Nat) /\ Joined(low, p.id, short)
    BY <1>2, <1>5, Concat
  <2> HIDE DEF short
  <2> QED
    BY <1>2, <1>5, <2>1 DEF Joined
<1> HIDE DEF short
<1>7. /\ instance \in Seq(Nat) /\ Len(instance) = IF def.single THEN 0 ELSE 2
      /\ ~def.single => instance[1] + 256 * instance[2] = p.instance
  <2> DEFINE a == p.instance % 256
             b == p.instance \div 256
  <2>1. a \in Nat /\ b \in Nat /\ a + 256 * b = p.instance
    BY <1>4
  <2>2. instance = IF def.single THEN <<>> ELSE <<a, b>>
    BY DEF LittleEndian16
  <2> HIDE DEF a, b, instance
  <2> QED
    BY <2>1, <2>2
<1> HIDE DEF instance
<1>8. /\ long \in Seq(Nat) /\ Len(long) = head
      /\ \A j \in 1 .. 8 : long[j] = short[j]
      /\ ~def.single => long[9] = instance[1] /\ long[10] = instance[2]
  <2>0. long \in Seq(Nat) /\ Joined(short, instance, long)
    BY <1>6, <1>7, Concat
  <2> HIDE DEF long, def
  <2>1. /\ long \in Seq(Nat) /\ Len(long) = 8 + Len(instance)
        /\ \A j \in 1 .. 8 : long[j] = short[j]
        /\ \A j \in 1 .. Len(instance) : long[8 + j] = instance[j]
    BY <1>6, <2>0, Zenon DEF Joined
  <2>2. Len(long) = head
    BY <1>1, <1>7, <2>1
  <2>3. ~def.single => long[8 + 1] = instance[1] /\ long[8 + 2] = instance[2]
    BY <1>7, <2>1
  <2> QED
    BY <2>1, <2>2, <2>3
<1> HIDE DEF long
<1>9. data = p.data
  BY <1>1, <1>2
<1>10. /\ f \in Seq(Nat) /\ Len(f) = n
       /\ \A j \in 1 .. head : f[j] = long[j]
       /\ \A j \in 1 .. Len(p.data) : f[head + j] = p.data[j]
  <2>1. head \in Nat
    BY <1>1
  <2>2. /\ f \in Seq(Nat) /\ Len(f) = head + Len(p.data)
        /\ \A j \in 1 .. head : f[j] = long[j]
        /\ \A j \in 1 .. Len(p.data) : f[head + j] = p.data[j]
    <3>1. long \o p.data \in Seq(Nat) /\ Joined(long, p.data, long \o p.data)
      BY <1>2, <1>8, Concat
    <3> HIDE DEF data
    <3> QED
      BY <1>8, <1>9, <3>1, Zenon DEF Joined
  <2> QED
    BY <1>1, <2>2
<1>11. f = Body(p)
  BY DEF Body, f, long, short, low, instance, data, n
<1> HIDE DEF f, data, def
<1>12. /\ f[1] = Sync /\ f[2] = p.cmd + VersionMask /\ f[3] + 256 * f[4] = n
       /\ \A j \in 1 .. 4 : f[4 + j] = p.id[j]
  <2>1. \A j \in 1 .. 8 : f[j] = short[j]
    <3>1. head \in {8, 10} /\ \A j \in 1 .. head : f[j] = long[j]
      BY <1>1, <1>10
    <3>2. \A j \in 1 .. 8 : j \in 1 .. head
      BY <3>1
    <3> QED
      BY <1>8, <3>1, <3>2
  <2>2. /\ f[1] = low[1] /\ f[2] = low[2] /\ f[3] = low[3] /\ f[4] = low[4]
    BY <1>6, <2>1
  <2>3. ASSUME NEW j \in 1 .. 4 PROVE f[4 + j] = p.id[j]
    <3>1. 4 + j \in 1 .. 8 /\ short[4 + j] = p.id[j]
      BY <1>6
    <3> QED
      BY <2>1, <3>1
  <2> QED
    BY <1>5, <2>2, <2>3
<1>13. ~def.single => f[9] + 256 * f[10] = p.instance
  <2>1. ~def.single => head = 10
    BY <1>1
  <2>2. ~def.single => f[9] = long[9] /\ f[10] = long[10]
    BY <1>10, <2>1
  <2> QED
    BY <1>7, <1>8, <2>2
<1> QED
  BY <1>10, <1>11, <1>12, <1>13 DEF n, head, def

\* A set of numbers has a least one.
LEMMA LeastElement ==
  ASSUME NEW T \in SUBSET Nat, T # {}
  PROVE  \E n \in T : \A m \in T : n <= m
<1>1. IsWellFoundedOn(OpToRel(<, Nat), Nat)
  BY NatLessThanWellFounded
<1>2. PICK n \in T : \A m \in T : ~(<<m, n>> \in OpToRel(<, Nat))
  BY <1>1, WFMin
<1>3. \A m \in T : m < n => <<m, n>> \in OpToRel(<, Nat)
  BY DEF OpToRel
<1>4. \A m \in T : ~(m < n)
  BY <1>2, <1>3
<1>5. \A m \in T : m \in Nat /\ n \in Nat
  OBVIOUS
<1> QED
  BY <1>4, <1>5

\* toBinary: the frame without its checksum, and the checksum.
LEMMA FrameBytes ==
  ASSUME NEW p \in Packets
  PROVE  /\ ToBinary(p) \in Seq(Units) /\ Len(ToBinary(p)) = LengthOf(p) + 1
         /\ \A j \in 1 .. LengthOf(p) : ToBinary(p)[j] = Body(p)[j]
         /\ ToBinary(p)[LengthOf(p) + 1] = ComputeCrc8(0, Body(p))
<1>1. Body(p) \in Seq(Nat) /\ Len(Body(p)) = LengthOf(p)
  BY BodyBytes
<1>2. ToBinary(p) = Append(Body(p), ComputeCrc8(0, Body(p)))
  BY DEF ToBinary, Body
<1>3. Body(p) \in Seq(Units) /\ ComputeCrc8(0, Body(p)) \in Units
  BY <1>1, Widen DEF Units
<1> HIDE DEF Units
<1> QED
  BY <1>1, <1>2, <1>3, AppendProperties

\* Start finds the largest length, since a length is an uint16.
LEMMA LongestObject ==
  ASSUME NEW p \in Packets
  PROVE  MaxUAVObjectLength \in Nat /\ LengthOf(p) <= MaxUAVObjectLength
<1> DEFINE lengths == {HeaderLength(Definitions[id]) + Definitions[id].size : id \in DOMAIN Definitions}
           bounds == {u \in Nat : \A m \in lengths : m <= u}
           own == HeaderLength(Definitions[p.id]) + Definitions[p.id].size
<1>1. \A m \in lengths : m \in Nat /\ m <= 65535
  <2> SUFFICES ASSUME NEW id \in DOMAIN Definitions
               PROVE  /\ HeaderLength(Definitions[id]) + Definitions[id].size \in Nat
                      /\ HeaderLength(Definitions[id]) + Definitions[id].size <= 65535
    OBVIOUS
  <2>1. /\ Definitions[id].size \in Nat
        /\ HeaderLength(Definitions[id]) + Definitions[id].size <= 65535
    BY FramingAssumption
  <2>2. HeaderLength(Definitions[id]) \in Nat
    BY DEF HeaderLength, ShortHeaderLength
  <2> QED
    BY <2>1, <2>2
<1>2. own \in lengths /\ LengthOf(p) <= own
  <2>1. /\ p.id \in DOMAIN Definitions /\ Definitions[p.id].size \in Nat
        /\ HeaderLength(Definitions[p.id]) \in {8, 10}
        /\ Len(p.data) = IF DataCmd(p.cmd) THEN Definitions[p.id].size ELSE 0
        /\ LengthOf(p) = HeaderLength(Definitions[p.id]) + Len(p.data)
    BY PacketType
  <2> QED
    BY <2>1
<1> HIDE DEF lengths, own
<1>3. bounds \in SUBSET Nat /\ bounds # {}
  <2>1. 65535 \in bounds
    BY <1>1
  <2> QED
    BY <2>1
<1>4. PICK u \in bounds : \A v \in bounds : u <= v
  BY <1>3, LeastElement
<1>5. u \in Nat /\ \A m \in lengths : m <= u
  BY <1>4
<1>6. u \in lengths
  <2> SUFFICES ASSUME u \notin lengths PROVE FALSE
    OBVIOUS
  <2>1. u # 0
    BY <1>1, <1>2, <1>5
  <2>2. u - 1 \in bounds
    BY <1>1, <1>5, <2>1
  <2> QED
    BY <1>4, <1>5, <2>2
<1>7. MaxUAVObjectLength = CHOOSE n \in lengths : \A m \in lengths : m <= n
  BY DEF MaxUAVObjectLength, lengths
<1>8. MaxUAVObjectLength \in lengths /\ \A m \in lengths : m <= MaxUAVObjectLength
  BY <1>5, <1>6, <1>7
<1> QED
  <2>1. LengthOf(p) \in Nat
    BY PacketType
  <2> QED
    BY <1>1, <1>2, <1>8, <2>1

-----------------------------------------------------------------------------
(***************************************************************************)
(* packetComplete and newPacketFromBinary on a buffer that starts with the *)
(* frame of p, or with as much of it as there is.                          *)
(***************************************************************************)
StartsWith(b, p) ==
  \A j \in 1 .. Len(b) : j <= LengthOf(p) + 1 => b[j] = ToBinary(p)[j]

LEMMA StartFound ==
  ASSUME NEW p \in Packets, NEW b \in Seq(Units), StartsWith(b, p), Len(b) >= 8
  PROVE  1 \in Offsets(b) /\ LengthAt(b, 1) = LengthOf(p)
<1>1. LengthOf(p) \in Nat /\ LengthOf(p) >= 8
  BY PacketType
<1>2. \A j \in 1 .. 8 : b[j] = Body(p)[j]
  <2>1. \A j \in 1 .. LengthOf(p) : ToBinary(p)[j] = Body(p)[j]
    BY FrameBytes
  <2>2. \A j \in 1 .. 8 : j \in 1 .. LengthOf(p) /\ j \in 1 .. Len(b) /\ j <= LengthOf(p) + 1
    BY <1>1
  <2> QED
    BY <2>1, <2>2 DEF StartsWith
<1>3. b[1] = Sync /\ b[3] + 256 * b[4] = LengthOf(p)
  <2>1. Body(p)[1] = Sync /\ Body(p)[3] + 256 * Body(p)[4] = LengthOf(p)
    BY BodyBytes
  <2>2. b[1] = Body(p)[1] /\ b[3] = Body(p)[3] /\ b[4] = Body(p)[4]
    BY <1>2
  <2> QED
    BY <2>1, <2>2
<1>4. LengthAt(b, 1) = b[3] + 256 * b[4]
  <2>1. SubSeq(b, 3, 4)[1] = b[3] /\ SubSeq(b, 3, 4)[2] = b[4]
    BY SubSeqProperties
  <2> QED
    BY <2>1 DEF LengthAt, ByteArrayToInt16
<1>5. LengthOf(p) <= MaxUAVObjectLength + ShortHeaderLength + 2
  BY <1>1, LongestObject DEF ShortHeaderLength
<1>6. 1 \in 1 .. Len(b) - ShortHeaderLength + 1
  BY DEF ShortHeaderLength
<1> QED
  BY <1>3, <1>4, <1>5, <1>6 DEF Offsets

\* The first frame is found, and only when all of it is there.
LEMMA FrameFound ==
  ASSUME NEW p \in Packets, NEW b \in Seq(Units), StartsWith(b, p),
         NEW found \in PacketComplete(b)
  PROVE  /\ Len(b) >= LengthOf(p) + 1
         /\ found = [from |-> 1, to |-> LengthOf(p) + 1, ok |-> TRUE]
<1> DEFINE n == LengthOf(p)
<1>1. n \in Nat /\ n >= 8
  BY PacketType
<1>2. PICK i \in Offsets(b) :
        /\ \A j \in Offsets(b) : i <= j
        /\ i + LengthAt(b, i) <= Len(b)
        /\ found = [from |-> i, to |-> i + LengthAt(b, i),
                    ok |-> b[i + LengthAt(b, i)]
                             = ComputeCrc8(0, SubSeq(b, i, i + LengthAt(b, i) - 1))]
  BY DEF PacketComplete
<1>3. i \in 1 .. Len(b) - 8 + 1
  BY DEF Offsets, ShortHeaderLength
<1>4. Len(b) >= 8
  BY <1>3
<1>5. 1 \in Offsets(b) /\ LengthAt(b, 1) = n
  BY <1>4, StartFound
<1>6. i = 1
  BY <1>2, <1>3, <1>5
<1>7. Len(b) >= n + 1
  BY <1>1, <1>2, <1>5, <1>6
<1>8. b[n + 1] = ComputeCrc8(0, Body(p))
  BY <1>1, <1>7, FrameBytes DEF StartsWith
<1>9. SubSeq(b, 1, n) = Body(p)
  <2>1. \A j \in 1 .. n : b[j] = Body(p)[j]
    BY <1>1, <1>7, FrameBytes DEF StartsWith
  <2>2. Body(p) \in Seq(Nat) /\ Len(Body(p)) = n
    BY BodyBytes
  <2>3. /\ SubSeq(b, 1, n) \in Seq(Nat) /\ Len(SubSeq(b, 1, n)) = n
        /\ \A j \in 1 .. n : SubSeq(b, 1, n)[j] = b[j]
    <3>1. \A j \in 1 .. n : b[j] \in Nat
      BY <2>1, <2>2
    <3> HIDE DEF n
    <3> QED
      BY <1>1, <3>1, SubSeqProperties
  <2> HIDE DEF n
  <2> QED
    BY <1>1, <2>1, <2>2, <2>3
<1>10. 1 + n - 1 = n /\ 1 + n = n + 1
  BY <1>1
<1> QED
  BY <1>2, <1>5, <1>6, <1>7, <1>8, <1>9, <1>10

\* The fields of the frame at the start of b are those of p.
Fields(b, to, p) ==
  /\ p.id \in DOMAIN Definitions
  /\ SubSeq(b, 1 + 4, 1 + 7) = p.id
  /\ Command(b[1 + 1]) = p.cmd
  /\ (IF Definitions[p.id].single THEN 0
      ELSE ByteArrayToInt16(SubSeq(b, 1 + 8, 1 + 9))) = p.instance
  /\ SubSeq(b, 1 + HeaderLength(Definitions[p.id]), to - 1) = p.data
  /\ ~(to - 1 < HeaderLength(Definitions[p.id])) /\ to - 1 >= HeaderLength(Definitions[p.id])
  /\ ~(DataCmd(p.cmd) /\ Len(p.data) < Definitions[p.id].size)

LEMMA ReadsAs ==
  ASSUME NEW b, NEW to, NEW p, Fields(b, to, p)
  PROVE  NewPacketFromBinary(b, 1, to)
           = [outcome |-> "packet",
              packet |-> [id |-> p.id, cmd |-> p.cmd, instance |-> p.instance,
                          data |-> IF DataCmd(p.cmd) THEN SubSeq(p.data, 1, Definitions[p.id].size)
                                   ELSE <<>>]]
<1> DEFINE id == p.id
           cmd == p.cmd
           instance == p.instance
           data == p.data
<1> HIDE DEF id, cmd, instance, data
<1>1. id = p.id /\ cmd = p.cmd /\ instance = p.instance /\ data = p.data
  BY DEF id, cmd, instance, data
<1> QED
  BY <1>1, Zenon DEF NewPacketFromBinary, Fields

\* newPacketFromBinary undoes toBinary.
LEMMA PacketRead ==
  ASSUME NEW p \in Packets, NEW b \in Seq(Units), StartsWith(b, p),
         Len(b) >= LengthOf(p) + 1
  PROVE  NewPacketFromBinary(b, 1, LengthOf(p) + 1) = [outcome |-> "packet", packet |-> p]
<1> DEFINE n == LengthOf(p)
           def == Definitions[p.id]
           head == HeaderLength(def)
           body == Body(p)
           data == SubSeq(b, 1 + head, (n + 1) - 1)
<1>1. /\ p \in [id : DOMAIN Definitions, cmd : 0 .. 4, instance : Nat, data : Seq(Bytes)]
      /\ def \in [single : BOOLEAN, size : Nat] /\ p.id \in [1 .. 4 -> Bytes]
      /\ def.single => p.instance = 0
      /\ Len(p.data) = IF DataCmd(p.cmd) THEN def.size ELSE 0
      /\ head \in {8, 10} /\ (head = IF def.single THEN 8 ELSE 10)
      /\ n = head + Len(p.data) /\ n \in Nat /\ n >= 8
  BY PacketType
<1>2. /\ body \in Seq(Nat) /\ Len(body) = n
      /\ body[2] = p.cmd + VersionMask
      /\ \A j \in 1 .. 4 : body[4 + j] = p.id[j]
      /\ ~def.single => body[9] + 256 * body[10] = p.instance
      /\ \A j \in 1 .. Len(p.data) : body[head + j] = p.data[j]
  BY BodyBytes
<1>3. \A j \in 1 .. n : b[j] = body[j]
  <2>1. \A j \in 1 .. n : ToBinary(p)[j] = body[j]
    BY FrameBytes
  <2>2. \A j \in 1 .. n : j \in 1 .. Len(b) /\ j <= n + 1
    BY <1>1
  <2> QED
    BY <2>1, <2>2 DEF StartsWith
<1>4. p.id \in DOMAIN Definitions /\ p.cmd \in 0 .. 4 /\ p.data \in Seq(Bytes) /\ Len(p.data) \in Nat
  BY <1>1
<1> HIDE DEF n, head, body
<1>a. \A j \in 1 .. n : b[j] \in Nat
  <2>1. \A j \in 1 .. Len(body) : body[j] \in Nat
    BY <1>2, Elements
  <2> QED
    BY <1>2, <1>3, <2>1
<1>5. SubSeq(b, 1 + 4, 1 + 7) = p.id
  <2>1. \A j \in 5 .. 8 : b[j] \in Nat
    <3>1. \A j \in 5 .. 8 : j \in 1 .. n
      BY <1>1
    <3> QED
      BY <1>a, <3>1
  <2>2. /\ SubSeq(b, 5, 8) \in Seq(Nat) /\ Len(SubSeq(b, 5, 8)) = 4
        /\ \A j \in 1 .. 4 : SubSeq(b, 5, 8)[j] = b[5 + j - 1]
    BY <2>1, SubSeqProperties
  <2>3. \A j \in 1 .. 4 : SubSeq(b, 5, 8)[j] = p.id[j]
    <3> SUFFICES ASSUME NEW j \in 1 .. 4 PROVE SubSeq(b, 5, 8)[j] = p.id[j]
      OBVIOUS
    <3>1. 5 + j - 1 = 4 + j /\ 4 + j \in 1 .. n
      BY <1>1
    <3> QED
      BY <1>2, <1>3, <2>2, <3>1
  <2>4. p.id \in Seq(Bytes) /\ Len(p.id) = 4
    BY <1>1, Four
  <2>5. p.id \in Seq(Nat)
    BY <2>4, BytesNat, Widen
  <2>6. SubSeq(b, 5, 8) = p.id
    BY <2>2, <2>3, <2>4, <2>5, SeqEqual
  <2> QED
    BY <2>6
<1>6. Command(b[1 + 1]) = p.cmd
  <2>1. b[2] = p.cmd + VersionMask
    <3>1. 2 \in 1 .. n
      BY <1>1
    <3> QED
      BY <1>2, <1>3, <3>1
  <2> QED
    BY <1>4, <2>1, CommandReads
<1>7. (IF def.single THEN 0 ELSE ByteArrayToInt16(SubSeq(b, 1 + 8, 1 + 9))) = p.instance
  <2>1. CASE def.single
    BY <1>1, <2>1
  <2>2. CASE ~def.single
    <3>1. n >= 10
      BY <1>1, <1>4, <2>2
    <3>2. b[9] = body[9] /\ b[10] = body[10]
      BY <1>1, <1>3, <3>1
    <3>3. SubSeq(b, 9, 10)[1] = b[9] /\ SubSeq(b, 9, 10)[2] = b[10]
      BY SubSeqProperties
    <3>4. ByteArrayToInt16(SubSeq(b, 9, 10)) = body[9] + 256 * body[10]
      BY <3>2, <3>3 DEF ByteArrayToInt16
    <3>5. ByteArrayToInt16(SubSeq(b, 1 + 8, 1 + 9)) = p.instance
      BY <1>2, <2>2, <3>4
    <3> QED
      BY <2>2, <3>5
  <2> QED
    BY <2>1, <2>2
<1>8. data = p.data
  <2>1. (n + 1) - 1 = n /\ head \in Nat /\ n - (1 + head) + 1 = Len(p.data)
    BY <1>1, <1>4
  <2>2. \A j \in 1 + head .. n : b[j] \in Nat
    BY <1>a, <2>1
  <2>3. SubSeq(b, 1 + head, n) \in Seq(Nat) /\ Len(SubSeq(b, 1 + head, n)) = Len(p.data)
    <3>1. 1 + head \in Int /\ n \in Int
      BY <1>1, <2>1
    <3> DEFINE size == IF 1 + head <= n THEN n - (1 + head) + 1 ELSE 0
    <3>2. SubSeq(b, 1 + head, n) \in Seq(Nat) /\ Len(SubSeq(b, 1 + head, n)) = size
      BY <2>2, <3>1, SubSeqProperties
    <3>3. size = Len(p.data)
      <4> DEFINE l == Len(p.data)
      <4>1. n = head + l /\ l \in Nat /\ head \in Nat
        BY <1>1, <1>4, <2>1
      <4> HIDE DEF l
      <4>2. (IF 1 + head <= n THEN n - (1 + head) + 1 ELSE 0) = l
        BY <4>1
      <4> QED
        BY <4>2 DEF l
    <3> HIDE DEF size
    <3> QED
      BY <3>2, <3>3, Zenon
  <2>4. \A j \in 1 .. Len(p.data) : SubSeq(b, 1 + head, n)[j] = p.data[j]
    <3> SUFFICES ASSUME NEW j \in 1 .. Len(p.data) PROVE SubSeq(b, 1 + head, n)[j] = p.data[j]
      OBVIOUS
    <3>1. 1 + head + j - 1 = head + j /\ head + j \in 1 .. n
      BY <1>1, <1>4, <2>1
    <3>2. SubSeq(b, 1 + head, n)[j] = b[1 + head + j - 1]
      <4>1. 1 + head \in Nat /\ n \in Nat /\ 1 <= 1 + head /\ 1 + head <= n + 1 /\ n <= Len(b)
        BY <1>1, <2>1 DEF n
      <4>2. Cut(b, 1 + head, n, SubSeq(b, 1 + head, n))
        BY <4>1, Part
      <4>3. n + 1 - (1 + head) = Len(p.data)
        BY <1>1, <2>1
      <4> QED
        BY <4>2, <4>3 DEF Cut
    <3> QED
      BY <1>2, <1>3, <3>1, <3>2
  <2>5. p.data \in Seq(Nat)
    BY <1>4, BytesNat, Widen
  <2> QED
    BY <2>1, <2>3, <2>4, <2>5, SeqEqual
<1>9. (n + 1) - 1 >= head /\ ~((n + 1) - 1 < head)
  BY <1>1, <1>4
<1>10. /\ ~(DataCmd(p.cmd) /\ Len(p.data) < def.size)
       /\ (IF DataCmd(p.cmd) THEN SubSeq(p.data, 1, def.size) ELSE <<>>) = p.data
  <2>1. CASE DataCmd(p.cmd)
    <3>1. Len(p.data) = def.size /\ def.size \in Nat
      BY <1>1, <2>1
    <3> QED
      BY <1>4, <2>1, <3>1
  <2>2. CASE ~DataCmd(p.cmd)
    <3>1. p.data = <<>>
      BY <1>1, <1>4, <2>2
    <3> QED
      BY <2>2, <3>1
  <2> QED
    BY <2>1, <2>2
<1>11. p = [id |-> p.id, cmd |-> p.cmd, instance |-> p.instance, data |-> p.data]
  BY <1>1
<1>12. NewPacketFromBinary(b, 1, n + 1)
         = [outcome |-> "packet",
            packet |-> [id |-> p.id, cmd |-> p.cmd, instance |-> p.instance,
                        data |-> IF DataCmd(p.cmd) THEN SubSeq(p.data, 1, def.size) ELSE <<>>]]
  <2>1. 1 + HeaderLength(Definitions[p.id]) = 1 + head
    BY DEF head
  <2>2. SubSeq(b, 1 + HeaderLength(Definitions[p.id]), (n + 1) - 1) = p.data
    BY <1>8, <2>1
  <2>3. ~((n + 1) - 1 < HeaderLength(Definitions[p.id])) /\ (n + 1) - 1 >= HeaderLength(Definitions[p.id])
    BY <1>9 DEF head
  <2>4. Fields(b, n + 1, p)
    BY <1>4, <1>5, <1>6, <1>7, <1>10, <2>2, <2>3, Zenon DEF Fields
  <2> QED
    BY <2>4, ReadsAs
<1> QED
  BY <1>10, <1>11, <1>12 DEF n

-----------------------------------------------------------------------------
(***************************************************************************)
(* A stream holds the frames of the packets from number d + 1 on: rest[k]  *)
(* is what follows the first k frames.                                     *)
(***************************************************************************)
Cuts(rest, packets, d, stream) ==
  /\ rest[d] = stream
  /\ rest[Len(packets)] = <<>>
  /\ \A k \in Nat : d <= k /\ k < Len(packets) =>
       rest[k] = ToBinary(packets[k + 1]) \o rest[k + 1]

Holds(packets, d, stream) ==
  \E rest \in [Nat -> Seq(Units)] : Cuts(rest, packets, d, stream)

LEMMA Assoc ==
  ASSUME NEW a \in Seq(Units), NEW b \in Seq(Units), NEW c \in Seq(Units)
  PROVE  (a \o b) \o c = a \o (b \o c)
<1> DEFINE S == Units
<1> HIDE DEF S
<1>1. a \in Seq(S) /\ b \in Seq(S) /\ c \in Seq(S)
  BY DEF S
<1> QED
  BY <1>1, ConcatAssociative

LEMMA HoldsNothing == Holds(<<>>, 0, <<>>)
<1> DEFINE rest == [k \in Nat |-> <<>>]
<1>1. rest \in [Nat -> Seq(Units)] /\ rest[0] = <<>>
  OBVIOUS
<1>2. Len(<<>>) = 0
  OBVIOUS
<1> HIDE DEF rest
<1>3. \A k \in Nat : ~(0 <= k /\ k < 0)
  OBVIOUS
<1>4. Cuts(rest, <<>>, 0, <<>>)
  BY <1>1, <1>2, <1>3 DEF Cuts
<1> QED
  BY <1>1, <1>4 DEF Holds

\* Another frame behind the others.
LEMMA HoldsMore ==
  ASSUME NEW packets \in Seq(Packets), NEW d \in Nat, d <= Len(packets),
         NEW stream \in Seq(Units), Holds(packets, d, stream), NEW p \in Packets
  PROVE  Holds(Append(packets, p), d, stream \o ToBinary(p))
<1> DEFINE f == ToBinary(p)
           n == Len(packets)
           more == Append(packets, p)
<1>1. n \in Nat /\ Len(more) = n + 1 /\ more[n + 1] = p /\ \A k \in 1 .. n : more[k] = packets[k]
  BY AppendProperties
<1>2. f \in Seq(Units)
  BY FrameBytes
<1>3. PICK rest \in [Nat -> Seq(Units)] : Cuts(rest, packets, d, stream)
  BY DEF Holds
<1>4. /\ rest[d] = stream /\ rest[n] = <<>>
      /\ \A k \in Nat : d <= k /\ k < n => rest[k] = ToBinary(packets[k + 1]) \o rest[k + 1]
  BY <1>3 DEF Cuts
<1>5. \A k \in Nat : rest[k] \in Seq(Units)
  OBVIOUS
<1>6. \A k \in 1 .. n : packets[k] \in Packets
  OBVIOUS
<1> HIDE DEF f, n, more
<1> DEFINE next == [k \in Nat |-> IF k <= n THEN rest[k] \o f ELSE <<>>]
<1>7. next \in [Nat -> Seq(Units)]
  <2>1. \A k \in Nat : rest[k] \o f \in Seq(Units) /\ <<>> \in Seq(Units)
    BY <1>2, <1>5, Concat
  <2> QED
    BY <2>1
<1>8. /\ \A k \in Nat : k <= n => next[k] = rest[k] \o f
      /\ \A k \in Nat : ~(k <= n) => next[k] = <<>>
  OBVIOUS
<1> HIDE DEF next
<1>9. next[d] = stream \o f
  BY <1>4, <1>8 DEF n
<1>10. next[n + 1] = <<>>
  <2>1. n + 1 \in Nat /\ ~(n + 1 <= n)
    BY <1>1
  <2> QED
    BY <1>8, <2>1
<1>11. ASSUME NEW k \in Nat, d <= k, k < n + 1
       PROVE  next[k] = ToBinary(more[k + 1]) \o next[k + 1]
  <2>1. CASE k = n
    <3>1. n <= n
      BY <1>1
    <3>2. next[n] = <<>> \o f
      BY <1>1, <1>4, <1>8, <3>1
    <3>3. <<>> \o f = f /\ f \o <<>> = f
      BY <1>2, ConcatEmptySeq
    <3> QED
      BY <1>1, <1>10, <2>1, <3>2, <3>3 DEF f
  <2>2. CASE k # n
    <3>1. k < n /\ k <= n /\ k + 1 <= n /\ k + 1 \in Nat /\ k + 1 \in 1 .. n
      BY <1>1, <1>11, <2>2
    <3>2. rest[k] = ToBinary(packets[k + 1]) \o rest[k + 1]
      BY <1>4, <1>11, <3>1
    <3>3. next[k] = rest[k] \o f /\ next[k + 1] = rest[k + 1] \o f
      BY <1>8, <3>1
    <3>4. more[k + 1] = packets[k + 1] /\ packets[k + 1] \in Packets
      BY <1>1, <1>6, <3>1
    <3>5. ToBinary(packets[k + 1]) \in Seq(Units) /\ rest[k + 1] \in Seq(Units)
      BY <1>5, <3>1, <3>4, FrameBytes
    <3>6. (ToBinary(packets[k + 1]) \o rest[k + 1]) \o f
            = ToBinary(packets[k + 1]) \o (rest[k + 1] \o f)
      BY <1>2, <3>5, Assoc
    <3> QED
      BY <3>2, <3>3, <3>4, <3>6
  <2> QED
    BY <2>1, <2>2
<1>12. Cuts(next, more, d, stream \o f)
  BY <1>1, <1>9, <1>10, <1>11 DEF Cuts
<1> QED
  BY <1>7, <1>12 DEF Holds, f, more

\* The first frame, and the others behind it.
LEMMA HoldsFirst ==
  ASSUME NEW packets \in Seq(Packets), NEW d \in Nat, d < Len(packets),
         NEW stream, Holds(packets, d, stream)
  PROVE  \E t \in Seq(Units) :
           stream = ToBinary(packets[d + 1]) \o t /\ Holds(packets, d + 1, t)
<1>1. PICK rest \in [Nat -> Seq(Units)] : Cuts(rest, packets, d, stream)
  BY DEF Holds
<1>2. Len(packets) \in Nat /\ d + 1 \in Nat /\ rest[d + 1] \in Seq(Units)
  OBVIOUS
<1>3. stream = ToBinary(packets[d + 1]) \o rest[d + 1]
  <2>1. d <= d
    OBVIOUS
  <2> QED
    BY <1>1, <2>1, Zenon DEF Cuts
<1>4. \A k \in Nat : d + 1 <= k => d <= k
  OBVIOUS
<1>5. Cuts(rest, packets, d + 1, rest[d + 1])
  BY <1>1, <1>4 DEF Cuts
<1> QED
  BY <1>2, <1>3, <1>5 DEF Holds

-----------------------------------------------------------------------------
(***************************************************************************)
(* Bytes go from the wire to the buffer, and a frame leaves the buffer.    *)
(***************************************************************************)
LEMMA Split ==
  ASSUME NEW s \in Seq(Units), NEW n \in Nat, n <= Len(s)
  PROVE  /\ SubSeq(s, 1, n) \in Seq(Units) /\ SubSeq(s, n + 1, Len(s)) \in Seq(Units)
         /\ SubSeq(s, 1, n) \o SubSeq(s, n + 1, Len(s)) = s
<1> DEFINE S == Units
           a == SubSeq(s, 1, n)
           b == SubSeq(s, n + 1, Len(s))
<1> HIDE DEF S
<1>1. s \in Seq(S) /\ Len(s) \in Nat
  BY DEF S
<1>2. a \in Seq(S) /\ Cut(s, 1, n, a)
  BY <1>1, Part
<1>3. b \in Seq(S) /\ Cut(s, n + 1, Len(s), b)
  BY <1>1, Part
<1> HIDE DEF a, b
<1>4. a \o b \in Seq(S) /\ Joined(a, b, a \o b)
  BY <1>2, <1>3, Concat
<1>5. Len(a) = n /\ \A j \in 1 .. n : a[j] = s[j]
  <2>1. \A j \in 1 .. n : 1 + j - 1 = j
    OBVIOUS
  <2> QED
    BY <1>2, <2>1 DEF Cut
<1>6. /\ Len(b) = Len(s) - n
      /\ \A j \in 1 .. Len(s) - n : b[j] = s[n + j]
  <2>1. Len(s) + 1 - (n + 1) = Len(s) - n /\ \A j \in 1 .. Len(s) - n : n + 1 + j - 1 = n + j
    BY <1>1
  <2> QED
    BY <1>3, <2>1 DEF Cut
<1>7. Len(a \o b) = Len(s)
  BY <1>1, <1>4, <1>5, <1>6 DEF Joined
<1>8. ASSUME NEW j \in 1 .. Len(s) PROVE (a \o b)[j] = s[j]
  <2>1. CASE j <= n
    BY <1>4, <1>5, <2>1 DEF Joined
  <2>2. CASE ~(j <= n)
    <3>1. j - n \in 1 .. Len(s) - n /\ n + (j - n) = j
      BY <1>1, <2>2
    <3>2. (a \o b)[n + (j - n)] = b[j - n]
      BY <1>4, <1>5, <1>6, <3>1 DEF Joined
    <3> QED
      BY <1>6, <3>1, <3>2
  <2> QED
    BY <2>1, <2>2
<1>9. a \o b = s
  BY <1>1, <1>4, <1>7, <1>8, SeqEqual
<1> QED
  BY <1>2, <1>3, <1>9 DEF S, a, b

LEMMA SplitBefore ==
  ASSUME NEW s \in Seq(Units), NEW n \in Nat, n <= Len(s), NEW w \in Seq(Units)
  PROVE  SubSeq(s, 1, n) \o (SubSeq(s, n + 1, Len(s)) \o w) = s \o w
<1> DEFINE a == SubSeq(s, 1, n)
           b == SubSeq(s, n + 1, Len(s))
<1>1. a \in Seq(Units) /\ b \in Seq(Units) /\ a \o b = s
  BY Split
<1> HIDE DEF a, b
<1>2. a \o (b \o w) = (a \o b) \o w
  <2>1. a \in Seq(Units) /\ b \in Seq(Units)
    BY <1>1
  <2> QED
    BY <2>1, Assoc
<1>3. a \o (b \o w) = s \o w
  BY <1>1, <1>2
<1> QED
  BY <1>3 DEF a, b

LEMMA Stripped ==
  ASSUME NEW b \in Seq(Units), NEW w \in Seq(Units), NEW f \in Seq(Units), NEW t \in Seq(Units),
         b \o w = f \o t, Len(b) >= Len(f)
  PROVE  /\ SubSeq(b, Len(f) + 1, Len(b)) \in Seq(Units)
         /\ SubSeq(b, Len(f) + 1, Len(b)) \o w = t
<1> DEFINE n == Len(f)
           x == SubSeq(b, 1, n)
           y == SubSeq(b, n + 1, Len(b))
<1>1. n \in Nat /\ n <= Len(b)
  OBVIOUS
<1> HIDE DEF n
<1>2. x \in Seq(Units) /\ y \in Seq(Units) /\ x \o y = b
  BY <1>1, Split
<1>3. Cut(b, 1, n, x)
  <2> DEFINE S == Units
  <2> HIDE DEF S
  <2>1. b \in Seq(S)
    BY DEF S
  <2> QED
    BY <1>1, <2>1, Part
<1>4. x \o (y \o w) = f \o t
  <2>1. x \o (y \o w) = b \o w
    BY <1>1, SplitBefore, Zenon
  <2> QED
    BY <2>1, Zenon
<1> HIDE DEF x, y
<1>5. x = f
  <2>1. Len(x) = n /\ \A j \in 1 .. n : x[j] = b[j]
    <3>1. \A j \in 1 .. n : 1 + j - 1 = j
      BY <1>1
    <3> QED
      BY <1>1, <1>3, <3>1 DEF Cut
  <2>2. \A j \in 1 .. n : b[j] = (b \o w)[j] /\ f[j] = (f \o t)[j]
    <3>1. Joined(b, w, b \o w) /\ Joined(f, t, f \o t)
      BY Concat
    <3>2. \A j \in 1 .. n : j \in 1 .. Len(b)
      BY <1>1
    <3> QED
      BY <3>1, <3>2 DEF Joined, n
  <2>3. Len(x) = Len(f) /\ \A j \in 1 .. Len(x) : x[j] = f[j]
    BY <2>1, <2>2 DEF n
  <2> QED
    BY <1>2, <2>3, SeqEqual
<1>6. y \o w \in Seq(Units)
  BY <1>2, Concat
<1>7. f \o (y \o w) = f \o t
  BY <1>4, <1>5
<1>8. y \o w = t
  BY <1>6, <1>7, ConcatSimplifications
<1> QED
  BY <1>2, <1>8 DEF y, n

\* The frame of p is at the start of b followed by w.
LEMMA Starts ==
  ASSUME NEW b \in Seq(Units), NEW w \in Seq(Units), NEW p \in Packets, NEW t \in Seq(Units),
         b \o w = ToBinary(p) \o t
  PROVE  StartsWith(b, p)
<1> DEFINE f == ToBinary(p)
<1>1. f \in Seq(Units) /\ Len(f) = LengthOf(p) + 1 /\ LengthOf(p) \in Nat
  BY FrameBytes, PacketType
<1> HIDE DEF f
<1>2. Joined(b, w, b \o w) /\ Joined(f, t, f \o t)
  BY <1>1, Concat
<1>3. ASSUME NEW j \in 1 .. Len(b), j <= LengthOf(p) + 1 PROVE b[j] = f[j]
  <2>1. j \in 1 .. Len(f)
    BY <1>1, <1>3
  <2> QED
    BY <1>2, <2>1 DEF Joined, f
<1> QED
  BY <1>3 DEF StartsWith, f

-----------------------------------------------------------------------------
(***************************************************************************)
(* The invariant: on a clean link the bytes in the buffer and on the wire  *)
(* are the frames of the packets that are not yet delivered.               *)
(***************************************************************************)
CleanLink ==
  /\ reader # "panic"
  /\ sent \in Seq(Packets) /\ delivered \in Seq(Packets) /\ Len(delivered) <= Len(sent)
  /\ buffer \in Seq(Units) /\ wire \in Seq(Units)
  /\ Holds(sent, Len(delivered), buffer \o wire)

Inv ==
  /\ scenario \in Scenarios
  /\ faults \in [skipped : Nat, corrupt : Nat]
  /\ Clean => CleanLink

LEMMA InitInv == Init => Inv
<1> SUFFICES ASSUME Init PROVE Inv
  OBVIOUS
<1>1. scenario \in Scenarios /\ faults \in [skipped : Nat, corrupt : Nat]
  BY DEF Init
<1>2. /\ reader # "panic" /\ sent = <<>> /\ delivered = <<>> /\ buffer = <<>> /\ wire = <<>>
  BY DEF Init
<1>3. Len(delivered) = 0 /\ Len(sent) = 0 /\ buffer \o wire = <<>>
  BY <1>2
<1>4. <<>> \in Seq(Packets) /\ <<>> \in Seq(Units)
  OBVIOUS
<1>5. Holds(sent, Len(delivered), buffer \o wire)
  BY <1>2, <1>3, HoldsNothing
<1>6. CleanLink
  BY <1>2, <1>3, <1>4, <1>5 DEF CleanLink
<1> QED
  BY <1>1, <1>6 DEF Inv

\* SendPacket: the frame goes behind everything that is not delivered.
LEMMA SendClean ==
  ASSUME CleanLink, NEW p \in Packets, SendPacket(p)
  PROVE  CleanLink'
<1> DEFINE f == ToBinary(p)
<1>1. /\ sent' = Append(sent, p) /\ wire' = wire \o f
      /\ buffer' = buffer /\ reader' = reader /\ delivered' = delivered
  BY DEF SendPacket
<1>2. /\ reader # "panic"
      /\ sent \in Seq(Packets) /\ delivered \in Seq(Packets) /\ Len(delivered) <= Len(sent)
      /\ buffer \in Seq(Units) /\ wire \in Seq(Units)
      /\ Holds(sent, Len(delivered), buffer \o wire)
  BY DEF CleanLink
<1>3. f \in Seq(Units)
  BY FrameBytes
<1>4. /\ sent' \in Seq(Packets) /\ Len(sent') = Len(sent) + 1
  BY <1>1, <1>2, AppendProperties
<1>5. Len(delivered') <= Len(sent') /\ Len(delivered) \in Nat
  BY <1>1, <1>2, <1>4
<1>6. buffer \o wire \in Seq(Units) /\ wire' \in Seq(Units)
  BY <1>1, <1>2, <1>3, Concat
<1>7. Holds(sent', Len(delivered), (buffer \o wire) \o f)
  BY <1>1, <1>2, <1>5, <1>6, HoldsMore
<1>8. (buffer \o wire) \o f = buffer' \o wire'
  BY <1>1, <1>2, <1>3, Assoc
<1>9. Holds(sent', Len(delivered'), buffer' \o wire')
  BY <1>1, <1>7, <1>8
<1> QED
  BY <1>1, <1>2, <1>4, <1>5, <1>6, <1>9 DEF CleanLink

\* link.Read: what is in the buffer and on the wire is what it was.
LEMMA ReadClean ==
  ASSUME CleanLink, NEW n \in Nat, ReadReport(n)
  PROVE  CleanLink'
<1>1. /\ n <= Len(wire)
      /\ buffer' = buffer \o SubSeq(wire, 1, n) /\ wire' = SubSeq(wire, n + 1, Len(wire))
      /\ reader' = "scan" /\ sent' = sent /\ delivered' = delivered
  BY DEF ReadReport
<1>2. /\ sent \in Seq(Packets) /\ delivered \in Seq(Packets) /\ Len(delivered) <= Len(sent)
      /\ buffer \in Seq(Units) /\ wire \in Seq(Units)
      /\ Holds(sent, Len(delivered), buffer \o wire)
  BY DEF CleanLink
<1> DEFINE a == SubSeq(wire, 1, n)
           b == SubSeq(wire, n + 1, Len(wire))
<1>3. a \in Seq(Units) /\ b \in Seq(Units) /\ a \o b = wire
  BY <1>1, <1>2, Split
<1> HIDE DEF a, b
<1>4. buffer' = buffer \o a /\ wire' = b
  BY <1>1 DEF a, b
<1>5. buffer' \in Seq(Units) /\ wire' \in Seq(Units)
  BY <1>2, <1>3, <1>4, Concat
<1>6. (buffer \o a) \o b = buffer \o (a \o b)
  BY <1>2, <1>3, Assoc
<1>7. Holds(sent', Len(delivered'), buffer' \o wire')
  BY <1>1, <1>2, <1>3, <1>4, <1>6
<1>8. reader' # "panic"
  BY <1>1
<1> QED
  BY <1>1, <1>2, <1>5, <1>7, <1>8 DEF CleanLink

\* The frame that is taken is that of the next packet, and it is delivered.
LEMMA TakeClean ==
  ASSUME CleanLink, TakeFrame
  PROVE  CleanLink' /\ Channel!Deliver
<1> DEFINE d == Len(delivered)
<1>1. PICK found \in PacketComplete(buffer) :
        /\ buffer' = Strip(found)
        /\ delivered' = IF Make(found).outcome = "packet"
                        THEN Append(delivered, Make(found).packet) ELSE delivered
        /\ reader' = IF Make(found).outcome = "panic" THEN "panic" ELSE "scan"
  BY DEF TakeFrame
<1>2. sent' = sent /\ wire' = wire
  BY DEF TakeFrame
<1>3. /\ sent \in Seq(Packets) /\ delivered \in Seq(Packets) /\ d <= Len(sent)
      /\ buffer \in Seq(Units) /\ wire \in Seq(Units)
      /\ Holds(sent, d, buffer \o wire)
  BY DEF CleanLink
<1>4. d \in Nat /\ Len(sent) \in Nat
  BY <1>3
<1>5. d < Len(sent)
  <2> SUFFICES ASSUME d = Len(sent) PROVE FALSE
    BY <1>3, <1>4
  <2>1. buffer \o wire = <<>>
    BY <1>3 DEF Holds, Cuts
  <2>2. Joined(buffer, wire, buffer \o wire)
    BY <1>3, Concat
  <2>3. Len(buffer) = 0
    BY <1>3, <2>1, <2>2 DEF Joined
  <2>4. PICK i \in Offsets(buffer) : TRUE
    BY <1>1 DEF PacketComplete
  <2>5. i \in 1 .. Len(buffer) - 8 + 1
    BY <2>4 DEF Offsets, ShortHeaderLength
  <2> QED
    BY <2>3, <2>5
<1> DEFINE p == sent[d + 1]
           f == ToBinary(p)
<1>6. p \in Packets
  BY <1>3, <1>4, <1>5
<1>7. PICK t \in Seq(Units) : buffer \o wire = f \o t /\ Holds(sent, d + 1, t)
  BY <1>3, <1>4, <1>5, HoldsFirst
<1> HIDE DEF d, p
<1>8. StartsWith(buffer, p)
  BY <1>3, <1>6, <1>7, Starts
<1>9. /\ Len(buffer) >= LengthOf(p) + 1
      /\ found = [from |-> 1, to |-> LengthOf(p) + 1, ok |-> TRUE]
  BY <1>1, <1>3, <1>6, <1>8, FrameFound
<1>10. Make(found) = [outcome |-> "packet", packet |-> p]
  <2>1. found.ok /\ found.from = 1 /\ found.to = LengthOf(p) + 1
    BY <1>9
  <2>2. Make(found) = NewPacketFromBinary(buffer, 1, LengthOf(p) + 1)
    BY <2>1 DEF Make
  <2> QED
    BY <1>3, <1>6, <1>8, <1>9, <2>2, PacketRead
<1>11. Make(found).outcome = "packet" /\ Make(found).packet = p
  BY <1>10
<1>12. delivered' = Append(delivered, p) /\ reader' = "scan"
  BY <1>1, <1>11
<1>13. buffer' \in Seq(Units) /\ buffer' \o wire' = t
  <2>1. f \in Seq(Units) /\ Len(f) = LengthOf(p) + 1
    BY <1>6, FrameBytes
  <2>2. buffer' = SubSeq(buffer, Len(f) + 1, Len(buffer))
    BY <1>1, <1>9, <2>1 DEF Strip
  <2> HIDE DEF f
  <2> QED
    <3>1. Len(buffer) >= Len(f)
      BY <1>9, <2>1
    <3>2. /\ SubSeq(buffer, Len(f) + 1, Len(buffer)) \in Seq(Units)
          /\ SubSeq(buffer, Len(f) + 1, Len(buffer)) \o wire = t
      BY <1>3, <1>7, <2>1, <3>1, Stripped, Zenon
    <3> QED
      BY <1>2, <2>2, <3>2
<1>14. delivered' \in Seq(Packets) /\ Len(delivered') = d + 1
  BY <1>3, <1>6, <1>12, AppendProperties DEF d
<1>15. Holds(sent', Len(delivered'), buffer' \o wire')
  BY <1>2, <1>7, <1>13, <1>14
<1>16. CleanLink'
  BY <1>2, <1>3, <1>4, <1>5, <1>12, <1>13, <1>14, <1>15 DEF CleanLink
<1>17. Channel!Deliver
  BY <1>2, <1>5, <1>12 DEF Channel!Deliver, d, p
<1> QED
  BY <1>16, <1>17

-----------------------------------------------------------------------------
(***************************************************************************)
(* Every step.                                                             *)
(***************************************************************************)

\* Nothing changes that CleanLink speaks of but the reader's state.
LEMMA SameClean ==
  ASSUME CleanLink, reader' # "panic", UNCHANGED <<sent, wire, buffer, delivered>>
  PROVE  CleanLink'
BY DEF CleanLink

LEMMA ScenarioType ==
  ASSUME NEW s \in Scenarios
  PROVE  /\ s.packets \subseteq Packets
         /\ s.report \in Nat /\ s.skipped \in Nat /\ s.corrupt \in Nat
BY FramingAssumption

\* A step on a clean link keeps CleanLink and is a step of the channel, or
\* leaves sent and delivered as they are.
LEMMA CleanStep ==
  ASSUME Inv, Next, Clean
  PROVE  CleanLink' /\ (Channel!Next \/ UNCHANGED <<sent, delivered>>)
<1>1. /\ scenario \in Scenarios /\ CleanLink
      /\ faults.skipped \in Nat /\ faults.corrupt \in Nat
      /\ scenario.skipped = 0 /\ scenario.corrupt = 0
  BY DEF Inv, Clean
<1>2. ASSUME NEW p \in scenario.packets, SendPacket(p)
      PROVE  CleanLink' /\ Channel!Next
  <2>1. p \in Packets /\ p \in UNION {s.packets : s \in Scenarios}
    BY <1>1, ScenarioType
  <2>2. CleanLink'
    BY <1>1, <1>2, <2>1, SendClean
  <2>3. Channel!Send(p)
    BY <1>2 DEF SendPacket, Channel!Send
  <2> QED
    BY <2>1, <2>2, <2>3 DEF Channel!Next
<1>3. ASSUME SkipByte PROVE FALSE
  BY <1>1, <1>3 DEF SkipByte
<1>4. ASSUME NEW i \in DOMAIN wire, NEW b \in CorruptBytes, CorruptByte(i, b) PROVE FALSE
  BY <1>1, <1>4 DEF CorruptByte
<1>5. ASSUME OpenLink PROVE CleanLink' /\ UNCHANGED <<sent, delivered>>
  <2>1. reader' # "panic" /\ UNCHANGED <<sent, wire, buffer, delivered>>
    BY <1>5 DEF OpenLink
  <2> QED
    BY <1>1, <2>1, SameClean
<1>6. ASSUME NEW n \in 1 .. scenario.report, ReadReport(n)
      PROVE  CleanLink' /\ UNCHANGED <<sent, delivered>>
  <2>1. n \in Nat
    BY <1>1, ScenarioType
  <2>2. CleanLink'
    BY <1>1, <1>6, <2>1, ReadClean
  <2> QED
    BY <1>6, <2>2 DEF ReadReport
<1>7. ASSUME NeedMore PROVE CleanLink' /\ UNCHANGED <<sent, delivered>>
  <2>1. reader' # "panic" /\ UNCHANGED <<sent, wire, buffer, delivered>>
    BY <1>7 DEF NeedMore
  <2> QED
    BY <1>1, <2>1, SameClean
<1>8. ASSUME TakeFrame PROVE CleanLink' /\ Channel!Next
  BY <1>1, <1>8, TakeClean DEF Channel!Next
<1> QED
  BY <1>2, <1>3, <1>4, <1>5, <1>6, <1>7, <1>8 DEF Next

LEMMA NextInv ==
  ASSUME Inv, [Next]_vars
  PROVE  Inv' /\ [Clean => Channel!Next]_<<sent, delivered>>
<1>1. CASE UNCHANGED vars
  <2>1. UNCHANGED <<scenario, sent, wire, buffer, reader, delivered, faults>>
    BY <1>1 DEF vars
  <2>2. Inv'
    BY <2>1 DEF Inv, Clean, CleanLink
  <2> QED
    BY <2>1, <2>2
<1>2. CASE Next
  <2>1. scenario' = scenario
    BY <1>2 DEF Next, SendPacket, SkipByte, CorruptByte, OpenLink, ReadReport, NeedMore, TakeFrame
  <2>2. faults' \in [skipped : Nat, corrupt : Nat]
    <3>0. faults \in [skipped : Nat, corrupt : Nat]
      BY DEF Inv
    <3>1. CASE UNCHANGED faults
      BY <3>0, <3>1
    <3>2. ASSUME SkipByte \/ \E i \in DOMAIN wire, b \in CorruptBytes : CorruptByte(i, b)
          PROVE  faults' \in [skipped : Nat, corrupt : Nat]
      <4>1. \/ faults' = [faults EXCEPT !.skipped = @ + 1]
            \/ faults' = [faults EXCEPT !.corrupt = @ + 1]
        BY <3>2 DEF SkipByte, CorruptByte
      <4> QED
        BY <3>0, <4>1
    <3> QED
      BY <1>2, <3>1, <3>2 DEF Next, SendPacket, OpenLink, ReadReport, NeedMore, TakeFrame
  <2>3. Clean => CleanLink' /\ (Channel!Next \/ UNCHANGED <<sent, delivered>>)
    BY <1>2, CleanStep
  <2>4. Clean' <=> Clean
    BY <2>1 DEF Clean
  <2>5. Inv'
    BY <2>1, <2>2, <2>3, <2>4 DEF Inv
  <2> QED
    BY <2>3, <2>5
<1> QED
  BY <1>1, <1>2

\* On a link that loses and changes nothing, the reader goroutine delivers
\* every packet as it was sent, each once and in order (packetComplete,
\* newPacketFromBinary and the loop of start), for any definitions whose
\* frames have a length, any packets of them and any reports.
THEOREM ReliableChannelTheorem == Spec => ReliableChannel
<1>1. Init => (Clean => Channel!Init)
  BY DEF Init, Channel!Init
<1>2. Init => Inv
  BY InitInv
<1>3. Inv /\ [Next]_vars => Inv' /\ [Clean => Channel!Next]_<<sent, delivered>>
  BY NextInv
<1> QED
  BY <1>1, <1>2, <1>3, PTL DEF Spec, ReliableChannel

\* On such a link no slice of newPacketFromBinary is out of range.
THEOREM CleanLinkNeverPanics == Spec => [](Clean => reader # "panic")
<1>1. Inv => (Clean => reader # "panic")
  BY DEF Inv, CleanLink
<1>2. Init => Inv
  BY InitInv
<1>3. Inv /\ [Next]_vars => Inv'
  BY NextInv
<1> QED
  BY <1>1, <1>2, <1>3, PTL DEF Spec
=============================================================================
