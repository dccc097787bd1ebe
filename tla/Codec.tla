------------------------------- MODULE Codec -------------------------------
(***************************************************************************)
(* The data of a packet between its bytes and the map that clients see     *)
(* (uavtalk/uavtalktomap.go, uavtalk/maptouavtalk.go).                     *)
(*                                                                         *)
(* A definition is a sequence of fields [name, type, elements, names,      *)
(* options], in wire order.  A value is tagged with its Go kind: "num" (a  *)
(* number), "str", "nil", "arr" (a slice), "map".  Bytes are digits of     *)
(* base ByteBase, 256 in the code, so that all of them can be enumerated.  *)
(***************************************************************************)
EXTENDS Integers, Sequences, SequencesExt

CONSTANTS
  ByteBase,      \* number of values of a byte
  FieldLists,    \* the field lists of the definitions
  Inputs(_)      \* data that clients send for a definition: functions of names

VARIABLES
  fields,  \* the definition in use
  wire,    \* the bytes received from the flight controller
  data,    \* the map they are converted to, or a client's data
  out,     \* the outcome of the conversion back to bytes
  stage    \* "idle", "read", "echoed", "set", "refused" or "panic"

vars == <<fields, wire, data, out, stage>>

Size(type) ==
  CASE type \in {"int8", "uint8", "enum"} -> 1
    [] type \in {"int16", "uint16"} -> 2
    [] type \in {"int32", "uint32", "float"} -> 4

ByteLength(fs) == FoldLeft(LAMBDA n, f : n + Size(f.type) * f.elements, 0, fs)

Kind(value) == value[1]
Content(value) == value[2]

Num(n) == <<"num", n>>
Str(s) == <<"str", s>>
Nil == <<"nil", <<>>>>
Arr(s) == <<"arr", s>>
Map(f) == <<"map", f>>

-----------------------------------------------------------------------------
(***************************************************************************)
(* Bytes and numbers, little endian.                                       *)
(***************************************************************************)
Span(bytes) == ByteBase ^ bytes

ToBytes(n, size) == [i \in 1 .. size |-> (n \div Span(i - 1)) % ByteBase]

FromBytes(s) == FoldRight(LAMBDA byte, n : byte + ByteBase * n, s, 0)

Signed(n, size) == IF n < Span(size) \div 2 THEN n ELSE n - Span(size)

\* readFromUAVTalk: the types that it reads into signed variables; the bits
\* of a float32 are a one-to-one code, of which this keeps the size.
ReadSigned(type) == type \in {"int32", "float"}

Failure(why) == [ok |-> FALSE, why |-> why, v |-> Nil]
Success(v) == [ok |-> TRUE, why |-> "none", v |-> v]

\* The value at an offset; too few bytes are an error, and an enum beyond
\* its options an index out of range.
ReadFromUAVTalk(field, bytes, offset) ==
  LET size == Size(field.type)
      n == FromBytes(SubSeq(bytes, offset + 1, offset + size))
  IN  CASE offset + size > Len(bytes) -> Failure("error")
        [] offset + size <= Len(bytes) /\ field.type = "enum" ->
             IF n < Len(field.options) THEN Success(Str(field.options[n + 1]))
             ELSE Failure("panic")
        [] offset + size <= Len(bytes) /\ field.type # "enum" ->
             Success(Num(IF ReadSigned(field.type) THEN Signed(n, size) ELSE n))

Offset(fs, i, j) == ByteLength(SubSeq(fs, 1, i - 1)) + Size(fs[i].type) * (j - 1)

\* One value, a slice, or a map from the element names.
UAVTalkToInterface(fs, bytes, i) ==
  LET field == fs[i]
      read == [j \in 1 .. field.elements |-> ReadFromUAVTalk(field, bytes, Offset(fs, i, j)).v]
  IN  IF field.elements = 1 THEN read[1]
      ELSE IF field.names = <<>> THEN Arr(read)
      ELSE Map([name \in Range(field.names) |->
                  read[CHOOSE j \in DOMAIN field.names :
                         /\ field.names[j] = name
                         /\ \A k \in DOMAIN field.names : field.names[k] = name => k <= j]])

\* The elements that cannot be read, in reading order: the first one decides.
Unreadable(fs, bytes) ==
  SelectSeq(FlattenSeq([i \in DOMAIN fs |->
              [j \in 1 .. fs[i].elements |-> ReadFromUAVTalk(fs[i], bytes, Offset(fs, i, j))]]),
            LAMBDA r : ~r.ok)

UAVTalkToMap(fs, bytes) ==
  IF Unreadable(fs, bytes) # <<>> THEN Unreadable(fs, bytes)[1]
  ELSE Success([name \in {f.name : f \in Range(fs)} |->
                  UAVTalkToInterface(fs, bytes, CHOOSE i \in DOMAIN fs : fs[i].name = name)])

-----------------------------------------------------------------------------
(***************************************************************************)
(* From the map to bytes.  An outcome is the bytes, or an error.           *)
(***************************************************************************)
Written(bytes) == [ok |-> TRUE, bytes |-> bytes]
WriteError == [ok |-> FALSE, bytes |-> <<>>]

\* The index of the first option that is equal.
ValueForEnumString(field, option) ==
  {i \in DOMAIN field.options : /\ field.options[i] = option
                                /\ \A j \in 1 .. i - 1 : field.options[j] # option}

WriteEnum(field, option) ==
  IF ValueForEnumString(field, option) = {} THEN WriteError
  ELSE Written(<<(CHOOSE i \in ValueForEnumString(field, option) : TRUE) - 1>>)

\* Mutant: a number that the variable cannot hold is cut off at its bounds.
ConvertSaturating(type, n) ==
  LET top == IF type \in {"int16", "int32"} THEN Span(Size(type)) \div 2 - 1
             ELSE Span(Size(type)) - 1
  IN  (IF n > top THEN top ELSE n) % Span(Size(type))

\* The conversions of a float64: gc goes through a wider signed integer and
\* keeps the low bits.
Convert(type, n) == n % Span(Size(type))

\* A value of the wrong type: the failed type assertion is recovered from,
\* and the function returns no error, having written nothing.
WriteRecovered(field) == Written(<<>>)

WriteToUAVTalk(field, value) ==
  CASE field.type = "enum" /\ Kind(value) = "str" -> WriteEnum(field, Content(value))
    [] field.type # "enum" /\ Kind(value) = "num" ->
         Written(ToBytes(Convert(field.type, Content(value)), Size(field.type)))
    [] OTHER -> WriteRecovered(field)

Concat(results) ==
  IF \E i \in DOMAIN results : ~results[i].ok THEN WriteError
  ELSE Written(FlattenSeq([i \in DOMAIN results |-> results[i].bytes]))

Lookup(m, name) == IF name \in DOMAIN m THEN m[name] ELSE Nil

\* Mutant: off by one, the last element of a map is left out.
ElementsButLast(field, value) ==
  [i \in 1 .. Len(field.names) - 1 |-> WriteToUAVTalk(field, Lookup(Content(value), field.names[i]))]

Elements(field, value) ==
  [i \in DOMAIN field.names |-> WriteToUAVTalk(field, Lookup(Content(value), field.names[i]))]

\* A slice is written as long as it is, whatever the definition says.
InterfaceToUAVTalk(field, value) ==
  IF field.elements = 1 THEN WriteToUAVTalk(field, value)
  ELSE IF field.names = <<>>
  THEN IF Kind(value) = "arr"
       THEN Concat([i \in DOMAIN Content(value) |-> WriteToUAVTalk(field, Content(value)[i])])
       ELSE WriteError
  ELSE IF Kind(value) = "map" THEN Concat(Elements(field, value)) ELSE WriteError

MapToUAVTalk(fs, m) ==
  Concat([i \in DOMAIN fs |-> InterfaceToUAVTalk(fs[i], Lookup(m, fs[i].name))])

-----------------------------------------------------------------------------
ByteStrings(n) == [1 .. n -> 0 .. ByteBase - 1]

Init ==
  /\ fields \in FieldLists
  /\ wire = <<>>
  /\ data = <<>>
  /\ out = Written(<<>>)
  /\ stage = "idle"

\* newPacketFromBinary converts what the flight controller sent.
Receive(bytes) ==
  /\ stage = "idle"
  /\ wire' = bytes
  /\ LET read == UAVTalkToMap(fields, bytes)
     IN  /\ data' = IF read.ok THEN read.v ELSE <<>>
         /\ stage' = CASE read.ok -> "read"
                       [] ~read.ok /\ read.why = "error" -> "refused"
                       [] ~read.ok /\ read.why = "panic" -> "panic"
  /\ UNCHANGED <<fields, out>>

\* A client sends an update back as it got it; toBinary converts it.
Echo ==
  /\ stage = "read"
  /\ out' = MapToUAVTalk(fields, data)
  /\ stage' = "echoed"
  /\ UNCHANGED <<fields, wire, data>>

\* A client sends data of its own.
Set(m) ==
  /\ stage = "idle"
  /\ data' = m
  /\ out' = MapToUAVTalk(fields, m)
  /\ stage' = IF out'.ok THEN "set" ELSE "refused"
  /\ UNCHANGED <<fields, wire>>

Next ==
  \/ \E n \in {ByteLength(fields) - 1, ByteLength(fields)} : \E bytes \in ByteStrings(n) : Receive(bytes)
  \/ Echo
  \/ \E m \in Inputs(fields) : Set(m)

Spec == Init /\ [][Next]_vars

-----------------------------------------------------------------------------
\* The range of a type, as its name says.
InRange(type, n) ==
  IF type \in {"int8", "int16", "int32", "float"}
  THEN n \in -(Span(Size(type)) \div 2) .. Span(Size(type)) \div 2 - 1
  ELSE n \in 0 .. Span(Size(type)) - 1

\* A value with the Go kind that its field asks for.
WellTypedElement(field, value) ==
  IF field.type = "enum" THEN Kind(value) = "str" ELSE Kind(value) = "num"

WellTyped(field, value) ==
  CASE field.elements = 1 -> WellTypedElement(field, value)
    [] field.elements # 1 /\ field.names = <<>> ->
         /\ Kind(value) = "arr" /\ Len(Content(value)) = field.elements
         /\ \A x \in Range(Content(value)) : WellTypedElement(field, x)
    [] field.elements # 1 /\ field.names # <<>> ->
         /\ Kind(value) = "map"
         /\ \A name \in Range(field.names) : WellTypedElement(field, Lookup(Content(value), name))

AllWellTyped(fs, m) == \A f \in Range(fs) : WellTyped(f, Lookup(m, f.name))

\* A client that sends back what it received changes nothing at the flight
\* controller: reading and writing disagree about signs, but the bytes that
\* were read are the bytes that are written.
EchoPreserves == stage = "echoed" => out = Written(wire)

\* A frame is as long as its header says (NewPacket takes the length from
\* the definition) whenever each value has the kind its field asks for; the
\* recovered panics make it shorter only when some value has not.
LengthHonest ==
  stage = "set" /\ AllWellTyped(fields, data) => Len(out.bytes) = ByteLength(fields)

\* The elements of a field's value.
Leaves(field, value) ==
  IF field.elements = 1 THEN {value}
  ELSE IF field.names = <<>> THEN Range(Content(value))
  ELSE {Content(value)[name] : name \in Range(field.names)}

Representable(field, x) ==
  IF field.type = "enum" THEN TRUE
  ELSE InRange(field.type, Content(x)) /\ (Content(x) < 0 => field.type \notin {"int8", "int16"})

\* What a client sets is what clients are told afterwards, for every value
\* the field can hold (negative int8 and int16 aside).
SetReadsBack ==
  stage = "set" /\ AllWellTyped(fields, data)
    => LET told == UAVTalkToMap(fields, out.bytes).v IN
       \A f \in Range(fields) :
         (\A x \in Leaves(f, data[f.name]) : Representable(f, x))
           => told[f.name] = data[f.name]

\* Bytes and maps agree in both directions.
RoundTrips == EchoPreserves /\ SetReadsBack

\* The numbers that clients are told are in the range of the field's type:
\* "UAVObject data, as described by the definitions" (the repository's README).
DecodedAsDescribed ==
  stage = "read" =>
    \A f \in Range(fields) : f.type # "enum" =>
      \A x \in Leaves(f, data[f.name]) : InRange(f.type, Content(x))
=============================================================================
