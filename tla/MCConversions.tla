--------------------------- MODULE MCConversions ---------------------------
(***************************************************************************)
(* The conversions between the flight controller and rotonde's clients,    *)
(* for TLC: definition files to definitions (Definitions, ObjectId), bytes *)
(* to maps and back (Codec), WebSocket frame headers (FrameHeader), maps   *)
(* to Go values (MapStructure), names and files in other character sets    *)
(* (Charset).  They share no state: a behaviour is about one of them, and  *)
(* the others stay as they are.                                            *)
(***************************************************************************)
EXTENDS Definitions, ObjectId

VARIABLES
  subject,                                        \* the conversion at work
  fields, wire, data, packed, stage,              \* see Codec
  frame, parsed,                                  \* see FrameHeader
  problem, config, result,                        \* see MapStructure
  input, tr, side, src, rdata, capacity, cdata, err, pending, out, ended  \* see Charset

codecVars == <<fields, wire, data, packed, stage>>
headerVars == <<frame, parsed>>
mapVars == <<problem, config, result>>
charsetVars == <<input, tr, side, src, rdata, capacity, cdata, err, pending, out, ended>>
allVars == <<subject, vars, codecVars, headerVars, mapVars, charsetVars>>

-----------------------------------------------------------------------------
(***************************************************************************)
(* Definitions, with identifiers of a few bits so that hashes do collide.  *)
(* The files have clones in both directions, a clone of nothing, an        *)
(* unknown type, names that differ in case only, and the name of a         *)
(* metadata definition.                                                    *)
(***************************************************************************)
A == <<65>>
B == <<66>>
C == <<67>>

Field(name, type, elements) ==
  [name |-> name, type |-> type, elements |-> elements, names |-> 0,
   typed |-> FALSE, clone |-> <<>>,
   options |-> IF type = "enum" THEN << <<79, 110>>, <<79, 102, 102>> >> ELSE <<>>]

Cloned(name, from) == [Field(name, "", 0) EXCEPT !.clone = from]

File(name, single, fs) == [name |-> name, settings |-> ~single, single |-> single, fields |-> fs]

SomeFiles ==
  { File(<<65, 98>>, TRUE, <<Field(A, "uint8", 3), Field(B, "uint16", 0), Field(C, "float", 1)>>),
    File(<<97, 98>>, TRUE, <<[Field(A, "enum", 1) EXCEPT !.names = 2], Cloned(B, A), Cloned(C, B)>>),
    File(<<65, 98>> \o MetaSuffix, FALSE, <<Cloned(A, C), Field(B, "int16", 1), Field(C, "uint32", 2)>>),
    File(<<300>>, FALSE, <<Field(A, "int8", 0)>>),
    File(<<301>>, FALSE, <<Field(A, "int8", 0)>>),
    File(<<66, 122>>, FALSE, <<Cloned(A, B), Cloned(B, C), Field(C, "int32", 1)>>),
    File(<<67>>, TRUE, <<Cloned(A, A), Field(B, "int8", 1)>>),
    File(<<68>>, TRUE, <<Cloned(A, C)>>),
    File(<<69>>, TRUE, <<Field(A, "double", 1)>>) }
  \cup {File(<<c>>, FALSE, <<Field(A, "int8", 0)>>) : c \in 70 .. 73}

-----------------------------------------------------------------------------
(***************************************************************************)
(* Codec, with bytes of two bits, so that an int8 is -2 .. 1, and field    *)
(* lists that have every type, slices, element names and enums.            *)
(***************************************************************************)
WireField(name, type, elements, names) ==
  [name |-> name, type |-> type, elements |-> elements, names |-> names,
   options |-> IF type = "enum" THEN <<"off", "on", "auto">> ELSE <<>>]

SomeFieldLists ==
  { <<WireField("a", "int32", 1, <<>>)>>,
    <<WireField("a", "uint32", 1, <<>>)>>,
    <<WireField("a", "float", 1, <<>>)>>,
    <<WireField("a", "uint16", 2, <<>>), WireField("b", "enum", 1, <<>>)>>,
    <<WireField("a", "int16", 1, <<>>), WireField("b", "enum", 2, <<"x", "y">>)>>,
    <<WireField("a", "int8", 2, <<"x", "y">>), WireField("b", "uint8", 2, <<>>)>> }

NilValue == <<"nil", <<>>>>
NumberValues == {<<"num", n>> : n \in {-3, -2, -1, 0, 1, 3, 4, 9, 127, 255}}
FewNumbers == {<<"num", -1>>, <<"num", 3>>, NilValue}
WordValues == {<<"str", "off">>, <<"str", "auto">>, <<"str", "bogus">>, NilValue}

\* Values of a field, right and wrong.
ValuesFor(f) ==
  LET some == IF f.type = "enum" THEN WordValues ELSE FewNumbers IN
  CASE f.elements = 1 -> WordValues \cup NumberValues
    [] f.elements = 2 /\ f.names = <<>> ->
         {<<"arr", s>> : s \in UNION {[1 .. n -> some] : n \in 1 .. 3}} \cup {NilValue}
    [] f.elements = 2 /\ f.names # <<>> ->
         {<<"map", m>> : m \in UNION {[d -> some] : d \in SUBSET Range(f.names)}} \cup {NilValue}

SomeInputs(fs) ==
  IF Len(fs) = 1 THEN {[n \in {fs[1].name} |-> v] : v \in ValuesFor(fs[1])}
  ELSE {[n \in {fs[1].name, fs[2].name} |-> IF n = fs[1].name THEN v ELSE w] :
          v \in ValuesFor(fs[1]), w \in ValuesFor(fs[2])}

Co == INSTANCE Codec WITH
        ByteBase <- 4, FieldLists <- SomeFieldLists, Inputs <- SomeInputs, out <- packed

CodecInit ==
  IF subject = "codec" THEN Co!Init
  ELSE /\ fields = <<>> /\ wire = <<>> /\ data = <<>>
       /\ packed = Co!Written(<<>>)
       /\ stage = "idle"

-----------------------------------------------------------------------------
(***************************************************************************)
(* FrameHeader, with lengths around the limits 125 and 65536.              *)
(***************************************************************************)
SomeLengths == {0, 1, 124, 125, 126, 127, 128, 255, 256, 65534, 65535, 65536, 65537, 16777217}

FH == INSTANCE FrameHeader WITH
        Lengths <- SomeLengths, Types <- {0, 1, 2, 8, 9, 10}, Key <- <<1, 255, 128, 7>>, Stale <- 77

HeaderInit ==
  IF subject = "header" THEN FH!Init ELSE frame = <<>> /\ parsed = <<>>

-----------------------------------------------------------------------------
(***************************************************************************)
(* MapStructure: every scalar kind to every other, and nested structs,     *)
(* maps and slices.  Integers have 3 bits in the results.                  *)
(***************************************************************************)
SomeLower(s) ==
  CASE s \in {"Name", "NAME", "name"} -> "name" [] s \in {"Id", "id"} -> "id" [] OTHER -> s

\* Only for the zero values of types.
Kinds == INSTANCE MapStructure WITH
           Problems <- {}, Configs <- {}, MaxNumber <- 9, Lower <- SomeLower

Text(s) == <<"string", s>>

Scalars ==
  {<<"nil">>, <<"bool", TRUE>>, <<"bool", FALSE>>, <<"float", -3>>, <<"float", 4>>, <<"float", 5>>}
  \cup {<<"int", i>> : i \in -5 .. 5} \cup {<<"uint", i>> : i \in {0, 4, 9}}
  \cup {Text(s) : s \in {"", "1", "-1", "5", "true", "1,2", "x"}}
  \cup {<<"slice", <<>>, "uint8">>, <<"slice", <<<<"uint", 65>>>>, "uint8">>, <<"map", <<>>, "string">>}

ScalarTypes == {<<"int", 3>>, <<"uint", 3>>, <<"float">>, <<"bool">>, <<"string">>, <<"interface">>, <<"chan">>}
GoTypes == ScalarTypes \cup {<<"ptr", T>> : T \in ScalarTypes} \cup {<<"slice", T>> : T \in ScalarTypes}

Few == {<<"int", -1>>, Text("1"), <<"nil">>}

StructField(name, tag, T) ==
  [name |-> name, tag |-> tag, type |-> T, anonymous |-> FALSE, squash |-> FALSE, settable |-> TRUE]
Hidden(f) == [f EXCEPT !.settable = FALSE]
Embedded(f) == [f EXCEPT !.anonymous = TRUE]
Squash(f) == [f EXCEPT !.squash = TRUE]

Inner == <<"struct", <<StructField("Id", "id", <<"uint", 3>>), Hidden(StructField("x", "", <<"int", 3>>))>>, "Inner">>
Outer == <<"struct", <<StructField("Name", "", <<"string">>), Squash(Embedded(StructField("Inner", "", Inner))),
                       StructField("Sub", "", <<"ptr", Inner>>)>>, "Outer">>
Odd == <<"struct", <<Embedded(StructField("Num", "", <<"int", 3>>)), StructField("Id", "", <<"int", 3>>)>>, "Odd">>

StringMap(entries) == <<"map", entries, "string">>
Entries == {<<>>} \cup {<<<<Text(k), v>>>> : k \in {"Name", "id", "y"}, v \in Few}
             \cup {<<<<Text(k), v>>, <<Text(l), w>>>> :
                     k \in {"NAME", "id", "x"}, l \in {"Name", "name", "y"}, v \in Few, w \in Few}
Maps == {StringMap(e) : e \in Entries}

Problem(T, val, D) == {[type |-> T, val |-> val, data |-> d] : d \in D}

SomeProblems ==
  UNION {Problem(T, Kinds!Zero(T), Scalars) : T \in GoTypes}
  \cup UNION {Problem(<<"slice", T>>, <<"nil">>, {<<"slice", <<v, w>>, "interface">> : v \in Scalars, w \in Few}) :
                T \in {<<"uint", 3>>, <<"ptr", <<"string">>>>}}
  \cup UNION {Problem(T, Kinds!Zero(T),
                      Maps \cup {<<"ptr", m>> : m \in Maps} \cup Few
                        \cup {StringMap(<<<<Text("Sub"), m>>, <<Text("Name"), v>>>>) : m \in Maps, v \in Few}
                        \cup {<<"map", <<<<<<"int", 1>>, <<"int", 1>>>>>>, "int">>, Kinds!Zero(Inner)}) :
                T \in {Inner, Outer, Odd}}
  \cup UNION {Problem(<<"map", <<"string">>, T>>, v, Maps \cup Few \cup {<<"slice", <<>>, "interface">>}) :
                T \in {<<"uint", 3>>, <<"string">>, <<"interface">>},
                v \in {<<"nil">>, <<"map", [k \in {Text("id"), Text("z")} |-> <<"uint", 7>>]>>}}

Config(weak, unused, zero, hook) ==
  [weak |-> weak, errorUnused |-> unused, zero |-> zero, hook |-> hook]
SomeConfigs ==
  {Config(w, u, z, <<>>) : w \in BOOLEAN, u \in BOOLEAN, z \in BOOLEAN}
  \cup {Config(FALSE, FALSE, FALSE, h) : h \in {<<"split">>, <<"weak", "split">>, <<"split", "invalid">>}}

MS == INSTANCE MapStructure WITH
        Problems <- SomeProblems, Configs <- SomeConfigs, MaxNumber <- 9, Lower <- SomeLower

MapInit ==
  IF subject = "map" THEN MS!Init ELSE problem = <<>> /\ config = <<>> /\ result = <<>>

-----------------------------------------------------------------------------
(***************************************************************************)
(* Charset: short inputs with complete, incomplete and broken runes, code  *)
(* pages of three and four bytes.                                          *)
(***************************************************************************)
UpTo(S, n) == UNION {[1 .. k -> S] : k \in 0 .. n}

Translator(kind, endian, table) == [kind |-> kind, endian |-> endian, table |-> table]

SomeTranslators ==
  {Translator("utf8", "le", <<>>), Translator("tocp", "le", <<0, 1, 6, 2>>),
   Translator("toutf16", "be", <<>>)}
  \cup {Translator("fromcp", "le", t) : t \in {<<0, 1, 6, 2>>, <<1, 0, 5>>, <<6, 3, 0>>}}
  \cup {Translator("fromutf16", e, <<>>) : e \in {"le", "be", ""}}

CS == INSTANCE Charset WITH
        Inputs <- UpTo({0, 1}, 3) \cup UpTo({1, 2, 7}, 4) \cup UpTo({1, 2, 5}, 3) \cup UpTo({2, 3}, 4),
        Translators <- SomeTranslators, BufSizes <- {1, 2}

CharsetInit ==
  IF subject = "charset" THEN CS!Init
  ELSE /\ input = [bytes |-> <<>>, tr |-> Translator("tocp", "le", <<0>>)]
       /\ tr = input.tr /\ side = "reader"
       /\ src = <<>> /\ rdata = <<>> /\ cdata = <<>> /\ out = <<>>
       /\ capacity = 0 /\ pending = -1
       /\ err = FALSE /\ ended = TRUE

-----------------------------------------------------------------------------
ConversionsInit ==
  /\ subject \in {"definitions", "codec", "header", "map", "charset"}
  /\ Init /\ CodecInit /\ HeaderInit /\ MapInit /\ CharsetInit

LoadDefinitions ==
  /\ subject = "definitions" /\ Next
  /\ UNCHANGED <<subject, codecVars, headerVars, mapVars, charsetVars>>

ConvertData ==
  /\ subject = "codec" /\ Co!Next
  /\ UNCHANGED <<subject, vars, headerVars, mapVars, charsetVars>>

ReceiveHeader ==
  /\ subject = "header" /\ FH!Receive
  /\ UNCHANGED <<subject, vars, codecVars, mapVars, charsetVars>>

DecodeMap ==
  /\ subject = "map" /\ MS!Next
  /\ UNCHANGED <<subject, vars, codecVars, headerVars, charsetVars>>

TranslateText ==
  /\ subject = "charset" /\ CS!Next
  /\ UNCHANGED <<subject, vars, codecVars, headerVars, mapVars>>

ConversionsNext == LoadDefinitions \/ ConvertData \/ ReceiveHeader \/ DecodeMap \/ TranslateText

ConversionsSpec == ConversionsInit /\ [][ConversionsNext]_allVars

-----------------------------------------------------------------------------
\* Codec: an update that a client sends back as it got it reaches the flight
\* controller as the bytes that were read, and what a client sets is what
\* clients are told afterwards.
RoundTrips == Co!RoundTrips

\* Codec: a frame is as long as its header says whenever each value has the
\* kind its field asks for, in spite of the recovered panics.
LengthHonest == Co!LengthHonest

\* Codec: the numbers that clients are told are in the range of the field's
\* type, "UAVObject data, as described by the definitions".
DecodedAsDescribed == Co!DecodedAsDescribed

\* FrameHeader: advanceFrame finds what flushFrame put in front of a payload.
HeaderReadsBack == FH!HeaderReadsBack

\* MapStructure: Decode reports every mismatch of data and type, otherwise
\* leaves exactly the data in the value, gains conversions and loses none with
\* WeaklyTypedInput, and lists the keys it did not use.
DecodeFaithful == MS!DecodeFaithful

\* Charset: how the input is cut into pieces cannot be seen in the output.
PiecesDoNotShow == CS!PiecesDoNotShow
=============================================================================
