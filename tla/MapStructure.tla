---------------------------- MODULE MapStructure ----------------------------
(***************************************************************************)
(* mapstructure.go: Decode turns a tree of interface{} values into a value *)
(* of a Go type.                                                           *)
(*                                                                         *)
(* Values are tuples that begin with their kind: <<"int", i>>, <<"uint",   *)
(* n>>, <<"float", h>> for h/2, <<"bool", b>>, <<"string", s>>, <<"nil">>, *)
(* <<"ptr", v>>, <<"slice", elements, element kind>>, <<"struct", fields,  *)
(* type name>>, <<"map", f>> in results, and in the data <<"map", entries, *)
(* key kind>> with the entries in the order in which Go iterates them.     *)
(* Types: <<"int", bits>>, <<"uint", bits>>, <<"float">>, <<"bool">>,      *)
(* <<"string">>, <<"interface">>, <<"ptr", T>>, <<"slice", T>>, <<"map",   *)
(* K, V>>, <<"struct", fields, name>>, <<"chan">>.                         *)
(***************************************************************************)
EXTENDS Integers, Sequences, SequencesExt, FiniteSets, TLC

CONSTANTS
  Problems,   \* [type, val, data]: what Decode is called with
  Configs,    \* [weak, errorUnused, zero, hook]: DecoderConfigs, with Metadata
  MaxNumber,  \* strings hold decimal numbers up to this
  Lower(_)    \* the lower case of a string

VARIABLES
  problem, config,
  result   \* <<>>, or <<what Decode left behind>>

vars == <<problem, config, result>>

-----------------------------------------------------------------------------
(***************************************************************************)
(* What a decode leaves: the value, the errors in order, Metadata.Keys and *)
(* Metadata.Unused, and whether it panicked.                               *)
(***************************************************************************)
Done(val) == [val |-> val, errs |-> <<>>, keys |-> {}, unused |-> {}, panic |-> FALSE]
Fail(val, name, why) == [Done(val) EXCEPT !.errs = <<<<name, why>>>>]

\* Decodes of parts, one after the other.
Join(val, rs) ==
  [val |-> val, errs |-> FlattenSeq([i \in DOMAIN rs |-> rs[i].errs]),
   keys |-> UNION {rs[i].keys : i \in DOMAIN rs},
   unused |-> UNION {rs[i].unused : i \in DOMAIN rs},
   panic |-> \E i \in DOMAIN rs : rs[i].panic]

Indirect(data) == IF data[1] = "ptr" THEN data[2] ELSE data

RECURSIVE Zero(_)
Zero(T) ==
  CASE T[1] \in {"int", "uint", "float"} -> <<T[1], 0>>
    [] T[1] = "bool" -> <<"bool", FALSE>>
    [] T[1] = "string" -> <<"string", "">>
    [] T[1] = "struct" -> <<"struct", [i \in DOMAIN T[2] |-> Zero(T[2][i].type)], T[3]>>
    [] OTHER -> <<"nil">>

-----------------------------------------------------------------------------
(***************************************************************************)
(* Numbers and strings.                                                    *)
(***************************************************************************)
Truncate(h) == IF h < 0 THEN -((-h) \div 2) ELSE h \div 2

SetInt(i, bits) == <<"int", ((i + 2^(bits - 1)) % 2^bits) - 2^(bits - 1)>>
SetUint(i, bits) == <<"uint", i % 2^bits>>

Numbers(s) == {i \in -MaxNumber .. MaxNumber : ToString(i) = s}
FormatFloat(h) ==
  IF h % 2 = 0 THEN ToString(h \div 2)
  ELSE (IF h < 0 THEN "-" ELSE "") \o ToString((IF h < 0 THEN -h ELSE h) \div 2) \o ".5"

\* string(bytes), of the byte slices that occur here.
BytesToString(bytes) == IF bytes = <<>> THEN "" ELSE "A"

-----------------------------------------------------------------------------
(***************************************************************************)
(* The scalar kinds: data of one kind to a value of another.               *)
(***************************************************************************)
DecodeString(weak, name, data, val) ==
  CASE data[1] = "string" -> Done(data)
    [] weak /\ data[1] = "bool" -> Done(<<"string", IF data[2] THEN "1" ELSE "0">>)
    [] weak /\ data[1] \in {"int", "uint"} -> Done(<<"string", ToString(data[2])>>)
    [] weak /\ data[1] = "float" -> Done(<<"string", FormatFloat(data[2])>>)
    [] weak /\ data[1] = "slice" /\ data[3] = "uint8" ->
         Done(<<"string", BytesToString(data[2])>>)
    [] OTHER -> Fail(val, name, "type")

DecodeInt(weak, name, data, T, val) ==
  LET fits == {i \in Numbers(data[2]) : -(2^(T[2] - 1)) <= i /\ i < 2^(T[2] - 1)} IN
  CASE data[1] \in {"int", "uint"} -> Done(SetInt(data[2], T[2]))
    [] data[1] = "float" -> Done(SetInt(Truncate(data[2]), T[2]))
    [] weak /\ data[1] = "bool" -> Done(<<"int", IF data[2] THEN 1 ELSE 0>>)
    [] weak /\ data[1] = "string" ->
         IF fits = {} THEN Fail(val, name, "parse") ELSE Done(<<"int", CHOOSE i \in fits : TRUE>>)
    [] OTHER -> Fail(val, name, "type")

\* Mutant: a negative number wraps around even without WeaklyTypedInput.
NegativeIgnored(weak, data) == FALSE

Negative(weak, data) == data[1] \in {"int", "float"} /\ data[2] < 0 /\ ~weak

\* The conversion of a negative float64 is the one of amd64.
DecodeUint(weak, name, data, T, val) ==
  LET fits == {i \in Numbers(data[2]) : 0 <= i /\ i < 2^T[2]} IN
  CASE Negative(weak, data) -> Fail(val, name, "overflow")
    [] data[1] \in {"int", "uint"} -> Done(SetUint(data[2], T[2]))
    [] data[1] = "float" -> Done(SetUint(Truncate(data[2]), T[2]))
    [] weak /\ data[1] = "bool" -> Done(<<"uint", IF data[2] THEN 1 ELSE 0>>)
    [] weak /\ data[1] = "string" ->
         IF fits = {} THEN Fail(val, name, "parse") ELSE Done(<<"uint", CHOOSE i \in fits : TRUE>>)
    [] OTHER -> Fail(val, name, "type")

DecodeBool(weak, name, data, val) ==
  CASE data[1] = "bool" -> Done(data)
    [] weak /\ data[1] \in {"int", "uint", "float"} -> Done(<<"bool", data[2] # 0>>)
    [] weak /\ data[1] = "string" /\ data[2] \in {"1", "true"} -> Done(<<"bool", TRUE>>)
    [] weak /\ data[1] = "string" /\ data[2] \in {"0", "false", ""} -> Done(<<"bool", FALSE>>)
    [] weak /\ data[1] = "string" -> Fail(val, name, "parse")
    [] OTHER -> Fail(val, name, "type")

DecodeFloat(weak, name, data, val) ==
  CASE data[1] \in {"int", "uint"} -> Done(<<"float", 2 * data[2]>>)
    [] data[1] = "float" -> Done(data)
    [] weak /\ data[1] = "bool" -> Done(<<"float", IF data[2] THEN 2 ELSE 0>>)
    [] weak /\ data[1] = "string" ->
         IF Numbers(data[2]) = {} THEN Fail(val, name, "parse")
         ELSE Done(<<"float", 2 * CHOOSE i \in Numbers(data[2]) : TRUE>>)
    [] OTHER -> Fail(val, name, "type")

-----------------------------------------------------------------------------
(***************************************************************************)
(* decode_hooks.go. A hook is nil, <<>>, or a composition of functions.    *)
(***************************************************************************)
Split(s) == IF s = "" THEN <<>> ELSE IF s = "1,2" THEN <<"1", "2">> ELSE <<s>>

StringToSliceHook(data, T) ==
  IF data[1] = "string" /\ T[1] = "slice"
  THEN <<"slice", [i \in DOMAIN Split(data[2]) |-> <<"string", Split(data[2])[i]>>], "string">>
  ELSE data

\* Floats are float64, which this hook leaves alone.
WeaklyTypedHook(data, T) ==
  IF T[1] = "string" /\ data[1] \in {"bool", "int", "uint", "slice"}
  THEN LET r == DecodeString(TRUE, <<>>, data, data) IN r.val
  ELSE data

\* The data, or <<"error">>; a function that is not a hook is an error.
DecodeHookExec(h, data, T) ==
  CASE h = "split" -> StringToSliceHook(data, T)
    [] h = "weak" -> WeaklyTypedHook(data, T)
    [] h = "invalid" -> <<"error">>

RECURSIVE ComposeDecodeHookFunc(_, _, _)
ComposeDecodeHookFunc(hs, data, T) ==
  IF hs = <<>> \/ data = <<"error">> THEN data
  ELSE ComposeDecodeHookFunc(Tail(hs), DecodeHookExec(Head(hs), data, T), T)

-----------------------------------------------------------------------------
(***************************************************************************)
(* Structs. A field is [name, tag, type, anonymous, squash, settable]; a   *)
(* path of indices leads from a struct to a field of a field.              *)
(***************************************************************************)
\* reflect's FieldByName, with fields promoted from anonymous ones.
FieldByName(T, name) ==
  LET direct == {<<i>> : i \in {j \in DOMAIN T[2] : T[2][j].name = name}}
      outer == {i \in DOMAIN T[2] : T[2][i].anonymous /\ T[2][i].type[1] = "struct"}
      promoted == UNION {{<<i, j>> : j \in {k \in DOMAIN T[2][i].type[2] :
                                              T[2][i].type[2][k].name = name}} : i \in outer}
  IN  IF direct # {} THEN direct ELSE IF Cardinality(promoted) = 1 THEN promoted ELSE {}

RECURSIVE TypeAt(_, _), ValueAt(_, _), SetAt(_, _, _), CompileFields(_, _), Decode(_, _, _, _, _)
TypeAt(T, path) == IF path = <<>> THEN T ELSE TypeAt(T[2][Head(path)].type, Tail(path))
ValueAt(val, path) == IF path = <<>> THEN val ELSE ValueAt(val[2][Head(path)], Tail(path))
SetAt(val, path, v) ==
  IF path = <<>> THEN v
  ELSE <<"struct", [val[2] EXCEPT ![Head(path)] = SetAt(val[2][Head(path)], Tail(path), v)], val[3]>>

\* The fields to decode, as <<path, field>>; structs is the queue of the paths
\* of squashed structs, each {path} or {} when FieldByName on T found nothing.
CompileFields(T, structs) ==
  IF structs = <<>> THEN [fields |-> <<>>, errs |-> <<>>, panic |-> FALSE]
  ELSE IF Head(structs) = {} \/ (\E p \in Head(structs) : TypeAt(T, p)[1] # "struct")
  THEN [fields |-> <<>>, errs |-> <<>>, panic |-> TRUE]
  ELSE LET path == CHOOSE p \in Head(structs) : TRUE
           all == [i \in DOMAIN TypeAt(T, path)[2] |->
                     <<Append(path, i), TypeAt(T, path)[2][i]>>]
           Unsupported(e) == e[2].anonymous /\ e[2].type[1] # "struct"
           squashed == SelectSeq(all, LAMBDA e : ~Unsupported(e) /\ e[2].squash)
           more == CompileFields(T, Tail(structs) \o
                     [i \in DOMAIN squashed |-> FieldByName(T, squashed[i][2].name)])
       IN  [fields |-> SelectSeq(all, LAMBDA e : ~Unsupported(e) /\ ~e[2].squash) \o more.fields,
            errs |-> [i \in DOMAIN SelectSeq(all, Unsupported) |-> <<<<>>, "anonymous">>] \o more.errs,
            panic |-> more.panic]

FieldName(f) == IF f.tag # "" THEN f.tag ELSE f.name

\* The entry for a field: its name, or one that differs in case only; or 0.
KeyOf(entries, f) ==
  LET exact == SelectInSeq(entries, LAMBDA e : e[1] = <<"string", FieldName(f)>>)
  IN  IF exact # 0 THEN exact
      ELSE SelectInSeq(entries, LAMBDA e : /\ e[1][1] = "string"
                                           /\ Lower(e[1][2]) = Lower(FieldName(f)))

DecodeStruct(c, name, ptr, T, val) ==
  LET data == Indirect(ptr)
      entries == data[2]
      compiled == CompileFields(T, <<{<<>>}>>)
      fields == SelectSeq(compiled.fields, LAMBDA e : KeyOf(entries, e[2]) # 0)
      settable == SelectSeq(fields, LAMBDA e : e[2].settable)
      rs == [i \in DOMAIN settable |->
               Decode(c, Append(name, <<"field", FieldName(settable[i][2])>>),
                      entries[KeyOf(entries, settable[i][2])][2], settable[i][2].type,
                      ValueAt(val, settable[i][1]))]
      set[i \in 0 .. Len(rs)] == IF i = 0 THEN val ELSE SetAt(set[i - 1], settable[i][1], rs[i].val)
      unused == ToSet([i \in DOMAIN entries |-> entries[i][1]])
                  \ {entries[KeyOf(entries, fields[i][2])][1] : i \in DOMAIN fields}
      joined == Join(set[Len(rs)], rs)
      errs == compiled.errs \o joined.errs \o
                (IF c.errorUnused /\ unused # {} THEN <<<<name, "unused">>>> ELSE <<>>)
  IN  IF data[1] = "struct" /\ data[3] = T[3] THEN Done(data)
      ELSE IF data[1] # "map" THEN Fail(val, name, "map")
      ELSE IF data[3] \notin {"string", "interface"} THEN Fail(val, name, "keys")
      ELSE IF compiled.panic THEN [Done(val) EXCEPT !.panic = TRUE]
      ELSE [joined EXCEPT
              !.errs = errs,
              !.unused = @ \cup (IF errs = <<>> THEN {Append(name, <<"field", k>>) : k \in unused} ELSE {}),
              !.panic = @ \/ /\ \E k \in unused : k[1] # "string"
                             /\ c.errorUnused \/ errs = <<>>]

StartMap(c, val) == IF val[1] = "nil" \/ c.zero THEN <<>> ELSE val[2]

DecodeMap(c, name, ptr, T, val) ==
  LET data == Indirect(ptr)
      start == StartMap(c, val)
      at(i) == Append(name, <<"key", data[2][i][1]>>)
      ks == [i \in DOMAIN data[2] |-> Decode(c, at(i), data[2][i][1], T[2], Zero(T[2]))]
      vs == [i \in DOMAIN data[2] |-> Decode(c, at(i), data[2][i][2], T[3], Zero(T[3]))]
      good == {i \in DOMAIN ks : ks[i].errs = <<>> /\ vs[i].errs = <<>>}
      last(k) == CHOOSE i \in good : ks[i].val = k /\ \A j \in good : ks[j].val = k => j <= i
      new == {ks[i].val : i \in good}
      map == [k \in new \cup DOMAIN start |-> IF k \in new THEN vs[last(k)].val ELSE start[k]]
  IN  CASE data[1] = "map" ->
             Join(<<"map", map>>, [i \in DOMAIN ks |->
               IF ks[i].errs # <<>> THEN ks[i] ELSE Join(<<"nil">>, <<ks[i], vs[i]>>)])
        [] c.weak /\ data[1] = "slice" /\ Len(data[2]) = 0 -> Done(<<"map", start>>)
        [] OTHER -> Fail(val, name, "map")

DecodePtr(c, name, data, T, val) ==
  LET r == Decode(c, name, data, T[2], Zero(T[2]))
  IN  [r EXCEPT !.val = IF r.errs = <<>> THEN <<"ptr", r.val>> ELSE val]

DecodeSlice(c, name, ptr, T, val) ==
  LET data == Indirect(ptr)
      rs == [i \in DOMAIN data[2] |->
               Decode(c, Append(name, <<"index", i>>), data[2][i], T[2], Zero(T[2]))]
  IN  CASE data[1] = "slice" -> Join(<<"slice", [i \in DOMAIN rs |-> rs[i].val], T[2][1]>>, rs)
        [] c.weak /\ data[1] = "map" /\ Len(data[2]) = 0 -> Done(<<"slice", <<>>, T[2][1]>>)
        [] OTHER -> Fail(val, name, "slice")

Decode(c, name, raw, T, val) ==
  LET data == ComposeDecodeHookFunc(c.hook, raw, T)
      r == CASE T[1] = "bool" -> DecodeBool(c.weak, name, data, val)
             [] T[1] = "interface" -> Done(data)
             [] T[1] = "string" -> DecodeString(c.weak, name, data, val)
             [] T[1] = "int" -> DecodeInt(c.weak, name, data, T, val)
             [] T[1] = "uint" -> DecodeUint(c.weak, name, data, T, val)
             [] T[1] = "float" -> DecodeFloat(c.weak, name, data, val)
             [] T[1] = "struct" -> DecodeStruct(c, name, data, T, val)
             [] T[1] = "map" -> DecodeMap(c, name, data, T, val)
             [] T[1] = "ptr" -> DecodePtr(c, name, data, T, val)
             [] T[1] = "slice" -> DecodeSlice(c, name, data, T, val)
  IN  CASE raw = <<"nil">> -> Done(val)
        [] data = <<"error">> -> Fail(val, name, "hook")
        [] T = <<"chan">> -> Fail(val, name, "unsupported")
        [] OTHER -> [r EXCEPT !.keys = IF name = <<>> THEN @ ELSE @ \cup {name}]

-----------------------------------------------------------------------------
Init == problem \in Problems /\ config \in Configs /\ result = <<>>

\* Decoder.Decode.
DecoderDecode ==
  /\ result = <<>>
  /\ result' = <<Decode(config, <<>>, problem.data, problem.type, problem.val)>>
  /\ UNCHANGED <<problem, config>>

Next == DecoderDecode
Spec == Init /\ [][Next]_vars

-----------------------------------------------------------------------------
(***************************************************************************)
(* What a decode without weak conversions and hooks means, with nothing of *)
(* how errors, keys and partial results are collected.                     *)
(***************************************************************************)
Number(data) == IF data[1] = "float" THEN Truncate(data[2]) ELSE data[2]
IsNumber(data) == data[1] \in {"int", "uint", "float"}
FieldsOf(T) == CompileFields(T, <<{<<>>}>>).fields

\* The number of the places where the data does not have the type's shape.
RECURSIVE Misfits(_, _, _)
Misfits(c, T, raw) ==
  LET data == IF T[1] \in {"struct", "map", "slice"} THEN Indirect(raw) ELSE raw
      Sum(S, Op(_)) == FoldSet(LAMBDA x, n : n + Op(x), 0, S)
      Part(P, d) == Misfits(c, P, d)
      entries == data[2]
      taken == {i \in DOMAIN FieldsOf(T) : KeyOf(entries, FieldsOf(T)[i][2]) # 0}
      takenKeys == {KeyOf(entries, FieldsOf(T)[i][2]) : i \in taken}
      One(ok) == IF ok THEN 0 ELSE 1
  IN  CASE raw = <<"nil">> -> 0
        [] T[1] \in {"bool", "string"} -> One(data[1] = T[1])
        [] T[1] \in {"int", "float"} -> One(IsNumber(data))
        [] T[1] = "uint" -> One(IsNumber(data) /\ ~(data[1] # "uint" /\ data[2] < 0))
        [] T[1] = "interface" -> 0
        [] T[1] = "ptr" -> Part(T[2], data)
        [] T[1] = "slice" ->
             IF data[1] # "slice" THEN 1 ELSE Sum(DOMAIN entries, LAMBDA i : Part(T[2], entries[i]))
        [] T[1] = "map" ->
             IF data[1] # "map" THEN 1
             ELSE Sum(DOMAIN entries, LAMBDA i :
                    IF Part(T[2], entries[i][1]) > 0 THEN Part(T[2], entries[i][1])
                    ELSE Part(T[3], entries[i][2]))
        [] T[1] = "struct" ->
             CASE data[1] = "struct" /\ data[3] = T[3] -> 0
               [] data[1] = "map" /\ data[3] # "int" ->
                    Sum({i \in taken : FieldsOf(T)[i][2].settable}, LAMBDA i :
                        Part(FieldsOf(T)[i][2].type, entries[KeyOf(entries, FieldsOf(T)[i][2])][2]))
                    + One(~c.errorUnused \/ takenKeys = DOMAIN entries)
                    + Cardinality({i \in DOMAIN T[2] : T[2][i].anonymous /\ T[2][i].type[1] # "struct"})
               [] OTHER -> 1
        [] OTHER -> 1

\* new holds the data, where old was before.
RECURSIVE Holds(_, _, _, _, _)
Holds(c, T, old, raw, new) ==
  LET data == IF T[1] \in {"struct", "map", "slice"} THEN Indirect(raw) ELSE raw
      entries == data[2]
  IN  CASE raw = <<"nil">> -> new = old
        [] T[1] = "int" -> new = SetInt(Number(data), T[2])
        [] T[1] = "uint" -> new = SetUint(Number(data), T[2])
        [] T[1] = "float" -> new = <<"float", IF data[1] = "float" THEN data[2] ELSE 2 * data[2]>>
        [] T[1] \in {"bool", "string", "interface"} -> new = data
        [] T[1] = "ptr" -> new[1] = "ptr" /\ Holds(c, T[2], Zero(T[2]), data, new[2])
        [] T[1] = "slice" ->
             /\ Len(new[2]) = Len(entries)
             /\ \A i \in DOMAIN entries : Holds(c, T[2], Zero(T[2]), entries[i], new[2][i])
        [] T[1] = "map" ->
             LET kept == IF c.zero \/ old = <<"nil">> THEN {} ELSE DOMAIN old[2]
                 keys == {entries[i][1] : i \in DOMAIN entries}
             IN  /\ DOMAIN new[2] = keys \cup kept
                 /\ \A i \in DOMAIN entries :
                      Holds(c, T[3], Zero(T[3]), entries[i][2], new[2][entries[i][1]])
                 /\ \A k \in kept \ keys : new[2][k] = old[2][k]
        [] T[1] = "struct" ->
             IF data[1] = "struct" THEN new = data
             ELSE \A i \in DOMAIN FieldsOf(T) :
                    LET f == FieldsOf(T)[i]
                        k == KeyOf(entries, f[2])
                    IN  IF k = 0 \/ ~f[2].settable
                        THEN ValueAt(new, f[1]) = ValueAt(old, f[1])
                        ELSE Holds(c, f[2].type, ValueAt(old, f[1]), entries[k][2], ValueAt(new, f[1]))

Plain(c) == ~c.weak /\ c.hook = <<>>
Returned == result # <<>> /\ ~result[1].panic

-----------------------------------------------------------------------------
(***************************************************************************)
(* Properties.                                                             *)
(***************************************************************************)
\* Every mismatch between the data and the type is reported, once: appendErrors
\* flattens the errors of nested decodes, none of the loops stops at one, and
\* a decode without errors had data of the right shape.
EveryMismatchReported ==
  (Returned /\ Plain(config)) => Len(result[1].errs) = Misfits(config, problem.type, problem.data)

\* A decode without errors leaves exactly the data in the value: nested
\* structs, squashed ones, pointers, slices and maps included; nil data and
\* fields without a key keep what was there, and maps are merged unless
\* ZeroFields is set.
ValueHoldsData ==
  (Returned /\ Plain(config) /\ result[1].errs = <<>>) =>
    Holds(config, problem.type, problem.val, problem.data, result[1].val)

\* WeaklyTypedInput only adds conversions: what decodes without it decodes to
\* the same value with it.
WeakOnlyAdds ==
  (Returned /\ Plain(config) /\ result[1].errs = <<>>) =>
    LET weak == Decode([config EXCEPT !.weak = TRUE], <<>>, problem.data, problem.type, problem.val)
    IN  weak.errs = <<>> /\ weak.val = result[1].val

\* No key of a map is dropped silently: after a decode into a struct without
\* errors each one was decoded, belongs to a field that cannot be set, or is
\* in Metadata.Unused, also when several keys differ only in case.
NoKeyLost ==
  (Returned /\ result[1].errs = <<>> /\ problem.type[1] = "struct" /\ problem.data[1] = "map") =>
    LET entries == problem.data[2]
        fields == FieldsOf(problem.type)
        isUnused(k) == <<<<"field", k>>>> \in result[1].unused
    IN  \A i \in DOMAIN entries :
          isUnused(entries[i][1]) <=>
            ~ \E j \in DOMAIN fields :
                /\ Lower(FieldName(fields[j][2])) = Lower(entries[i][1][2])
                /\ \/ entries[i][1][2] = FieldName(fields[j][2])
                   \/ /\ \A e \in DOMAIN entries : entries[e][1][2] # FieldName(fields[j][2])
                      /\ \A e \in 1 .. i - 1 :
                           Lower(entries[e][1][2]) # Lower(FieldName(fields[j][2]))

\* Decode agrees with the reference: all mismatches, nothing but the data in
\* the value, weak conversions on top, and every key accounted for.
DecodeFaithful == EveryMismatchReported /\ ValueHoldsData /\ WeakOnlyAdds /\ NoKeyLost
=============================================================================
