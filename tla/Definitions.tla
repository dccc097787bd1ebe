---------------------------- MODULE Definitions ----------------------------
(***************************************************************************)
(* The definitions of the UAVObjects (uavtalk/definitions.go, and          *)
(* newDefinitions of uavtalk/uavtalk.go): the fields of a file are         *)
(* processed, cloned and sorted, the object gets its identifier, and a     *)
(* metadata definition is made for it.                                     *)
(*                                                                         *)
(* A field is [name, type, elements, names, options, clone, typed]: names  *)
(* is the number of its element names, clone names the field it copies, or *)
(* is empty; typed says that FieldTypeInfo is set.  Names are sequences of *)
(* code points.                                                            *)
(***************************************************************************)
EXTENDS Integers, Sequences

CONSTANTS
  Files,     \* the definitions in XML files: [name, settings, single, fields]
  MaxFiles,  \* bound on the files in the directory
  IdSpan,    \* number of object identifiers, 2^32 in the code
  Hash(_)    \* the hash of a definition, see ObjectId

\* The fields as the XML decoder leaves them, without FieldTypeInfo.
FileFields ==
  [name : Seq(Nat), type : STRING, elements : Nat, names : Nat,
   options : Seq(Seq(Nat)), clone : Seq(Nat), typed : {FALSE}]

ASSUME DefinitionsAssumption ==
  /\ MaxFiles \in Nat
  /\ IdSpan \in Nat /\ IdSpan > 0 /\ IdSpan % 2 = 0
  /\ Files \subseteq [name : Seq(Nat), settings : BOOLEAN, single : BOOLEAN, fields : Seq(FileFields)]

VARIABLES
  AllDefinitions,  \* the definitions loaded so far, each followed by its meta
  files,           \* the files read so far
  loader           \* "loading", "fatal" (log.Fatal) or "panic"

vars == <<AllDefinitions, files, loader>>

-----------------------------------------------------------------------------
(***************************************************************************)
(* fieldProcess.                                                           *)
(***************************************************************************)
TypeInfos ==
  [type \in {"int8", "uint8", "enum", "int16", "uint16", "int32", "uint32", "float"} |->
     CASE type \in {"int8", "uint8", "enum"} -> 1
       [] type \in {"int16", "uint16"} -> 2
       [] type \in {"int32", "uint32", "float"} -> 4]

Size(field) == TypeInfos[field.type]

\* The first loop leaves clones alone.
Prepare(field) ==
  IF field.clone # <<>> THEN field
  ELSE [field EXCEPT !.elements = CASE field.names > 0 -> field.names
                                    [] field.names = 0 /\ @ = 0 -> 1
                                    [] OTHER -> @,
                     !.typed = field.type \in DOMAIN TypeInfos]

\* FieldForName: the first field with the name.
FieldForName(fs, name) ==
  {i \in DOMAIN fs : fs[i].name = name /\ \A j \in 1 .. i - 1 : fs[j].name # name}

\* Mutant: only the type is copied.
CloneTypeOnly(fs, i) ==
  IF fs[i].clone = <<>> THEN fs
  ELSE LET from == CHOOSE j \in FieldForName(fs, fs[i].clone) : TRUE
       IN  [k \in DOMAIN fs |->
              IF k = i THEN [fs[i] EXCEPT !.type = fs[from].type, !.typed = fs[from].typed]
              ELSE fs[k]]

\* *field = *clonedField, which may be a clone that was not copied yet.
Clone(fs, i) ==
  IF fs[i].clone = <<>> THEN fs
  ELSE LET from == CHOOSE j \in FieldForName(fs, fs[i].clone) : TRUE
       IN  [k \in DOMAIN fs |->
              IF k = i THEN [fs[from] EXCEPT !.name = fs[i].name, !.clone = fs[i].clone]
              ELSE fs[k]]

FieldProcess(fs) ==
  LET cloned[i \in 0 .. Len(fs)] ==
        IF i = 0 THEN [k \in DOMAIN fs |-> Prepare(fs[k])] ELSE Clone(cloned[i - 1], i)
  IN  cloned[Len(fs)]

\* An unknown type, or a clone of a field that does not exist, is an error.
FieldError(fs) ==
  \E i \in DOMAIN fs :
    IF fs[i].clone = <<>> THEN fs[i].type \notin DOMAIN TypeInfos
    ELSE FieldForName(fs, fs[i].clone) = {}

\* Less looks at FieldTypeInfo: nil ends the process.
SortPanics(fs) == \E i \in DOMAIN fs : ~fs[i].typed

Panics(file) == ~FieldError(file.fields) /\ SortPanics(FieldProcess(file.fields))

\* The fields of size n, as in the file.
Sized(fs, n) ==
  LET upTo[i \in 0 .. Len(fs)] ==
        IF i = 0 THEN <<>>
        ELSE IF Size(fs[i]) = n THEN Append(upTo[i - 1], fs[i]) ELSE upTo[i - 1]
  IN  upTo[Len(fs)]

\* sort.Stable: large fields first, fields of one size as in the file.
SortFields(fs) == Sized(fs, 4) \o Sized(fs, 2) \o Sized(fs, 1)

-----------------------------------------------------------------------------
(***************************************************************************)
(* Definitions and their metadata.                                         *)
(***************************************************************************)
\* Mutant: the lowest bit of the hash is kept.
CalculateIDAnyBit(d) == Hash(d) % IdSpan

\* The lowest bit is left to the metadata.
CalculateID(d) == 2 * ((Hash(d) % IdSpan) \div 2)

FinishSetup(file) == [file EXCEPT !.fields = SortFields(FieldProcess(file.fields))]

ASSUME HashAssumption ==
  \A file \in Files :
    ~FieldError(file.fields) /\ ~Panics(file) => Hash(FinishSetup(file)) \in Nat

\* newDefinition: FinishSetup, then calculateID on the sorted fields.
NewDefinition(file) ==
  LET d == FinishSetup(file)
  IN  [name |-> d.name, settings |-> d.settings, single |-> d.single,
       fields |-> d.fields, meta |-> FALSE, ObjectID |-> CalculateID(d)]

MetaSuffix == <<77, 101, 116, 97>>

MetaField(name, type) ==
  [name |-> name, type |-> type, elements |-> 1, names |-> 0, options |-> <<>>,
   clone |-> <<>>, typed |-> TRUE]

\* Its fields are processed but not sorted.
NewMetaDefinition(parent) ==
  [name |-> parent.name \o MetaSuffix, settings |-> FALSE, single |-> TRUE,
   fields |-> << MetaField(<<109>>, "uint8"), MetaField(<<112, 70>>, "uint16"),
                 MetaField(<<112, 71>>, "uint16"), MetaField(<<112, 76>>, "uint16") >>,
   meta |-> TRUE, ObjectID |-> parent.ObjectID + 1]

Init ==
  /\ AllDefinitions = <<>>
  /\ files = <<>>
  /\ loader = "loading"

\* One round of the loop of newDefinitions.
Load(file) ==
  /\ loader = "loading"
  /\ Len(files) < MaxFiles
  /\ files' = Append(files, file)
  /\ loader' = CASE FieldError(file.fields) -> "fatal"
                 [] Panics(file) -> "panic"
                 [] OTHER -> "loading"
  /\ AllDefinitions' =
       IF loader' # "loading" THEN AllDefinitions
       ELSE AllDefinitions \o << NewDefinition(file), NewMetaDefinition(NewDefinition(file)) >>

Next == \E file \in Files : Load(file)

Spec == Init /\ [][Next]_vars

-----------------------------------------------------------------------------
(***************************************************************************)
(* Lookups.                                                                *)
(***************************************************************************)
GetDefinitionForObjectID(ds, id) ==
  {i \in DOMAIN ds : ds[i].ObjectID = id /\ \A j \in 1 .. i - 1 : ds[j].ObjectID # id}

ToLower(s) == [i \in DOMAIN s |-> IF s[i] \in 65 .. 90 THEN s[i] + 32 ELSE s[i]]
ToUpper(s) == [i \in DOMAIN s |-> IF s[i] \in 97 .. 122 THEN s[i] - 32 ELSE s[i]]

\* Mutant: the case of the name matters.
GetDefinitionForNameExact(ds, name) ==
  {i \in DOMAIN ds : ds[i].name = name /\ \A j \in 1 .. i - 1 : ds[j].name # name}

GetDefinitionForName(ds, name) ==
  {i \in DOMAIN ds : /\ ToLower(ds[i].name) = ToLower(name)
                     /\ \A j \in 1 .. i - 1 : ToLower(ds[j].name) # ToLower(name)}

-----------------------------------------------------------------------------
Objects == {i \in DOMAIN AllDefinitions : ~AllDefinitions[i].meta}

\* No object is ever mistaken for the metadata of another one, whatever the
\* hashes are: newPacketFromBinary looks both up in one list.
MetaNeverClashes ==
  \A i, j \in DOMAIN AllDefinitions :
    AllDefinitions[i].meta # AllDefinitions[j].meta
      => AllDefinitions[i].ObjectID # AllDefinitions[j].ObjectID

\* An object whose identifier no other object has is found by it, and its
\* metadata, with the identifier after it, is found too.
FoundByID ==
  \A i \in Objects :
    (\A j \in Objects \ {i} : AllDefinitions[j].ObjectID # AllDefinitions[i].ObjectID)
      => /\ GetDefinitionForObjectID(AllDefinitions, AllDefinitions[i].ObjectID) = {i}
         /\ GetDefinitionForObjectID(AllDefinitions, AllDefinitions[i].ObjectID + 1) = {i + 1}

SameIgnoringCase(i, j) ==
  ToLower(AllDefinitions[i].name) = ToLower(AllDefinitions[j].name)

\* sendAsRotondeDefinitions declares actions in upper case; toUAVTalkPacket
\* finds the definition of such an action again, for objects and metadata,
\* unless two names differ in case only.
ActionsFindTheirDefinition ==
  \A i \in DOMAIN AllDefinitions :
    (\A j \in DOMAIN AllDefinitions \ {i} : ~SameIgnoringCase(i, j))
      => GetDefinitionForName(AllDefinitions, ToUpper(AllDefinitions[i].name)) = {i}

\* Definitions are found by identifier and by the name of an action.
LookupsFind == FoundByID /\ ActionsFindTheirDefinition

FieldOffset(fs, k) ==
  LET upTo[i \in 0 .. Len(fs)] ==
        IF i = 0 THEN 0 ELSE upTo[i - 1] + Size(fs[i]) * fs[i].elements
  IN  upTo[k - 1]

\* The flight controller keeps an object in a C structure: every field
\* starts at a multiple of its size, clones and slices included.
WireAligned ==
  \A i \in Objects : LET fs == AllDefinitions[i].fields IN
    \A k \in DOMAIN fs : FieldOffset(fs, k) % Size(fs[k]) = 0

\* A clone has the type, the elements and the options of the field it names,
\* however many clones lie between, or the process does not get this far.
ClonesFaithful ==
  \A i \in Objects : LET fs == AllDefinitions[i].fields IN
    \A k \in DOMAIN fs : fs[k].clone # <<>> =>
      \E from \in DOMAIN fs :
        /\ fs[from].name = fs[k].clone
        /\ <<fs[from].type, fs[from].elements, fs[from].options>>
             = <<fs[k].type, fs[k].elements, fs[k].options>>

\* A chain of clones can only be followed towards the front of the file.
Backward(fs) ==
  \A i \in DOMAIN fs : fs[i].clone # <<>> =>
    \A from \in FieldForName(fs, fs[i].clone) : fs[from].clone # <<>> => from < i

\* Loading a definition ends the process in the sort only because of a
\* clone of a field that is itself a clone further down.
PanicsOnForwardClones ==
  loader = "panic" => ~Backward(files[Len(files)].fields)

\* The fields of a definition are those of its file, clones resolved, in an
\* order that keeps them aligned; a file is refused only for its clones.
FieldsAsDeclared == WireAligned /\ ClonesFaithful /\ PanicsOnForwardClones
=============================================================================
