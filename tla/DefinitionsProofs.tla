------------------------- MODULE DefinitionsProofs -------------------------
(***************************************************************************)
(* For every set of files, every hash and every even number of             *)
(* identifiers: identifiers of objects are even and those of metadata odd, *)
(* definitions are found by identifier and by name, and their fields are   *)
(* those of the file, clones resolved, at aligned offsets.                 *)
(***************************************************************************)
EXTENDS Definitions, WellFoundedInduction, TLAPS

\* What an entry of AllDefinitions has: a flag and an identifier whose
\* lowest bit is the flag.
Entry(d) ==
  /\ d.ObjectID \in 0 .. IdSpan - 1
  /\ \/ d.meta = FALSE /\ d.ObjectID % 2 = 0
     \/ d.meta = TRUE /\ d.ObjectID % 2 = 1

\* The inductive invariant: AllDefinitions is a sequence of such entries.
IInv ==
  /\ DOMAIN AllDefinitions = 1 .. Len(AllDefinitions)
  /\ Len(AllDefinitions) \in Nat
  /\ \A i \in DOMAIN AllDefinitions : Entry(AllDefinitions[i])

\* calculateID clears the lowest bit, and leaves room for one more.
LEMMA CalculateIDEven ==
  ASSUME NEW d, Hash(d) \in Nat
  PROVE  /\ CalculateID(d) \in 0 .. IdSpan - 2
         /\ CalculateID(d) % 2 = 0
<1> DEFINE h == Hash(d) % IdSpan
<1>1. h \in 0 .. IdSpan - 1
  BY DefinitionsAssumption
<1>2. PICK n \in Nat : IdSpan = 2 * n
  <2>1. IdSpan \div 2 \in Nat /\ IdSpan = 2 * (IdSpan \div 2)
    BY DefinitionsAssumption
  <2> QED  BY <2>1
<1>3. h \div 2 \in Nat /\ 2 * (h \div 2) <= h
  BY <1>1
<1>4. CalculateID(d) = 2 * (h \div 2)
  BY DEF CalculateID
<1> HIDE DEF h
<1> QED  BY <1>1, <1>2, <1>3, <1>4, DefinitionsAssumption

\* A definition and its metadata are entries.
LEMMA NewEntries ==
  ASSUME NEW file \in Files, ~FieldError(file.fields), ~Panics(file)
  PROVE  Entry(NewDefinition(file)) /\ Entry(NewMetaDefinition(NewDefinition(file)))
<1> DEFINE id == CalculateID(FinishSetup(file))
<1>1. id \in 0 .. IdSpan - 2 /\ id % 2 = 0
  BY CalculateIDEven, HashAssumption
<1>2. NewDefinition(file).meta = FALSE /\ NewDefinition(file).ObjectID = id
  BY DEF NewDefinition
<1>3. /\ NewMetaDefinition(NewDefinition(file)).meta = TRUE
      /\ NewMetaDefinition(NewDefinition(file)).ObjectID = id + 1
  BY <1>2 DEF NewMetaDefinition
<1> HIDE DEF id
<1>4. id + 1 \in 0 .. IdSpan - 1 /\ (id + 1) % 2 = 1
  BY <1>1, DefinitionsAssumption
<1>5. id \in 0 .. IdSpan - 1
  BY <1>1, DefinitionsAssumption
<1>6. Entry(NewDefinition(file))
  BY <1>1, <1>2, <1>5 DEF Entry
<1>7. Entry(NewMetaDefinition(NewDefinition(file)))
  BY <1>3, <1>4 DEF Entry
<1> QED  BY <1>6, <1>7

\* Appending two values to a sequence.
LEMMA TwoMore ==
  ASSUME NEW s, NEW x, NEW y, DOMAIN s = 1 .. Len(s), Len(s) \in Nat,
         NEW t, t = s \o <<x, y>>
  PROVE  /\ Len(t) = Len(s) + 2
         /\ DOMAIN t = 1 .. Len(t)
         /\ \A i \in 1 .. Len(s) : t[i] = s[i]
         /\ \A i \in 1 .. Len(t) : i \notin 1 .. Len(s) => t[i] \in {x, y}
  OBVIOUS

\* newDefinitions keeps the list in order: objects even, metadata odd.
THEOREM Inductive == Spec => []IInv
<1>1. Init => IInv
  BY DEF Init, IInv
<1>2. IInv /\ [Next]_vars => IInv'
  <2> SUFFICES ASSUME IInv, [Next]_vars
               PROVE  IInv'
    OBVIOUS
  <2>1. CASE UNCHANGED AllDefinitions
    BY <2>1 DEF IInv
  <2>2. ASSUME NEW file \in Files, Load(file), AllDefinitions' # AllDefinitions
        PROVE  IInv'
    <3> DEFINE d == NewDefinition(file)
               e == NewMetaDefinition(NewDefinition(file))
    <3>1. loader' = "loading" /\ AllDefinitions' = AllDefinitions \o <<d, e>>
      BY <2>2 DEF Load
    <3>2. ~FieldError(file.fields) /\ ~Panics(file)
      BY <2>2, <3>1 DEF Load
    <3>3. Entry(d) /\ Entry(e)
      BY <3>2, NewEntries
    <3> HIDE DEF d, e
    <3>4. /\ Len(AllDefinitions') = Len(AllDefinitions) + 2
          /\ DOMAIN AllDefinitions' = 1 .. Len(AllDefinitions')
          /\ \A i \in 1 .. Len(AllDefinitions) : AllDefinitions'[i] = AllDefinitions[i]
          /\ \A i \in 1 .. Len(AllDefinitions') :
               i \notin 1 .. Len(AllDefinitions) => AllDefinitions'[i] \in {d, e}
      BY <3>1, TwoMore DEF IInv
    <3>5. ASSUME NEW i \in DOMAIN AllDefinitions'
          PROVE  Entry(AllDefinitions'[i])
      <4>1. CASE i \in 1 .. Len(AllDefinitions)
        BY <4>1, <3>4 DEF IInv
      <4>2. CASE i \notin 1 .. Len(AllDefinitions)
        <5>1. AllDefinitions'[i] = d \/ AllDefinitions'[i] = e
          BY <4>2, <3>4
        <5> QED  BY <5>1, <3>3
      <4> QED  BY <4>1, <4>2
    <3>6. Len(AllDefinitions') \in Nat
      BY <3>4 DEF IInv
    <3>7. \A i \in DOMAIN AllDefinitions' : Entry(AllDefinitions'[i])
      BY <3>5
    <3> QED  BY <3>4, <3>6, <3>7 DEF IInv, Entry
  <2> QED  BY <2>1, <2>2 DEF Next, vars
<1> QED  BY <1>1, <1>2, PTL DEF Spec

\* An object read from the flight controller is never taken for the
\* metadata of another one.
THEOREM MetaNeverClashesAlways == Spec => []MetaNeverClashes
<1>1. IInv => MetaNeverClashes
  <2> SUFFICES ASSUME IInv, NEW i \in DOMAIN AllDefinitions, NEW j \in DOMAIN AllDefinitions,
                      AllDefinitions[i].meta # AllDefinitions[j].meta
               PROVE  AllDefinitions[i].ObjectID # AllDefinitions[j].ObjectID
    BY DEF MetaNeverClashes
  <2>1. Entry(AllDefinitions[i]) /\ Entry(AllDefinitions[j])
    BY DEF IInv
  <2>2. 0 # 1
    OBVIOUS
  <2> QED  BY <2>1, <2>2, Zenon DEF Entry
<1> QED  BY <1>1, Inductive, PTL

\* Every identifier fits: parent.ObjectID + 1 never wraps around.
THEOREM IdentifiersFit ==
  Spec => [](\A i \in DOMAIN AllDefinitions : AllDefinitions[i].ObjectID \in 0 .. IdSpan - 1)
<1>1. IInv => \A i \in DOMAIN AllDefinitions : AllDefinitions[i].ObjectID \in 0 .. IdSpan - 1
  BY DEF IInv, Entry
<1> QED  BY <1>1, Inductive, PTL

-----------------------------------------------------------------------------
(***************************************************************************)
(* Lookups.  An object is followed by its metadata, and metadata preceded  *)
(* by its object; names are sequences of code points.                      *)
(***************************************************************************)
Paired(ds) ==
  \A i \in DOMAIN ds :
    IF ds[i].meta
    THEN i - 1 \in DOMAIN ds /\ ~ds[i - 1].meta /\ ds[i].ObjectID = ds[i - 1].ObjectID + 1
    ELSE i + 1 \in DOMAIN ds /\ ds[i + 1].meta /\ ds[i + 1].ObjectID = ds[i].ObjectID + 1

PairInv ==
  /\ IInv
  /\ Paired(AllDefinitions)
  /\ \A i \in DOMAIN AllDefinitions : AllDefinitions[i].name \in Seq(Nat)

\* What newDefinitions adds for a file.
LEMMA NewPair ==
  ASSUME NEW file \in Files
  PROVE  LET d == NewDefinition(file)
             e == NewMetaDefinition(d)
         IN  /\ d.meta = FALSE /\ e.meta = TRUE /\ e.ObjectID = d.ObjectID + 1
             /\ d.name \in Seq(Nat) /\ e.name \in Seq(Nat)
<1> DEFINE d == NewDefinition(file)
           e == NewMetaDefinition(d)
<1>1. FinishSetup(file).name = file.name
  BY DEF FinishSetup
<1>2. d.meta = FALSE /\ d.name = file.name
  BY <1>1 DEF NewDefinition
<1> HIDE DEF d
<1>3. e.meta = TRUE /\ e.ObjectID = d.ObjectID + 1 /\ e.name = d.name \o MetaSuffix
  BY DEF NewMetaDefinition
<1>4. file.name \in Seq(Nat) /\ MetaSuffix \in Seq(Nat)
  BY DefinitionsAssumption DEF MetaSuffix
<1> QED
  BY <1>2, <1>3, <1>4 DEF d

LEMMA PairedMore ==
  ASSUME NEW s, NEW x, NEW y, DOMAIN s = 1 .. Len(s), Len(s) \in Nat, Paired(s),
         x.meta = FALSE, y.meta = TRUE, y.ObjectID = x.ObjectID + 1
  PROVE  Paired(s \o <<x, y>>)
<1> DEFINE t == s \o <<x, y>>
           n == Len(s)
<1>1. /\ DOMAIN t = 1 .. n + 2
      /\ \A i \in 1 .. n : t[i] = s[i]
      /\ t[n + 1] = x /\ t[n + 2] = y
  OBVIOUS
<1> SUFFICES Paired(t)
  OBVIOUS
<1>2. n \in Nat /\ DOMAIN s = 1 .. n
  OBVIOUS
<1> HIDE DEF t, n
<1> SUFFICES ASSUME NEW i \in 1 .. n + 2
             PROVE  IF t[i].meta
                    THEN i - 1 \in DOMAIN t /\ ~t[i - 1].meta /\ t[i].ObjectID = t[i - 1].ObjectID + 1
                    ELSE i + 1 \in DOMAIN t /\ t[i + 1].meta /\ t[i + 1].ObjectID = t[i].ObjectID + 1
  BY <1>1 DEF Paired
<1>3. CASE i \in 1 .. n
  <2>1. t[i] = s[i]
    BY <1>1, <1>3
  <2>2. CASE s[i].meta
    <3>1. i - 1 \in 1 .. n /\ ~s[i - 1].meta /\ s[i].ObjectID = s[i - 1].ObjectID + 1
      BY <1>2, <1>3, <2>2 DEF Paired
    <3>2. t[i - 1] = s[i - 1] /\ i - 1 \in DOMAIN t
      BY <1>1, <1>2, <3>1
    <3> QED
      BY <2>1, <2>2, <3>1, <3>2
  <2>3. CASE ~s[i].meta
    <3>1. i + 1 \in 1 .. n /\ s[i + 1].meta /\ s[i + 1].ObjectID = s[i].ObjectID + 1
      BY <1>2, <1>3, <2>3 DEF Paired
    <3>2. t[i + 1] = s[i + 1] /\ i + 1 \in DOMAIN t
      BY <1>1, <1>2, <3>1
    <3> QED
      BY <2>1, <2>3, <3>1, <3>2
  <2> QED
    BY <2>2, <2>3
<1>4. CASE i = n + 1
  <2>1. i + 1 = n + 2 /\ n + 2 \in DOMAIN t
    BY <1>1, <1>2, <1>4
  <2> QED
    BY <1>1, <1>4, <2>1
<1>5. CASE i = n + 2
  <2>1. i - 1 = n + 1 /\ n + 1 \in DOMAIN t
    BY <1>1, <1>2, <1>5
  <2> QED
    BY <1>1, <1>5, <2>1
<1> QED
  BY <1>2, <1>3, <1>4, <1>5

LEMMA Pairs == Spec => []PairInv
<1>1. Init => Paired(AllDefinitions) /\ \A i \in DOMAIN AllDefinitions : AllDefinitions[i].name \in Seq(Nat)
  BY DEF Init, Paired
<1>2. ASSUME PairInv, [Next]_vars
      PROVE  /\ Paired(AllDefinitions)'
             /\ (\A i \in DOMAIN AllDefinitions : AllDefinitions[i].name \in Seq(Nat))'
  <2>1. CASE UNCHANGED AllDefinitions
    BY <1>2, <2>1 DEF PairInv, Paired
  <2>2. ASSUME NEW file \in Files, Load(file), AllDefinitions' # AllDefinitions
        PROVE  /\ Paired(AllDefinitions)'
               /\ (\A i \in DOMAIN AllDefinitions : AllDefinitions[i].name \in Seq(Nat))'
    <3> DEFINE d == NewDefinition(file)
               e == NewMetaDefinition(d)
    <3>1. AllDefinitions' = AllDefinitions \o <<d, e>>
      BY <2>2 DEF Load
    <3>2. /\ d.meta = FALSE /\ e.meta = TRUE /\ e.ObjectID = d.ObjectID + 1
          /\ d.name \in Seq(Nat) /\ e.name \in Seq(Nat)
      BY NewPair
    <3> HIDE DEF d, e
    <3>3. DOMAIN AllDefinitions = 1 .. Len(AllDefinitions) /\ Len(AllDefinitions) \in Nat
      BY <1>2 DEF PairInv, IInv
    <3>4. Paired(AllDefinitions')
      BY <1>2, <3>1, <3>2, <3>3, PairedMore DEF PairInv
    <3>5. ASSUME NEW i \in DOMAIN AllDefinitions' PROVE AllDefinitions'[i].name \in Seq(Nat)
      <4>1. /\ DOMAIN AllDefinitions' = 1 .. Len(AllDefinitions')
            /\ \A j \in 1 .. Len(AllDefinitions) : AllDefinitions'[j] = AllDefinitions[j]
            /\ \A j \in 1 .. Len(AllDefinitions') :
                 j \notin 1 .. Len(AllDefinitions) => AllDefinitions'[j] \in {d, e}
        BY <3>1, <3>3, TwoMore
      <4>2. CASE i \in 1 .. Len(AllDefinitions)
        BY <1>2, <3>3, <4>1, <4>2 DEF PairInv
      <4>3. CASE i \notin 1 .. Len(AllDefinitions)
        BY <3>2, <4>1, <4>3
      <4> QED
        BY <4>2, <4>3
    <3> QED
      BY <3>4, <3>5
  <2> QED
    BY <1>2, <2>1, <2>2 DEF Next, vars
<1> QED
  BY <1>1, <1>2, Inductive, PTL DEF Spec, PairInv

\* Upper and lower case of code points: strings.ToLower undoes strings.ToUpper
\* as far as a comparison of lower case goes.
LEMMA LowerOfUpper ==
  ASSUME NEW s \in Seq(Nat)
  PROVE  ToLower(ToUpper(s)) = ToLower(s)
<1>1. DOMAIN ToUpper(s) = DOMAIN s
  BY DEF ToUpper
<1>2. ASSUME NEW i \in DOMAIN s PROVE ToLower(ToUpper(s))[i] = ToLower(s)[i]
  <2> DEFINE c == s[i]
             u == IF c \in 97 .. 122 THEN c - 32 ELSE c
  <2>1. ToUpper(s)[i] = u
    BY DEF ToUpper
  <2> HIDE DEF u
  <2>2. ToLower(ToUpper(s))[i] = IF u \in 65 .. 90 THEN u + 32 ELSE u
    BY <1>1, <2>1 DEF ToLower
  <2>3. ToLower(s)[i] = IF c \in 65 .. 90 THEN c + 32 ELSE c
    BY DEF ToLower
  <2>4. c \in Nat
    OBVIOUS
  <2> HIDE DEF c
  <2> QED
    BY <2>2, <2>3, <2>4 DEF u
<1> QED
  BY <1>1, <1>2 DEF ToLower

LEMMA FoundByIDAlways == PairInv => FoundByID
<1> SUFFICES ASSUME PairInv, NEW i \in Objects,
                    \A j \in Objects \ {i} : AllDefinitions[j].ObjectID # AllDefinitions[i].ObjectID
             PROVE  /\ GetDefinitionForObjectID(AllDefinitions, AllDefinitions[i].ObjectID) = {i}
                    /\ GetDefinitionForObjectID(AllDefinitions, AllDefinitions[i].ObjectID + 1) = {i + 1}
  BY DEF FoundByID
<1> DEFINE ds == AllDefinitions
           id == ds[i].ObjectID
<1>1. DOMAIN ds = 1 .. Len(ds) /\ Len(ds) \in Nat /\ Paired(ds)
  BY DEF PairInv, IInv
<1>2. i \in DOMAIN ds /\ ~ds[i].meta
  BY DEF Objects
<1>3. i + 1 \in DOMAIN ds /\ ds[i + 1].ObjectID = id + 1
  BY <1>1, <1>2 DEF Paired
<1>4. id \in Nat /\ id % 2 = 0
  BY <1>2 DEF PairInv, IInv, Entry
<1>5. ASSUME NEW j \in DOMAIN ds
      PROVE  ds[j].ObjectID \in Nat /\ (ds[j].meta <=> ds[j].ObjectID % 2 = 1)
  <2>1. Entry(ds[j])
    BY <1>5 DEF PairInv, IInv
  <2>2. 0 # 1
    OBVIOUS
  <2>3. ds[j].meta <=> ds[j].ObjectID % 2 = 1
    BY <2>1, <2>2, Zenon DEF Entry
  <2>4. ds[j].ObjectID \in Nat
    BY <2>1, DefinitionsAssumption DEF Entry
  <2> QED
    BY <2>3, <2>4
<1>6. ASSUME NEW j \in DOMAIN ds, ds[j].ObjectID = id PROVE j = i
  <2>1. ~ds[j].meta
    BY <1>2, <1>4, <1>5, <1>6
  <2> QED
    BY <1>6, <2>1 DEF Objects
<1>7. ASSUME NEW j \in DOMAIN ds, ds[j].ObjectID = id + 1 PROVE j = i + 1
  <2>1. (id + 1) % 2 = 1
    BY <1>4
  <2>2. ds[j].meta
    BY <1>5, <1>7, <2>1
  <2>3. j - 1 \in DOMAIN ds /\ ds[j].ObjectID = ds[j - 1].ObjectID + 1
    BY <1>1, <2>2 DEF Paired
  <2>4. ds[j - 1].ObjectID \in Nat
    BY <1>5, <2>3
  <2>5. ds[j - 1].ObjectID = id
    BY <1>4, <1>7, <2>3, <2>4
  <2>6. j - 1 = i
    BY <1>6, <2>3, <2>5
  <2> QED
    BY <1>1, <2>6
<1> SUFFICES /\ GetDefinitionForObjectID(ds, id) = {i}
             /\ GetDefinitionForObjectID(ds, id + 1) = {i + 1}
  OBVIOUS
<1>8. ASSUME NEW k \in DOMAIN ds, NEW x, ds[k].ObjectID = x,
             \A j \in DOMAIN ds : ds[j].ObjectID = x => j = k
      PROVE  GetDefinitionForObjectID(ds, x) = {k}
  <2>1. \A j \in 1 .. k - 1 : j \in DOMAIN ds /\ j # k
    BY <1>1
  <2> HIDE DEF ds
  <2> QED
    BY <1>8, <2>1 DEF GetDefinitionForObjectID
<1> HIDE DEF ds, id
<1> QED
  BY <1>2, <1>3, <1>6, <1>7, <1>8 DEF id

LEMMA ActionsFindAlways == PairInv => ActionsFindTheirDefinition
<1> SUFFICES ASSUME PairInv, NEW i \in DOMAIN AllDefinitions,
                    \A j \in DOMAIN AllDefinitions \ {i} : ~SameIgnoringCase(i, j)
             PROVE  GetDefinitionForName(AllDefinitions, ToUpper(AllDefinitions[i].name)) = {i}
  BY DEF ActionsFindTheirDefinition
<1> DEFINE low(j) == ToLower(AllDefinitions[j].name)
<1>1. ToLower(ToUpper(AllDefinitions[i].name)) = low(i)
  BY LowerOfUpper DEF PairInv
<1>2. \A j \in DOMAIN AllDefinitions : low(j) = low(i) => j = i
  BY DEF SameIgnoringCase
<1>3. \A j \in 1 .. i - 1 : j \in DOMAIN AllDefinitions /\ j # i
  BY DEF PairInv, IInv
<1> QED
  BY <1>1, <1>2, <1>3 DEF GetDefinitionForName

\* GetDefinitionForObjectID finds every object whose identifier is its own,
\* and the metadata of that object; GetDefinitionForName finds the definition
\* for the upper case name an action was declared with, unless two names
\* differ in case only: for any files, any hash and any even number of
\* identifiers.
THEOREM LookupsFindAlways == Spec => []LookupsFind
<1>1. PairInv => LookupsFind
  BY FoundByIDAlways, ActionsFindAlways DEF LookupsFind
<1> QED
  BY <1>1, Pairs, PTL

-----------------------------------------------------------------------------
(***************************************************************************)
(* Recursion and induction on 0 .. n, by least counterexample.             *)
(***************************************************************************)
LEMMA LeastElement ==
  ASSUME NEW T \in SUBSET Nat, T # {}
  PROVE  \E n \in T : \A m \in T : n <= m
<1>1. IsWellFoundedOn(OpToRel(<, Nat), Nat)
  BY NatLessThanWellFounded
<1>2. PICK n \in T : \A m \in T : ~(<<m, n>> \in OpToRel(<, Nat))
  BY <1>1, WFMin
<1>3. \A m \in T : m < n => <<m, n>> \in OpToRel(<, Nat)
  BY DEF OpToRel
<1>4. \A m \in T : ~(m < n)
  BY <1>2, <1>3
<1>5. \A m \in T : m \in Nat /\ n \in Nat
  OBVIOUS
<1> QED
  BY <1>4, <1>5

\* What holds of 0 and passes from each index to the next holds up to n.
LEMMA UpTo ==
  ASSUME NEW n \in Nat, NEW T, 0 \in T, \A i \in 1 .. n : i - 1 \in T => i \in T
  PROVE  0 .. n \subseteq T
<1> DEFINE U == {i \in 0 .. n : i \notin T}
<1> SUFFICES ASSUME U # {} PROVE FALSE
  OBVIOUS
<1>1. PICK m \in U : \A i \in U : m <= i
  <2>1. U \in SUBSET Nat
    OBVIOUS
  <2> HIDE DEF U
  <2> QED
    BY <2>1, LeastElement
<1>2. m \in 1 .. n /\ m - 1 \in 0 .. n /\ ~(m <= m - 1)
  OBVIOUS
<1>3. m - 1 \notin U
  BY <1>1, <1>2
<1> QED
  BY <1>2, <1>3

\* A function on 0 .. n that starts with b and goes on with G exists.
Iterates(f, n, b, G) ==
  f = [i \in 0 .. n |-> IF i = 0 THEN b ELSE G[f[i - 1], i]]

LEMMA IteratesExist ==
  ASSUME NEW S, NEW b \in S, NEW N \in Nat, NEW G \in [S \X (1 .. N) -> S]
  PROVE  \E f \in [0 .. N -> S] : Iterates(f, N, b, G)
<1> DEFINE T == {n \in 0 .. N : \E f \in [0 .. n -> S] : Iterates(f, n, b, G)}
<1>1. 0 \in T
  <2> DEFINE f == [i \in 0 .. 0 |-> b]
  <2>1. f \in [0 .. 0 -> S] /\ f = [i \in 0 .. 0 |-> IF i = 0 THEN b ELSE G[f[i - 1], i]]
    OBVIOUS
  <2>2. Iterates(f, 0, b, G)
    BY <2>1 DEF Iterates
  <2> QED
    BY <2>1, <2>2
<1>2. ASSUME NEW m \in 1 .. N, m - 1 \in T PROVE m \in T
  <2>1. PICK f \in [0 .. m - 1 -> S] : Iterates(f, m - 1, b, G)
    BY <1>2
  <2> DEFINE last == G[f[m - 1], m]
             g == [i \in 0 .. m |-> IF i = m THEN last ELSE f[i]]
             h == [i \in 0 .. m |-> IF i = 0 THEN b ELSE G[g[i - 1], i]]
  <2>2. last \in S
    <3>1. <<f[m - 1], m>> \in S \X (1 .. N)
      OBVIOUS
    <3> QED
      BY <3>1
  <2> HIDE DEF last
  <2>3. /\ m \in Nat /\ m \in 0 .. m /\ m # 0 /\ 0 \in 0 .. m /\ 0 \in 0 .. m - 1
         /\ \A i \in 0 .. m : i # m => i \in 0 .. m - 1
    OBVIOUS
  <2>4. g \in [0 .. m -> S] /\ DOMAIN h = 0 .. m
    BY <2>2, <2>3
  <2>5. (\A i \in 0 .. m : i # m => g[i] = f[i]) /\ g[m] = last
    BY <2>3
  <2>6. \A i \in 0 .. m : h[i] = IF i = 0 THEN b ELSE G[g[i - 1], i]
    OBVIOUS
  <2>7. \A i \in 0 .. m - 1 : f[i] = IF i = 0 THEN b ELSE G[f[i - 1], i]
    BY <2>1 DEF Iterates
  <2>8. ASSUME NEW i \in 0 .. m PROVE g[i] = h[i]
    <3> HIDE DEF g, h, last
    <3>1. CASE i = 0
      BY <2>5, <2>6, <2>7, <2>3, <3>1
    <3>2. CASE i = m
      <4>1. g[i - 1] = f[i - 1]
        BY <2>5, <3>2
      <4> QED
        BY <2>5, <2>6, <2>3, <3>2, <4>1 DEF last
    <3>3. CASE i # 0 /\ i # m
      <4>1. i \in 0 .. m - 1 /\ i - 1 \in 0 .. m /\ i - 1 # m
        BY <3>3
      <4>2. g[i] = f[i] /\ g[i - 1] = f[i - 1]
        BY <2>5, <3>3, <4>1
      <4> QED
        BY <2>6, <2>7, <3>3, <4>1, <4>2
    <3> QED
      BY <3>1, <3>2, <3>3
  <2>9. g = h
    <3>1. g = [i \in 0 .. m |-> g[i]] /\ h = [i \in 0 .. m |-> h[i]]
      OBVIOUS
    <3> HIDE DEF g, h
    <3> QED
      BY <2>8, <3>1
  <2>10. Iterates(g, m, b, G)
    BY <2>9 DEF Iterates
  <2> HIDE DEF g
  <2> QED
    BY <2>4, <2>10
<1> HIDE DEF T
<1>3. N \in T
  BY <1>1, <1>2, UpTo
<1> QED
  BY <1>3 DEF T

-----------------------------------------------------------------------------
(***************************************************************************)
(* fieldProcess.  Named(fs) has what the loop over the clones of fs works  *)
(* on: names and clones stay, and FieldTypeInfo is set for a known type.   *)
(***************************************************************************)
Fields ==
  [name : Seq(Nat), type : STRING, elements : Nat, names : Nat,
   options : Seq(Seq(Nat)), clone : Seq(Nat), typed : BOOLEAN]

Named(fs) ==
  {g \in [DOMAIN fs -> Fields] : \A k \in DOMAIN fs :
     /\ g[k].name = fs[k].name /\ g[k].clone = fs[k].clone
     /\ g[k].typed => g[k].type \in DOMAIN TypeInfos}

\* The field that field k of fs is a clone of.
From(fs, k) == CHOOSE j \in FieldForName(fs, fs[k].clone) : TRUE

Copy(x, f) == [x EXCEPT !.name = f.name, !.clone = f.clone]

LEMMA PrepareType ==
  ASSUME NEW f \in FileFields
  PROVE  /\ Prepare(f) \in Fields
         /\ Prepare(f).name = f.name /\ Prepare(f).clone = f.clone
         /\ f.clone = <<>> => (Prepare(f).typed <=> Prepare(f).type \in DOMAIN TypeInfos)
                              /\ Prepare(f).type = f.type
         /\ f.clone # <<>> => Prepare(f) = f /\ ~f.typed
<1>1. CASE f.clone # <<>>
  <2>1. Prepare(f) = f /\ f \in Fields /\ ~f.typed
    BY <1>1 DEF FileFields, Fields, Prepare
  <2> QED
    BY <1>1, <2>1
<1>2. CASE f.clone = <<>>
  <2> DEFINE e == CASE f.names > 0 -> f.names
                    [] f.names = 0 /\ f.elements = 0 -> 1
                    [] OTHER -> f.elements
             known == f.type \in DOMAIN TypeInfos
  <2>1. e \in Nat
    BY DEF FileFields
  <2>2. known \in BOOLEAN
    OBVIOUS
  <2>3. Prepare(f) = [f EXCEPT !.elements = e, !.typed = known]
    BY <1>2 DEF Prepare
  <2> HIDE DEF e, known
  <2>4. /\ Prepare(f) \in Fields /\ Prepare(f).name = f.name /\ Prepare(f).clone = f.clone
        /\ Prepare(f).type = f.type /\ Prepare(f).typed = known
    BY <2>1, <2>2, <2>3 DEF FileFields, Fields
  <2> QED
    BY <1>2, <2>4 DEF known
<1> QED
  BY <1>1, <1>2

LEMMA CopyType ==
  ASSUME NEW x \in Fields, NEW f \in FileFields
  PROVE  /\ Copy(x, f) \in Fields
         /\ Copy(x, f).name = f.name /\ Copy(x, f).clone = f.clone
         /\ Copy(x, f).type = x.type /\ Copy(x, f).elements = x.elements
         /\ Copy(x, f).options = x.options /\ (Copy(x, f).typed <=> x.typed)
BY DEF Fields, FileFields, Copy

LEMMA FromExists ==
  ASSUME NEW fs \in Seq(FileFields), ~FieldError(fs), NEW i \in DOMAIN fs, fs[i].clone # <<>>
  PROVE  /\ From(fs, i) \in FieldForName(fs, fs[i].clone)
         /\ From(fs, i) \in DOMAIN fs /\ fs[From(fs, i)].name = fs[i].clone
<1>1. FieldForName(fs, fs[i].clone) # {}
  BY DEF FieldError
<1>2. From(fs, i) \in FieldForName(fs, fs[i].clone)
  BY <1>1 DEF From
<1> QED
  BY <1>2 DEF FieldForName

LEMMA CloneStep ==
  ASSUME NEW fs \in Seq(FileFields), ~FieldError(fs), NEW g \in Named(fs), NEW i \in DOMAIN fs
  PROVE  /\ Clone(g, i) \in Named(fs)
         /\ fs[i].clone = <<>> => Clone(g, i) = g
         /\ fs[i].clone # <<>> =>
              /\ Clone(g, i)[i] = Copy(g[From(fs, i)], fs[i])
              /\ \A k \in DOMAIN fs : k # i => Clone(g, i)[k] = g[k]
<1>1. /\ DOMAIN g = DOMAIN fs
      /\ \A k \in DOMAIN fs : g[k] \in Fields /\ g[k].name = fs[k].name /\ g[k].clone = fs[k].clone
      /\ \A k \in DOMAIN fs : g[k].typed => g[k].type \in DOMAIN TypeInfos
  BY DEF Named
<1>2. CASE fs[i].clone = <<>>
  BY <1>1, <1>2 DEF Clone
<1>3. CASE fs[i].clone # <<>>
  <2> DEFINE from == CHOOSE j \in FieldForName(g, g[i].clone) : TRUE
  <2>1. g[i].clone # <<>>
    BY <1>1, <1>3
  <2>2. FieldForName(g, g[i].clone) = FieldForName(fs, fs[i].clone)
    <3>1. \A j \in DOMAIN fs : \A k \in 1 .. j - 1 : k \in DOMAIN fs
      OBVIOUS
    <3> QED
      BY <1>1, <3>1 DEF FieldForName
  <2>3. from = From(fs, i)
    BY <2>2 DEF From
  <2>4. from \in DOMAIN fs
    BY <1>3, <2>3, FromExists
  <2>5. Clone(g, i) = [k \in DOMAIN g |->
                         IF k = i THEN [g[from] EXCEPT !.name = g[i].name, !.clone = g[i].clone]
                         ELSE g[k]]
    BY <2>1 DEF Clone
  <2> HIDE DEF from
  <2>6. Clone(g, i) = [k \in DOMAIN fs |-> IF k = i THEN Copy(g[from], fs[i]) ELSE g[k]]
    BY <1>1, <2>5 DEF Copy
  <2>7. fs[i] \in FileFields /\ g[from] \in Fields
    BY <1>1, <2>4
  <2>8. /\ Copy(g[from], fs[i]) \in Fields
        /\ Copy(g[from], fs[i]).name = fs[i].name /\ Copy(g[from], fs[i]).clone = fs[i].clone
        /\ Copy(g[from], fs[i]).typed => Copy(g[from], fs[i]).type \in DOMAIN TypeInfos
    BY <1>1, <2>4, <2>7, CopyType
  <2>9. Clone(g, i) \in Named(fs)
    BY <1>1, <2>6, <2>8 DEF Named
  <2> QED
    BY <1>3, <2>3, <2>6, <2>9
<1> QED
  BY <1>2, <1>3

LEMMA ProcessSteps ==
  ASSUME NEW fs \in Seq(FileFields), ~FieldError(fs)
  PROVE  \E c \in [0 .. Len(fs) -> Named(fs)] :
           /\ \A k \in DOMAIN fs : c[0][k] = Prepare(fs[k])
           /\ \A i \in 1 .. Len(fs) : c[i] = Clone(c[i - 1], i)
           /\ FieldProcess(fs) = c[Len(fs)]
<1> DEFINE n == Len(fs)
           b == [k \in DOMAIN fs |-> Prepare(fs[k])]
           S == Named(fs)
           G == [x \in S \X (1 .. n) |-> Clone(x[1], x[2])]
           R(f) == f = [i \in 0 .. n |-> IF i = 0 THEN b ELSE Clone(f[i - 1], i)]
<1>1. n \in Nat /\ DOMAIN fs = 1 .. n
  OBVIOUS
<1>2. b \in S
  <2>1. ASSUME NEW k \in DOMAIN fs
        PROVE  /\ b[k] \in Fields /\ b[k].name = fs[k].name /\ b[k].clone = fs[k].clone
               /\ b[k].typed => b[k].type \in DOMAIN TypeInfos
    <3>1. fs[k] \in FileFields
      OBVIOUS
    <3>2. fs[k].clone # <<>> => ~Prepare(fs[k]).typed
      BY <3>1, PrepareType
    <3> QED
      BY <3>1, <3>2, PrepareType
  <2>2. b = [k \in DOMAIN fs |-> b[k]]
    OBVIOUS
  <2> HIDE DEF b
  <2> QED
    BY <2>1, <2>2 DEF Named
<1>3. \A g \in S, i \in 1 .. n : Clone(g, i) \in S
  BY <1>1, CloneStep
<1> HIDE DEF b, n, S
<1>4. G \in [S \X (1 .. n) -> S]
  BY <1>3
<1>5. \A g \in S, i \in 1 .. n : G[g, i] = Clone(g, i)
  OBVIOUS
<1> HIDE DEF G
<1>6. PICK f \in [0 .. n -> S] : Iterates(f, n, b, G)
  BY <1>1, <1>2, <1>4, IteratesExist
<1>7. R(f)
  <2> DEFINE h == [i \in 0 .. n |-> IF i = 0 THEN b ELSE Clone(f[i - 1], i)]
  <2>1. ASSUME NEW i \in 0 .. n PROVE f[i] = h[i]
    <3>1. f[i] = IF i = 0 THEN b ELSE G[f[i - 1], i]
      BY <1>6 DEF Iterates
    <3>2. i # 0 => i \in 1 .. n /\ f[i - 1] \in S
      BY <1>1
    <3> QED
      BY <1>5, <3>1, <3>2
  <2>2. f = [i \in 0 .. n |-> f[i]] /\ h = [i \in 0 .. n |-> h[i]]
    OBVIOUS
  <2> HIDE DEF h
  <2>3. f = h
    BY <2>1, <2>2
  <2> QED
    BY <2>3 DEF h
<1> DEFINE c == CHOOSE g : R(g)
<1>8. R(c)
  BY <1>7
<1>9. FieldProcess(fs) = c[n]
  BY DEF FieldProcess, b, n
<1> HIDE DEF c
<1>10. c \in [0 .. n -> S] /\ c[0] = b /\ \A i \in 1 .. n : c[i] = Clone(c[i - 1], i)
  <2>1. DOMAIN c = 0 .. n /\ \A i \in 0 .. n : c[i] = IF i = 0 THEN b ELSE Clone(c[i - 1], i)
    BY <1>8
  <2>2. c[0] = b /\ \A i \in 1 .. n : c[i] = Clone(c[i - 1], i)
    BY <1>1, <2>1
  <2> DEFINE T == {i \in 0 .. n : c[i] \in S}
  <2>3. 0 \in T /\ \A i \in 1 .. n : i - 1 \in T => i \in T
    BY <1>1, <1>2, <1>3, <2>2
  <2> HIDE DEF T
  <2>4. 0 .. n \subseteq T
    BY <1>1, <2>3, UpTo
  <2>5. \A i \in 0 .. n : c[i] \in S
    BY <2>4 DEF T
  <2>6. c = [i \in 0 .. n |-> c[i]]
    BY <1>8
  <2> QED
    BY <2>2, <2>5, <2>6
<1>11. \A k \in DOMAIN fs : c[0][k] = Prepare(fs[k])
  BY <1>10 DEF b
<1> QED
  BY <1>9, <1>10, <1>11 DEF n, S

\* What field k was copied from: a field that was ready, or else a clone
\* further down as it is in the file.
Source(fs, k, g) ==
  IF From(fs, k) < k \/ fs[From(fs, k)].clone = <<>> THEN g[From(fs, k)] ELSE fs[From(fs, k)]

\* The loop over the clones has reached field i.
Reached(fs, i, g) ==
  \A k \in DOMAIN fs :
    /\ k > i \/ fs[k].clone = <<>> => g[k] = Prepare(fs[k])
    /\ k <= i /\ fs[k].clone # <<>> => g[k] = Copy(Source(fs, k, g), fs[k])

LEMMA ReachedStep ==
  ASSUME NEW fs \in Seq(FileFields), ~FieldError(fs), NEW g \in Named(fs), NEW i \in DOMAIN fs,
         Reached(fs, i - 1, g)
  PROVE  Reached(fs, i, Clone(g, i))
<1> DEFINE h == Clone(g, i)
<1>1. DOMAIN fs = 1 .. Len(fs) /\ Len(fs) \in Nat /\ i \in Nat
  OBVIOUS
<1>2. CASE fs[i].clone = <<>>
  <2>1. h = g
    BY <1>2, CloneStep
  <2>2. \A k \in DOMAIN fs : k > i => k > i - 1
    BY <1>1
  <2>3. \A k \in DOMAIN fs : k <= i /\ fs[k].clone # <<>> => k <= i - 1
    BY <1>1, <1>2
  <2> HIDE DEF h
  <2>4. Reached(fs, i, g)
    BY <2>2, <2>3 DEF Reached
  <2> QED
    BY <2>1, <2>4 DEF h
<1>3. CASE fs[i].clone # <<>>
  <2>1. h[i] = Copy(g[From(fs, i)], fs[i]) /\ \A k \in DOMAIN fs : k # i => h[k] = g[k]
    BY <1>3, CloneStep
  <2> SUFFICES ASSUME NEW k \in DOMAIN fs
               PROVE  /\ k > i \/ fs[k].clone = <<>> => h[k] = Prepare(fs[k])
                      /\ k <= i /\ fs[k].clone # <<>> => h[k] = Copy(Source(fs, k, h), fs[k])
    BY DEF Reached
  <2> HIDE DEF h
  <2>2. ASSUME k > i \/ fs[k].clone = <<>> PROVE h[k] = Prepare(fs[k])
    <3>1. k # i /\ (k > i - 1 \/ fs[k].clone = <<>>)
      BY <1>1, <1>3, <2>2
    <3> QED
      BY <2>1, <3>1 DEF Reached
  <2>3. ASSUME k <= i, fs[k].clone # <<>> PROVE h[k] = Copy(Source(fs, k, h), fs[k])
    <3> DEFINE from == From(fs, k)
    <3>1. from \in DOMAIN fs
      BY <2>3, FromExists
    <3> HIDE DEF from
    <3>2. from < k \/ fs[from].clone = <<>> => from # i
      BY <1>1, <1>3, <2>3, <3>1
    <3>3. Source(fs, k, h) = Source(fs, k, g)
      BY <2>1, <3>1, <3>2 DEF Source, from
    <3>4. CASE k # i
      <4>1. k <= i - 1 /\ h[k] = g[k]
        BY <1>1, <2>1, <2>3, <3>4
      <4> QED
        BY <2>3, <3>3, <4>1 DEF Reached
    <3>5. CASE k = i
      <4>1. Source(fs, i, g) = g[from]
        <5>1. CASE from < k \/ fs[from].clone = <<>>
          BY <3>5, <5>1 DEF Source, from
        <5>2. CASE ~(from < k \/ fs[from].clone = <<>>)
          <6>1. from > i - 1
            BY <1>1, <3>1, <3>5, <5>2
          <6>2. g[from] = Prepare(fs[from])
            BY <3>1, <6>1 DEF Reached
          <6>3. Prepare(fs[from]) = fs[from]
            BY <3>1, <5>2, PrepareType
          <6> QED
            BY <3>5, <5>2, <6>2, <6>3 DEF Source, from
        <5> QED
          BY <5>1, <5>2
      <4> QED
        BY <2>1, <3>3, <3>5, <4>1 DEF from
    <3> QED
      BY <3>4, <3>5
  <2> QED
    BY <2>2, <2>3
<1> QED
  BY <1>2, <1>3

LEMMA Processed ==
  ASSUME NEW fs \in Seq(FileFields), ~FieldError(fs)
  PROVE  FieldProcess(fs) \in Named(fs) /\ Reached(fs, Len(fs), FieldProcess(fs))
<1> DEFINE n == Len(fs)
<1>1. n \in Nat /\ DOMAIN fs = 1 .. n
  OBVIOUS
<1>2. PICK c \in [0 .. n -> Named(fs)] :
        /\ \A k \in DOMAIN fs : c[0][k] = Prepare(fs[k])
        /\ \A i \in 1 .. n : c[i] = Clone(c[i - 1], i)
        /\ FieldProcess(fs) = c[n]
  BY ProcessSteps
<1> HIDE DEF n
<1> DEFINE T == {i \in 0 .. n : Reached(fs, i, c[i])}
<1>3. 0 \in T
  <2>1. \A k \in DOMAIN fs : ~(k <= 0)
    BY <1>1
  <2>2. Reached(fs, 0, c[0])
    BY <1>2, <2>1 DEF Reached
  <2> QED
    BY <1>1, <2>2
<1>4. ASSUME NEW i \in 1 .. n, i - 1 \in T PROVE i \in T
  <2>1. c[i - 1] \in Named(fs) /\ i \in DOMAIN fs /\ Reached(fs, i - 1, c[i - 1])
    BY <1>1, <1>4
  <2>2. Reached(fs, i, Clone(c[i - 1], i))
    BY <2>1, ReachedStep
  <2> QED
    BY <1>1, <1>2, <2>2
<1> HIDE DEF T
<1>5. n \in T
  BY <1>1, <1>3, <1>4, UpTo
<1> QED
  BY <1>1, <1>2, <1>5 DEF T, n

\* A definition whose sort does not panic has all its types.
LEMMA Cloned ==
  ASSUME NEW fs \in Seq(FileFields), ~FieldError(fs), ~SortPanics(FieldProcess(fs)),
         NEW k \in DOMAIN fs, FieldProcess(fs)[k].clone # <<>>
  PROVE  \E from \in DOMAIN fs :
           LET x == FieldProcess(fs)[k]
               y == FieldProcess(fs)[from]
           IN  y.name = x.clone /\ y.type = x.type /\ y.elements = x.elements /\ y.options = x.options
<1> DEFINE r == FieldProcess(fs)
           from == From(fs, k)
<1>1. r \in Named(fs) /\ Reached(fs, Len(fs), r)
  BY Processed
<1> SUFFICES from \in DOMAIN fs /\ r[from].name = r[k].clone /\ r[from].type = r[k].type
             /\ r[from].elements = r[k].elements /\ r[from].options = r[k].options
  OBVIOUS
<1>2. ~SortPanics(r) /\ r[k].clone # <<>>
  OBVIOUS
<1> HIDE DEF r
<1>3. /\ DOMAIN r = DOMAIN fs
      /\ \A j \in DOMAIN fs : r[j] \in Fields /\ r[j].name = fs[j].name /\ r[j].clone = fs[j].clone
  BY <1>1 DEF Named
<1>4. fs[k].clone # <<>>
  BY <1>2, <1>3
<1>5. from \in DOMAIN fs /\ fs[from].name = fs[k].clone
  BY <1>4, FromExists
<1>6. r[k] = Copy(Source(fs, k, r), fs[k])
  <2>1. k <= Len(fs)
    OBVIOUS
  <2> QED
    BY <1>1, <1>4, <2>1 DEF Reached
<1> HIDE DEF from
<1>7. fs[k] \in FileFields /\ fs[from] \in FileFields
  BY <1>5
<1>8. Source(fs, k, r) = r[from]
  <2>1. r[k].typed
    BY <1>2, <1>3 DEF SortPanics
  <2>2. ~fs[from].typed
    BY <1>7 DEF FileFields
  <2>3. Source(fs, k, r) # fs[from]
    <3> SUFFICES ASSUME Source(fs, k, r) = fs[from] PROVE FALSE
      OBVIOUS
    <3>1. fs[from] \in Fields
      BY <1>7 DEF FileFields, Fields
    <3>2. Copy(fs[from], fs[k]).typed <=> fs[from].typed
      BY <1>7, <3>1, CopyType
    <3>3. r[k] = Copy(fs[from], fs[k])
      BY <1>6
    <3> QED
      BY <2>1, <2>2, <3>2, <3>3
  <2> QED
    BY <2>3 DEF Source, from
<1>9. r[from] \in Fields
  BY <1>3, <1>5
<1>10. LET x == Copy(r[from], fs[k])
       IN  x.type = r[from].type /\ x.elements = r[from].elements /\ x.options = r[from].options
  BY <1>7, <1>9, CopyType
<1>11. r[k] = Copy(r[from], fs[k])
  BY <1>6, <1>8
<1>12. r[from].name = r[k].clone
  BY <1>3, <1>5
<1> QED
  BY <1>5, <1>10, <1>11, <1>12

\* If clones of clones point to the front, all types are known in the end.
LEMMA BackwardSorts ==
  ASSUME NEW fs \in Seq(FileFields), ~FieldError(fs), Backward(fs)
  PROVE  ~SortPanics(FieldProcess(fs))
<1> DEFINE r == FieldProcess(fs)
           T == {k \in DOMAIN fs : ~r[k].typed}
<1>1. r \in Named(fs) /\ Reached(fs, Len(fs), r)
  BY Processed
<1> SUFFICES ~SortPanics(r)
  OBVIOUS
<1> HIDE DEF r
<1>2. /\ DOMAIN r = DOMAIN fs
      /\ \A j \in DOMAIN fs : r[j] \in Fields
  BY <1>1 DEF Named
<1> SUFFICES ASSUME T # {} PROVE FALSE
  BY <1>2 DEF SortPanics
<1>3. PICK m \in T : \A k \in T : m <= k
  <2>1. T \in SUBSET Nat
    OBVIOUS
  <2> HIDE DEF T
  <2> QED
    BY <2>1, LeastElement
<1>4. m \in DOMAIN fs /\ ~r[m].typed /\ m <= Len(fs)
  OBVIOUS
<1>5. ASSUME NEW k \in DOMAIN fs, fs[k].clone = <<>> PROVE r[k].typed
  <2>1. r[k] = Prepare(fs[k])
    BY <1>1, <1>5 DEF Reached
  <2>2. fs[k].type \in DOMAIN TypeInfos
    BY <1>5 DEF FieldError
  <2> QED
    BY <1>5, <2>1, <2>2, PrepareType
<1>6. fs[m].clone # <<>>
  BY <1>4, <1>5
<1> DEFINE from == From(fs, m)
<1>7. from \in FieldForName(fs, fs[m].clone) /\ from \in DOMAIN fs
  BY <1>4, <1>6, FromExists
<1>8. from < m \/ fs[from].clone = <<>>
  BY <1>4, <1>6, <1>7 DEF Backward
<1>9. r[m] = Copy(r[from], fs[m])
  BY <1>1, <1>4, <1>6, <1>8 DEF Reached, Source
<1> HIDE DEF from
<1>10. ~r[from].typed
  <2>1. r[from] \in Fields /\ fs[m] \in FileFields
    BY <1>2, <1>4, <1>7
  <2>2. Copy(r[from], fs[m]).typed <=> r[from].typed
    BY <2>1, CopyType
  <2> QED
    BY <1>4, <1>9, <2>2
<1>11. from \in T /\ from < m
  BY <1>5, <1>7, <1>8, <1>10
<1>12. m <= from
  BY <1>3, <1>11
<1> QED
  BY <1>4, <1>7, <1>11, <1>12

-----------------------------------------------------------------------------
(***************************************************************************)
(* The sort.                                                               *)
(***************************************************************************)
\* s has the fields of size n among the first i of fs.
Collected(fs, n, i, s) ==
  /\ s \in Seq(Fields)
  /\ \A j \in DOMAIN s : Size(s[j]) = n /\ \E k \in 1 .. i : s[j] = fs[k]
  /\ \A k \in 1 .. i : Size(fs[k]) = n => \E j \in DOMAIN s : s[j] = fs[k]

LEMMA SizedSteps ==
  ASSUME NEW fs \in Seq(Fields), NEW n
  PROVE  \E u : /\ u[0] = <<>>
                /\ \A i \in 1 .. Len(fs) :
                     u[i] = IF Size(fs[i]) = n THEN Append(u[i - 1], fs[i]) ELSE u[i - 1]
                /\ Sized(fs, n) = u[Len(fs)]
<1> DEFINE N == Len(fs)
           S == Seq(Fields)
           more(s, i) == IF Size(fs[i]) = n THEN Append(s, fs[i]) ELSE s
           G == [x \in S \X (1 .. N) |-> more(x[1], x[2])]
           R(f) == f = [i \in 0 .. N |->
                          IF i = 0 THEN <<>>
                          ELSE IF Size(fs[i]) = n THEN Append(f[i - 1], fs[i]) ELSE f[i - 1]]
<1>1. N \in Nat /\ <<>> \in S
  OBVIOUS
<1>2. ASSUME NEW s \in S, NEW i \in 1 .. N PROVE more(s, i) \in S
  <2>1. fs[i] \in Fields
    OBVIOUS
  <2>2. Append(s, fs[i]) \in S
    BY <2>1
  <2> QED
    BY <2>2
<1> HIDE DEF N, S
<1>3. G \in [S \X (1 .. N) -> S] /\ \A s \in S, i \in 1 .. N : G[s, i] = more(s, i)
  <2> HIDE DEF more
  <2> QED
    BY <1>2
<1> HIDE DEF G
<1>4. PICK f \in [0 .. N -> S] : Iterates(f, N, <<>>, G)
  BY <1>1, <1>3, IteratesExist
<1>5. R(f)
  <2> DEFINE h == [i \in 0 .. N |-> IF i = 0 THEN <<>> ELSE more(f[i - 1], i)]
  <2>1. ASSUME NEW i \in 0 .. N PROVE f[i] = h[i]
    <3> HIDE DEF more
    <3>1. f[i] = IF i = 0 THEN <<>> ELSE G[f[i - 1], i]
      BY <1>4 DEF Iterates
    <3>2. i # 0 => i \in 1 .. N /\ f[i - 1] \in S
      BY <1>1
    <3> QED
      BY <1>3, <3>1, <3>2
  <2>2. f = [i \in 0 .. N |-> f[i]] /\ h = [i \in 0 .. N |-> h[i]]
    OBVIOUS
  <2> HIDE DEF h
  <2>3. f = h
    BY <2>1, <2>2
  <2> QED
    BY <2>3 DEF h
<1> DEFINE c == CHOOSE g : R(g)
<1>6. R(c)
  BY <1>5
<1>7. Sized(fs, n) = c[N]
  BY DEF Sized, N
<1> HIDE DEF c
<1>8. \A i \in 0 .. N : c[i] = IF i = 0 THEN <<>>
                               ELSE IF Size(fs[i]) = n THEN Append(c[i - 1], fs[i]) ELSE c[i - 1]
  BY <1>6
<1>9. c[0] = <<>> /\ \A i \in 1 .. N :
        c[i] = IF Size(fs[i]) = n THEN Append(c[i - 1], fs[i]) ELSE c[i - 1]
  BY <1>1, <1>8
<1> QED
  BY <1>7, <1>9 DEF N

LEMMA CollectedStep ==
  ASSUME NEW fs \in Seq(Fields), NEW n, NEW i \in 1 .. Len(fs), NEW s, Collected(fs, n, i - 1, s)
  PROVE  Collected(fs, n, i, IF Size(fs[i]) = n THEN Append(s, fs[i]) ELSE s)
<1>1. fs[i] \in Fields /\ s \in Seq(Fields) /\ i \in Nat
  BY DEF Collected
<1>2. \A k \in 1 .. i : k = i \/ k \in 1 .. i - 1
  BY <1>1
<1>3. \A k \in 1 .. i - 1 : k \in 1 .. i
  BY <1>1
<1>4. i \in 1 .. i
  BY <1>1
<1>5. CASE Size(fs[i]) # n
  BY <1>1, <1>2, <1>3, <1>5 DEF Collected
<1>6. CASE Size(fs[i]) = n
  <2> DEFINE t == Append(s, fs[i])
  <2>1. /\ t \in Seq(Fields) /\ DOMAIN t = 1 .. Len(s) + 1 /\ t[Len(s) + 1] = fs[i]
        /\ \A j \in DOMAIN s : t[j] = s[j] /\ j \in DOMAIN t
        /\ \A j \in DOMAIN t : j \in DOMAIN s \/ j = Len(s) + 1
        /\ Len(s) + 1 \in DOMAIN t
    BY <1>1
  <2> HIDE DEF t
  <2>2. \A j \in DOMAIN t : Size(t[j]) = n /\ \E k \in 1 .. i : t[j] = fs[k]
    BY <1>3, <1>4, <1>6, <2>1 DEF Collected
  <2>3. \A k \in 1 .. i : Size(fs[k]) = n => \E j \in DOMAIN t : t[j] = fs[k]
    BY <1>2, <2>1 DEF Collected
  <2>4. Collected(fs, n, i, t)
    BY <2>1, <2>2, <2>3 DEF Collected
  <2> QED
    BY <1>6, <2>4 DEF t
<1> QED
  BY <1>5, <1>6

LEMMA SizedCollects ==
  ASSUME NEW fs \in Seq(Fields), NEW n
  PROVE  Collected(fs, n, Len(fs), Sized(fs, n))
<1> DEFINE N == Len(fs)
<1>1. N \in Nat
  OBVIOUS
<1>2. PICK u : /\ u[0] = <<>>
               /\ \A i \in 1 .. N :
                    u[i] = IF Size(fs[i]) = n THEN Append(u[i - 1], fs[i]) ELSE u[i - 1]
               /\ Sized(fs, n) = u[N]
  BY SizedSteps
<1> DEFINE T == {i \in 0 .. N : Collected(fs, n, i, u[i])}
<1>3. 0 \in T
  <2>1. Collected(fs, n, 0, <<>>)
    BY DEF Collected
  <2> QED
    BY <1>1, <1>2, <2>1
<1>4. ASSUME NEW i \in 1 .. N, i - 1 \in T PROVE i \in T
  <2>1. Collected(fs, n, i - 1, u[i - 1])
    BY <1>4
  <2>2. Collected(fs, n, i, IF Size(fs[i]) = n THEN Append(u[i - 1], fs[i]) ELSE u[i - 1])
    BY <2>1, CollectedStep
  <2>3. Collected(fs, n, i, u[i])
    BY <1>2, <2>2
  <2> QED
    BY <1>1, <2>3
<1> HIDE DEF T, N
<1>5. N \in T
  <2>1. 0 .. N \subseteq T
    BY <1>1, <1>3, <1>4, UpTo
  <2> QED
    BY <1>1, <2>1
<1> QED
  BY <1>2, <1>5 DEF T, N

\* The fields of rs in the order of the sort: the same fields, with sizes
\* that do not increase.
LEMMA SortedFields ==
  ASSUME NEW rs \in Seq(Fields), \A k \in DOMAIN rs : rs[k].type \in DOMAIN TypeInfos
  PROVE  LET t == SortFields(rs)
         IN  /\ t \in Seq(Fields)
             /\ \A j \in DOMAIN t : Size(t[j]) \in {1, 2, 4}
             /\ \A j \in DOMAIN t : j + 1 \in DOMAIN t => Size(t[j + 1]) <= Size(t[j])
             /\ \A j \in DOMAIN t : \E k \in DOMAIN rs : t[j] = rs[k]
             /\ \A k \in DOMAIN rs : \E j \in DOMAIN t : t[j] = rs[k]
<1> DEFINE a == Sized(rs, 4)
           b == Sized(rs, 2)
           c == Sized(rs, 1)
           t == SortFields(rs)
<1>1. DOMAIN rs = 1 .. Len(rs) /\ Len(rs) \in Nat
  OBVIOUS
<1>2. /\ a \in Seq(Fields) /\ b \in Seq(Fields) /\ c \in Seq(Fields)
      /\ \A j \in DOMAIN a : Size(a[j]) = 4 /\ \E k \in DOMAIN rs : a[j] = rs[k]
      /\ \A j \in DOMAIN b : Size(b[j]) = 2 /\ \E k \in DOMAIN rs : b[j] = rs[k]
      /\ \A j \in DOMAIN c : Size(c[j]) = 1 /\ \E k \in DOMAIN rs : c[j] = rs[k]
      /\ \A k \in DOMAIN rs : Size(rs[k]) = 4 => \E j \in DOMAIN a : a[j] = rs[k]
      /\ \A k \in DOMAIN rs : Size(rs[k]) = 2 => \E j \in DOMAIN b : b[j] = rs[k]
      /\ \A k \in DOMAIN rs : Size(rs[k]) = 1 => \E j \in DOMAIN c : c[j] = rs[k]
  <2>1. /\ Collected(rs, 4, Len(rs), a) /\ Collected(rs, 2, Len(rs), b)
        /\ Collected(rs, 1, Len(rs), c)
    BY SizedCollects
  <2>2. ASSUME NEW n, NEW s, Collected(rs, n, Len(rs), s)
        PROVE  /\ s \in Seq(Fields)
               /\ \A j \in DOMAIN s : Size(s[j]) = n /\ \E k \in DOMAIN rs : s[j] = rs[k]
               /\ \A k \in DOMAIN rs : Size(rs[k]) = n => \E j \in DOMAIN s : s[j] = rs[k]
    BY <1>1, <2>2, Zenon DEF Collected
  <2> HIDE DEF a, b, c
  <2> QED
    BY <2>1, <2>2
<1>3. t = a \o b \o c
  BY DEF SortFields
<1>4. \A k \in DOMAIN rs : Size(rs[k]) \in {1, 2, 4}
  <2>1. \A x \in DOMAIN TypeInfos : TypeInfos[x] \in {1, 2, 4}
    BY DEF TypeInfos
  <2> QED
    BY <2>1 DEF Size
<1> SUFFICES /\ t \in Seq(Fields)
             /\ \A j \in DOMAIN t : Size(t[j]) \in {1, 2, 4}
             /\ \A j \in DOMAIN t : j + 1 \in DOMAIN t => Size(t[j + 1]) <= Size(t[j])
             /\ \A j \in DOMAIN t : \E k \in DOMAIN rs : t[j] = rs[k]
             /\ \A k \in DOMAIN rs : \E j \in DOMAIN t : t[j] = rs[k]
  OBVIOUS
<1> HIDE DEF a, b, c, t
<1> DEFINE la == Len(a)
           lb == Len(b)
           lc == Len(c)
<1>5. la \in Nat /\ lb \in Nat /\ lc \in Nat
      /\ DOMAIN a = 1 .. la /\ DOMAIN b = 1 .. lb /\ DOMAIN c = 1 .. lc
  BY <1>2
<1>6. /\ t \in Seq(Fields) /\ DOMAIN t = 1 .. la + lb + lc
      /\ \A j \in 1 .. la : t[j] = a[j]
      /\ \A j \in 1 .. lb : t[la + j] = b[j]
      /\ \A j \in 1 .. lc : t[la + lb + j] = c[j]
  BY <1>2, <1>3
<1> HIDE DEF la, lb, lc
<1>7. ASSUME NEW j \in DOMAIN t
      PROVE  \/ j <= la /\ j \in 1 .. la
             \/ la < j /\ j <= la + lb /\ j - la \in 1 .. lb /\ la + (j - la) = j
             \/ la + lb < j /\ j - la - lb \in 1 .. lc /\ la + lb + (j - la - lb) = j
  BY <1>5, <1>6
<1>8. ASSUME NEW j \in DOMAIN t
      PROVE  /\ \E k \in DOMAIN rs : t[j] = rs[k]
             /\ Size(t[j]) = IF j <= la THEN 4 ELSE IF j <= la + lb THEN 2 ELSE 1
  <2>1. CASE j <= la
    <3>1. t[j] = a[j] /\ j \in DOMAIN a
      BY <1>5, <1>6, <1>7, <2>1
    <3> QED
      BY <1>2, <2>1, <3>1
  <2>2. CASE la < j /\ j <= la + lb
    <3>1. t[j] = b[j - la] /\ j - la \in DOMAIN b /\ ~(j <= la)
      BY <1>5, <1>6, <1>7, <2>2
    <3> QED
      BY <1>2, <2>2, <3>1
  <2>3. CASE la + lb < j
    <3>1. t[j] = c[j - la - lb] /\ j - la - lb \in DOMAIN c /\ ~(j <= la) /\ ~(j <= la + lb)
      BY <1>5, <1>6, <1>7, <2>3
    <3> QED
      BY <1>2, <2>3, <3>1
  <2> QED
    BY <1>5, <1>6, <2>1, <2>2, <2>3
<1>9. \A j \in DOMAIN t : j + 1 \in DOMAIN t => Size(t[j + 1]) <= Size(t[j])
  <2> SUFFICES ASSUME NEW j \in DOMAIN t, j + 1 \in DOMAIN t PROVE Size(t[j + 1]) <= Size(t[j])
    OBVIOUS
  <2>1. /\ Size(t[j]) = IF j <= la THEN 4 ELSE IF j <= la + lb THEN 2 ELSE 1
        /\ Size(t[j + 1]) = IF j + 1 <= la THEN 4 ELSE IF j + 1 <= la + lb THEN 2 ELSE 1
    BY <1>8
  <2>2. j \in Nat
    BY <1>5, <1>6
  <2> QED
    BY <1>5, <2>1, <2>2
<1>10. ASSUME NEW k \in DOMAIN rs PROVE \E j \in DOMAIN t : t[j] = rs[k]
  <2>1. ASSUME NEW j \in 1 .. la PROVE j \in DOMAIN t /\ t[j] = a[j]
    BY <1>5, <1>6
  <2>2. ASSUME NEW j \in 1 .. lb PROVE la + j \in DOMAIN t /\ t[la + j] = b[j]
    BY <1>5, <1>6
  <2>3. ASSUME NEW j \in 1 .. lc PROVE la + lb + j \in DOMAIN t /\ t[la + lb + j] = c[j]
    BY <1>5, <1>6
  <2>4. CASE Size(rs[k]) = 4
    BY <1>2, <1>5, <2>1, <2>4
  <2>5. CASE Size(rs[k]) = 2
    BY <1>2, <1>5, <2>2, <2>5
  <2>6. CASE Size(rs[k]) = 1
    BY <1>2, <1>5, <2>3, <2>6
  <2> QED
    BY <1>4, <2>4, <2>5, <2>6
<1>11. \A j \in DOMAIN t : Size(t[j]) \in {1, 2, 4}
  BY <1>8
<1> QED
  BY <1>6, <1>8, <1>9, <1>10, <1>11

-----------------------------------------------------------------------------
(***************************************************************************)
(* Offsets.                                                                *)
(***************************************************************************)
Sizes == {1, 2, 4}

LEMMA Multiples ==
  ASSUME NEW x \in Nat, NEW e \in Nat, NEW p \in Sizes, NEW q \in Sizes, p <= q,
         x % q = 0
  PROVE  x % p = 0 /\ x + p * e \in Nat /\ (x + p * e) % p = 0
<1>1. CASE p = 1
  BY <1>1
<1>2. CASE p = 2
  <2>1. x % 2 = 0
    BY <1>2 DEF Sizes
  <2>2. (x + 2 * e) % 2 = 0
    BY <2>1
  <2> QED
    BY <1>2, <2>1, <2>2
<1>3. CASE p = 4
  <2>1. x % 4 = 0
    BY <1>3 DEF Sizes
  <2>2. (x + 4 * e) % 4 = 0
    BY <2>1
  <2> QED
    BY <1>3, <2>1, <2>2
<1> QED
  BY <1>1, <1>2, <1>3 DEF Sizes

LEMMA OffsetSteps ==
  ASSUME NEW t \in Seq(Fields), \A j \in DOMAIN t : Size(t[j]) \in Nat
  PROVE  \E u : /\ u[0] = 0
                /\ \A i \in 1 .. Len(t) : u[i] = u[i - 1] + Size(t[i]) * t[i].elements
                /\ \A k \in DOMAIN t : FieldOffset(t, k) = u[k - 1]
<1> DEFINE N == Len(t)
           w(i) == Size(t[i]) * t[i].elements
           G == [x \in Nat \X (1 .. N) |-> x[1] + w(x[2])]
           R(f) == f = [i \in 0 .. N |->
                          IF i = 0 THEN 0 ELSE f[i - 1] + Size(t[i]) * t[i].elements]
<1>1. N \in Nat
  OBVIOUS
<1>2. ASSUME NEW i \in 1 .. N PROVE w(i) \in Nat
  <2>1. t[i] \in Fields /\ Size(t[i]) \in Nat
    OBVIOUS
  <2>2. t[i].elements \in Nat
    BY <2>1 DEF Fields
  <2> QED
    BY <2>1, <2>2
<1> HIDE DEF N
<1>3. G \in [Nat \X (1 .. N) -> Nat] /\ \A s \in Nat, i \in 1 .. N : G[s, i] = s + w(i)
  <2> HIDE DEF w
  <2>1. \A s \in Nat, i \in 1 .. N : s + w(i) \in Nat
    BY <1>2
  <2> QED
    BY <2>1
<1> HIDE DEF G
<1>4. PICK f \in [0 .. N -> Nat] : Iterates(f, N, 0, G)
  BY <1>1, <1>3, IteratesExist
<1>5. R(f)
  <2> DEFINE h == [i \in 0 .. N |-> IF i = 0 THEN 0 ELSE f[i - 1] + w(i)]
  <2>1. ASSUME NEW i \in 0 .. N PROVE f[i] = h[i]
    <3> HIDE DEF w
    <3>1. f[i] = IF i = 0 THEN 0 ELSE G[f[i - 1], i]
      BY <1>4 DEF Iterates
    <3>2. i # 0 => i \in 1 .. N /\ f[i - 1] \in Nat
      BY <1>1
    <3> QED
      BY <1>3, <3>1, <3>2
  <2>2. f = [i \in 0 .. N |-> f[i]] /\ h = [i \in 0 .. N |-> h[i]]
    OBVIOUS
  <2> HIDE DEF h
  <2>3. f = h
    BY <2>1, <2>2
  <2> QED
    BY <2>3 DEF h
<1> DEFINE c == CHOOSE g : R(g)
<1>6. R(c)
  BY <1>5
<1>7. \A k \in DOMAIN t : FieldOffset(t, k) = c[k - 1]
  BY DEF FieldOffset, N
<1> HIDE DEF c
<1>8. \A i \in 0 .. N : c[i] = IF i = 0 THEN 0 ELSE c[i - 1] + Size(t[i]) * t[i].elements
  BY <1>6
<1>9. c[0] = 0 /\ \A i \in 1 .. N : c[i] = c[i - 1] + Size(t[i]) * t[i].elements
  BY <1>1, <1>8
<1> QED
  BY <1>7, <1>9 DEF N

LEMMA Aligned ==
  ASSUME NEW t \in Seq(Fields),
         \A j \in DOMAIN t : Size(t[j]) \in {1, 2, 4},
         \A j \in DOMAIN t : j + 1 \in DOMAIN t => Size(t[j + 1]) <= Size(t[j])
  PROVE  \A k \in DOMAIN t : FieldOffset(t, k) % Size(t[k]) = 0
<1> DEFINE N == Len(t)
<1>1. N \in Nat /\ DOMAIN t = 1 .. N
  OBVIOUS
<1>2. ASSUME NEW j \in DOMAIN t PROVE t[j].elements \in Nat
  <2>1. t[j] \in Fields
    OBVIOUS
  <2> QED
    BY <2>1 DEF Fields
<1>3. PICK u : /\ u[0] = 0
               /\ \A i \in 1 .. N : u[i] = u[i - 1] + Size(t[i]) * t[i].elements
               /\ \A k \in DOMAIN t : FieldOffset(t, k) = u[k - 1]
  BY OffsetSteps
<1> HIDE DEF N
<1>4. ASSUME NEW i \in 1 .. N, u[i - 1] \in Nat, i > 1 => u[i - 1] % Size(t[i - 1]) = 0
      PROVE  u[i] \in Nat /\ u[i - 1] % Size(t[i]) = 0 /\ u[i] % Size(t[i]) = 0
  <2> DEFINE q == IF i = 1 THEN 4 ELSE Size(t[i - 1])
  <2>1. Size(t[i]) \in {1, 2, 4} /\ t[i].elements \in Nat
    BY <1>1, <1>2
  <2>2. q \in {1, 2, 4} /\ Size(t[i]) <= q
    <3>1. CASE i = 1
      BY <2>1, <3>1
    <3>2. CASE i # 1
      <4>1. i - 1 \in DOMAIN t /\ (i - 1) + 1 = i /\ i \in DOMAIN t
        BY <1>1, <3>2
      <4>2. Size(t[(i - 1) + 1]) <= Size(t[i - 1])
        BY <4>1
      <4> QED
        BY <3>2, <4>1, <4>2
    <3> QED
      BY <3>1, <3>2
  <2>3. u[i - 1] % q = 0
    <3>1. CASE i = 1
      BY <1>3, <3>1
    <3>2. CASE i # 1
      BY <1>1, <1>4, <3>2
    <3> QED
      BY <3>1, <3>2
  <2> HIDE DEF q
  <2>4. /\ u[i - 1] % Size(t[i]) = 0 /\ u[i - 1] + Size(t[i]) * t[i].elements \in Nat
        /\ (u[i - 1] + Size(t[i]) * t[i].elements) % Size(t[i]) = 0
    <3> DEFINE x == u[i - 1]
               p == Size(t[i])
               e == t[i].elements
    <3>1. x \in Nat /\ e \in Nat /\ p \in Sizes /\ q \in Sizes /\ p <= q /\ x % q = 0
      BY <1>4, <2>1, <2>2, <2>3 DEF Sizes
    <3> SUFFICES x % p = 0 /\ x + p * e \in Nat /\ (x + p * e) % p = 0
      OBVIOUS
    <3> HIDE DEF x, p, e
    <3> QED
      BY <3>1, Multiples
  <2> QED
    BY <1>3, <2>4
<1> DEFINE T == {i \in 0 .. N : u[i] \in Nat /\ (i > 0 => u[i] % Size(t[i]) = 0)}
<1>5. 0 \in T
  BY <1>1, <1>3
<1>6. ASSUME NEW i \in 1 .. N, i - 1 \in T PROVE i \in T
  <2>1. u[i - 1] \in Nat /\ (i > 1 => u[i - 1] % Size(t[i - 1]) = 0)
    BY <1>1, <1>6
  <2>2. u[i] \in Nat /\ u[i] % Size(t[i]) = 0
    BY <1>4, <2>1
  <2> QED
    BY <1>1, <2>2
<1> HIDE DEF T
<1>7. 0 .. N \subseteq T
  BY <1>1, <1>5, <1>6, UpTo
<1>8. ASSUME NEW k \in DOMAIN t PROVE u[k - 1] % Size(t[k]) = 0
  <2>1. k \in 1 .. N /\ k - 1 \in 0 .. N
    BY <1>1
  <2>2. u[k - 1] \in Nat /\ (k > 1 => u[k - 1] % Size(t[k - 1]) = 0)
    BY <1>1, <1>7, <2>1 DEF T
  <2> QED
    BY <1>4, <2>1, <2>2
<1> QED
  BY <1>3, <1>8

-----------------------------------------------------------------------------
(***************************************************************************)
(* Every object comes from a file that was accepted, and a panic from the  *)
(* last file that was read.                                                *)
(***************************************************************************)
Accepted(file) == ~FieldError(file.fields) /\ ~Panics(file)

FileInv ==
  /\ IInv
  /\ files \in Seq(Files)
  /\ \A i \in DOMAIN AllDefinitions :
       ~AllDefinitions[i].meta =>
         \E file \in Files : /\ Accepted(file)
                             /\ AllDefinitions[i].fields = SortFields(FieldProcess(file.fields))
  /\ loader = "panic" => files # <<>> /\ Panics(files[Len(files)])

LEMMA FileStep == ASSUME FileInv, [Next]_vars PROVE IInv' => FileInv'
<1> SUFFICES ASSUME IInv' PROVE FileInv'
  OBVIOUS
<1>1. CASE UNCHANGED vars
  BY <1>1 DEF FileInv, vars
<1>2. ASSUME NEW file \in Files, Load(file) PROVE FileInv'
  <2>1. /\ files \in Seq(Files) /\ files' = Append(files, file)
        /\ loader' = CASE FieldError(file.fields) -> "fatal"
                       [] Panics(file) -> "panic"
                       [] OTHER -> "loading"
    BY <1>2 DEF FileInv, Load
  <2>2. /\ files' \in Seq(Files) /\ files' # <<>> /\ files'[Len(files')] = file
    BY <2>1
  <2>3. loader' = "panic" => Panics(file)
    BY <2>1
  <2>4. loader' = "loading" => Accepted(file)
    BY <2>1 DEF Accepted
  <2>5. ASSUME NEW i \in DOMAIN AllDefinitions', ~AllDefinitions'[i].meta
        PROVE  \E f \in Files : /\ Accepted(f)
                                /\ AllDefinitions'[i].fields = SortFields(FieldProcess(f.fields))
    <3>1. CASE loader' # "loading"
      <4>1. AllDefinitions' = AllDefinitions
        BY <1>2, <3>1 DEF Load
      <4> QED
        BY <2>5, <4>1 DEF FileInv
    <3>2. CASE loader' = "loading"
      <4> DEFINE d == NewDefinition(file)
                 e == NewMetaDefinition(d)
      <4>1. AllDefinitions' = AllDefinitions \o <<d, e>>
        BY <1>2, <3>2 DEF Load
      <4>2. e.meta = TRUE
        BY NewPair
      <4>3. d.fields = SortFields(FieldProcess(file.fields))
        BY DefinitionsAssumption DEF NewDefinition, FinishSetup
      <4> HIDE DEF d, e
      <4>4. /\ DOMAIN AllDefinitions = 1 .. Len(AllDefinitions)
            /\ DOMAIN AllDefinitions' = 1 .. Len(AllDefinitions')
            /\ \A j \in 1 .. Len(AllDefinitions) : AllDefinitions'[j] = AllDefinitions[j]
            /\ \A j \in 1 .. Len(AllDefinitions') :
                 j \notin 1 .. Len(AllDefinitions) => AllDefinitions'[j] \in {d, e}
        BY <4>1, TwoMore DEF FileInv, IInv
      <4>5. CASE i \in 1 .. Len(AllDefinitions)
        BY <2>5, <4>4, <4>5 DEF FileInv
      <4>6. CASE i \notin 1 .. Len(AllDefinitions)
        <5>1. AllDefinitions'[i] = d
          BY <2>5, <4>2, <4>4, <4>6
        <5> QED
          BY <2>4, <3>2, <4>3, <5>1
      <4> QED
        BY <4>5, <4>6
    <3> QED
      BY <3>1, <3>2
  <2> QED
    BY <2>2, <2>3, <2>5 DEF FileInv
<1> QED
  BY <1>1, <1>2 DEF Next

LEMMA FilesAlways == Spec => []FileInv
<1>1. Init => (IInv => FileInv)
  BY DEF Init, FileInv
<1>2. FileInv /\ [Next]_vars => (IInv' => FileInv')
  BY FileStep
<1> QED
  BY <1>1, <1>2, Inductive, PTL DEF Spec

\* The fields of an accepted file, before and after the sort.
LEMMA AcceptedFields ==
  ASSUME NEW file \in Files, Accepted(file)
  PROVE  /\ file.fields \in Seq(FileFields) /\ ~FieldError(file.fields)
         /\ ~SortPanics(FieldProcess(file.fields))
         /\ FieldProcess(file.fields) \in Seq(Fields)
         /\ DOMAIN FieldProcess(file.fields) = DOMAIN file.fields
         /\ \A k \in DOMAIN FieldProcess(file.fields) :
              FieldProcess(file.fields)[k].type \in DOMAIN TypeInfos
<1> DEFINE fs == file.fields
           r == FieldProcess(fs)
<1>1. fs \in Seq(FileFields) /\ ~FieldError(fs) /\ ~SortPanics(r)
  BY DefinitionsAssumption DEF Accepted, Panics
<1>2. r \in Named(fs)
  BY <1>1, Processed
<1> HIDE DEF fs, r
<1>3. /\ r \in [DOMAIN fs -> Fields] /\ DOMAIN r = DOMAIN fs
      /\ \A k \in DOMAIN fs : r[k].typed => r[k].type \in DOMAIN TypeInfos
  BY <1>2 DEF Named
<1>4. DOMAIN fs = 1 .. Len(fs) /\ Len(fs) \in Nat
  BY <1>1
<1>5. r \in Seq(Fields)
  BY <1>3, <1>4
<1>6. \A k \in DOMAIN r : r[k].typed
  BY <1>1 DEF SortPanics
<1> QED
  BY <1>1, <1>3, <1>5, <1>6 DEF fs, r

LEMMA FieldsAligned == FileInv => WireAligned
<1> SUFFICES ASSUME FileInv, NEW i \in Objects
             PROVE  \A k \in DOMAIN AllDefinitions[i].fields :
                      FieldOffset(AllDefinitions[i].fields, k) % Size(AllDefinitions[i].fields[k]) = 0
  BY DEF WireAligned
<1>1. PICK file \in Files : /\ Accepted(file)
                            /\ AllDefinitions[i].fields = SortFields(FieldProcess(file.fields))
  BY DEF FileInv, Objects
<1> DEFINE t == SortFields(FieldProcess(file.fields))
<1>2. /\ t \in Seq(Fields)
      /\ \A j \in DOMAIN t : Size(t[j]) \in {1, 2, 4}
      /\ \A j \in DOMAIN t : j + 1 \in DOMAIN t => Size(t[j + 1]) <= Size(t[j])
  BY <1>1, AcceptedFields, SortedFields
<1> HIDE DEF t
<1>3. \A k \in DOMAIN t : FieldOffset(t, k) % Size(t[k]) = 0
  BY <1>2, Aligned
<1> QED
  BY <1>1, <1>3 DEF t

LEMMA FieldsCloned == FileInv => ClonesFaithful
<1> DEFINE Same(x, y) ==
             y.name = x.clone /\ y.type = x.type /\ y.elements = x.elements /\ y.options = x.options
<1> SUFFICES ASSUME FileInv, NEW i \in Objects, NEW k \in DOMAIN AllDefinitions[i].fields,
                    AllDefinitions[i].fields[k].clone # <<>>
             PROVE  \E from \in DOMAIN AllDefinitions[i].fields :
                      Same(AllDefinitions[i].fields[k], AllDefinitions[i].fields[from])
  BY DEF ClonesFaithful
<1>1. PICK file \in Files : /\ Accepted(file)
                            /\ AllDefinitions[i].fields = SortFields(FieldProcess(file.fields))
  BY DEF FileInv, Objects
<1> DEFINE fs == file.fields
           r == FieldProcess(fs)
           t == SortFields(r)
<1>2. /\ fs \in Seq(FileFields) /\ ~FieldError(fs) /\ ~SortPanics(r)
      /\ r \in Seq(Fields) /\ DOMAIN r = DOMAIN fs
      /\ \A j \in DOMAIN r : r[j].type \in DOMAIN TypeInfos
  BY <1>1, AcceptedFields
<1>3. /\ \A j \in DOMAIN t : \E l \in DOMAIN r : t[j] = r[l]
      /\ \A l \in DOMAIN r : \E j \in DOMAIN t : t[j] = r[l]
  BY <1>2, SortedFields
<1>4. \A l \in DOMAIN fs : r[l].clone # <<>> => \E from \in DOMAIN fs : Same(r[l], r[from])
  BY <1>2, Cloned
<1>5. k \in DOMAIN t /\ t[k].clone # <<>>
  BY <1>1
<1> SUFFICES \E from \in DOMAIN t : Same(t[k], t[from])
  BY <1>1
<1> HIDE DEF fs, r, t, Same
<1>6. PICK l \in DOMAIN r : t[k] = r[l]
  BY <1>3, <1>5
<1>7. PICK from \in DOMAIN r : Same(r[l], r[from])
  BY <1>2, <1>4, <1>5, <1>6
<1>8. PICK j \in DOMAIN t : t[j] = r[from]
  BY <1>3
<1> QED
  BY <1>6, <1>7, <1>8

LEMMA PanicsForward == FileInv => PanicsOnForwardClones
<1> SUFFICES ASSUME FileInv, loader = "panic" PROVE ~Backward(files[Len(files)].fields)
  BY DEF PanicsOnForwardClones
<1>1. files[Len(files)] \in Files /\ Panics(files[Len(files)])
  BY DEF FileInv
<1> DEFINE fs == files[Len(files)].fields
<1>2. fs \in Seq(FileFields) /\ ~FieldError(fs) /\ SortPanics(FieldProcess(fs))
  BY <1>1, DefinitionsAssumption DEF Panics
<1> HIDE DEF fs
<1>3. ~Backward(fs)
  BY <1>2, BackwardSorts
<1> QED
  BY <1>3 DEF fs

\* Every field of a loaded definition starts at a multiple of its size, a
\* clone has the type, elements and options of the field it names, however
\* many clones lie between, and loading panics only for a clone of a clone
\* further down: for any files of well-formed XML, any field lists included.
THEOREM FieldsAsDeclaredAlways == Spec => []FieldsAsDeclared
<1>1. FileInv => FieldsAsDeclared
  BY FieldsAligned, FieldsCloned, PanicsForward DEF FieldsAsDeclared
<1> QED
  BY <1>1, FilesAlways, PTL
=============================================================================
