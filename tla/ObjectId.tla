------------------------------ MODULE ObjectId ------------------------------
(***************************************************************************)
(* The hash that object identifiers are made of (uavtalk/uavobjectid.go),  *)
(* on words of HashBits bits.  Names are converted to ISO 8859-1 first: a  *)
(* code point beyond it becomes a question mark.  (The code passes a name  *)
(* to Fprintf as the format; names have no percent sign.)                  *)
(***************************************************************************)
EXTENDS Integers, Sequences, SequencesExt

CONSTANT HashBits  \* 32 in the code

Word == 2 ^ HashBits

Bit(n, i) == (n \div 2 ^ i) % 2

Xor(m, n) ==
  LET sum[i \in 0 .. HashBits] ==
        IF i = 0 THEN 0
        ELSE sum[i - 1] + (IF Bit(m, i - 1) = Bit(n, i - 1) THEN 0 ELSE 2 ^ (i - 1))
  IN  sum[HashBits]

UpdateHashWithInt(hash, value) == Xor(hash, (32 * hash + hash \div 4 + value) % Word)

ToISO88591(s) == [i \in DOMAIN s |-> IF s[i] < 256 THEN s[i] ELSE 63]

Bool(v) == IF v THEN 1 ELSE 0

TypeIndex(type) ==
  CHOOSE i \in 0 .. 7 :
    <<"int8", "int16", "int32", "uint8", "uint16", "uint32", "float", "enum">>[i + 1] = type

\* What is hashed for a field, in order.
FieldWords(field) ==
  ToISO88591(field.name) \o <<field.elements, TypeIndex(field.type)>>
    \o IF field.type = "enum"
       THEN FlattenSeq([i \in DOMAIN field.options |-> ToISO88591(field.options[i])])
       ELSE <<>>

Words(d) ==
  ToISO88591(d.name) \o <<Bool(d.settings), Bool(d.single)>>
    \o FlattenSeq([i \in DOMAIN d.fields |-> FieldWords(d.fields[i])])

\* The hash so far is an argument of the function.
CalculateHash(d) ==
  LET words == Words(d)
      hash[i \in 1 .. Len(words) + 1, h \in 0 .. Word - 1] ==
        IF i > Len(words) THEN h ELSE hash[i + 1, UpdateHashWithInt(h, words[i])]
  IN  hash[1, 0]
=============================================================================
