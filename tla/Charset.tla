------------------------------ MODULE Charset ------------------------------
(***************************************************************************)
(* go-charset: the translators of utf8.go, codepage.go and utf16.go, and   *)
(* the translatingReader and translatingWriter of charset.go that feed     *)
(* them a stream piece by piece.                                           *)
(*                                                                         *)
(* Bytes and runes are those of a small UTF-8: runes 0 and 1 are ASCII,    *)
(* runes 2 and 3 take two bytes, runes 4 to 7 three, and 7 is RuneError.   *)
(* Bytes 2 and 3 continue a rune, 5 begins one of two bytes, 7 one of      *)
(* three; 4 and 6 do not occur. A UTF-16 word has two digits of base 4.    *)
(***************************************************************************)
EXTENDS Integers, Sequences, SequencesExt, FiniteSets

CONSTANTS
  Inputs,       \* byte strings that are sent through a reader or a writer
  Translators,  \* the translators they are sent through
  BufSizes      \* lengths of the buffers that Read is called with

VARIABLES
  input,    \* [bytes, tr]: the whole input, and the translator at first
  tr,       \* the translator, with its state
  side,     \* "reader" or "writer": who translates
  src,      \* input that the reader or the writer has not been given yet
  rdata,    \* reader: unconverted data; writer: w.buf
  capacity, \* cap(r.rdata)
  cdata,    \* reader: unconsumed data from the translator
  err,      \* reader: r.err # nil
  pending,  \* reader: length of the buffer of the Read in progress, or -1
  out,      \* everything that came out
  ended     \* Read returned the error, or Close returned

vars == <<input, tr, side, src, rdata, capacity, cdata, err, pending, out, ended>>

-----------------------------------------------------------------------------
(***************************************************************************)
(* unicode/utf8.                                                           *)
(***************************************************************************)
RuneSelf == 2
RuneError == 7
Continues(b) == b \in {2, 3}

EncodeRune(r) ==
  IF r > RuneError THEN <<7, 3, 3>>
  ELSE IF r < 2 THEN <<r>>
  ELSE IF r < 4 THEN <<5, 2 + (r % 2)>>
  ELSE <<7, 2 + ((r \div 2) % 2), 2 + (r % 2)>>

\* <<rune, size>>
DecodeRune(p) ==
  CASE p[1] < 2 -> <<p[1], 1>>
    [] p[1] = 5 /\ Len(p) >= 2 /\ Continues(p[2]) -> <<p[2], 2>>
    [] p[1] = 7 /\ Len(p) >= 3 /\ Continues(p[2]) /\ Continues(p[3]) ->
         <<4 + 2 * (p[2] - 2) + (p[3] - 2), 3>>
    [] OTHER -> <<RuneError, 1>>

FullRune(p) ==
  ~ \/ p = <<>>
    \/ p = <<5>> \/ p = <<7>>
    \/ Len(p) = 2 /\ p[1] = 7 /\ Continues(p[2])

-----------------------------------------------------------------------------
(***************************************************************************)
(* The translators: how much of the data Translate consumes, what it       *)
(* returns, and the translator afterwards.                                 *)
(***************************************************************************)
Translated(n, bytes, t) == [n |-> n, out |-> bytes, tr |-> t]
From(data, i) == SubSeq(data, i + 1, Len(data))

RECURSIVE ToUTF8(_, _, _, _), ToCodePage(_, _, _, _, _), ToUTF16(_, _, _, _, _), FromUTF16(_, _)
\* translateToUTF8.Translate, from index i.
ToUTF8(data, eof, i, buf) ==
  IF i >= Len(data) THEN <<Len(data), buf>>
  ELSE LET size == DecodeRune(From(data, i))[2] IN
       IF data[i + 1] < RuneSelf THEN ToUTF8(data, eof, i + 1, Append(buf, data[i + 1]))
       ELSE IF size = 1
       THEN IF ~eof /\ ~FullRune(data) THEN <<i, buf>>
            ELSE ToUTF8(data, eof, i + 1, buf \o EncodeRune(RuneError))
       ELSE ToUTF8(data, eof, i + size, buf \o SubSeq(data, i + 1, i + size))

\* toCodePage: the length of the prefix that is Unicode, and the other runes.
CodePageInfo(table) ==
  LET differ == {i \in DOMAIN table : table[i] # i - 1}
      same == IF differ = {} THEN Len(table) ELSE (CHOOSE i \in differ : \A j \in differ : i <= j) - 1
  IN  [same |-> same,
       rune2byte |-> [r \in {table[i] : i \in same + 1 .. Len(table)} |->
                        (CHOOSE i \in same + 1 .. Len(table) :
                           table[i] = r /\ \A j \in i + 1 .. Len(table) : table[j] # r) - 1]]

RuneToByte(info, r) ==
  IF r < info.same THEN r ELSE IF r \in DOMAIN info.rune2byte THEN info.rune2byte[r] ELSE 63

\* Mutant: a rune is never completed with the next piece.
MustWaitNever(data, i, eof) == FALSE

\* A rune whose last bytes are still to come.
MustWait(data, i, eof) ==
  LET rest == From(data, i) IN
  data[i + 1] >= RuneSelf /\ DecodeRune(rest)[2] = 1 /\ ~eof /\ ~FullRune(rest)

\* translateToCodePage.Translate, from index i.
ToCodePage(info, data, eof, i, buf) ==
  IF i >= Len(data) THEN <<Len(data), buf>>
  ELSE IF MustWait(data, i, eof) THEN <<i, buf>>
  ELSE LET r == DecodeRune(From(data, i))
       IN  ToCodePage(info, data, eof, i + r[2], Append(buf, RuneToByte(info, r[1])))

\* translateFromCodePage.Translate.
FromCodePage(table, data) == FlattenSeq([i \in DOMAIN data |-> EncodeRune(table[data[i] + 1])])

PutUint16(endian, r) == IF endian = "le" THEN <<r % 4, r \div 4>> ELSE <<r \div 4, r % 4>>
Uint16(endian, p) == IF endian = "le" THEN p[1] + 4 * p[2] ELSE 4 * p[1] + p[2]

\* translateToUTF16.Translate: n is the number of bytes consumed so far.
ToUTF16(endian, data, eof, n, buf) ==
  IF data = <<>> \/ (~FullRune(data) /\ ~eof) THEN <<n, buf>>
  ELSE LET r == DecodeRune(data)
       IN  ToUTF16(endian, From(data, r[2]), eof, n + r[2], buf \o PutUint16(endian, r[1]))

FromUTF16(endian, data) ==
  IF Len(data) < 2 THEN <<>>
  ELSE EncodeRune(Uint16(endian, data)) \o FromUTF16(endian, From(data, 2))

BOM == 14   \* 0xfeff, and its bytes swapped
SwappedBOM == Uint16("le", PutUint16("be", BOM))

\* translateFromUTF16.Translate, the byte order mark included.
TranslateFromUTF16(t, data) ==
  LET mark == t.endian = "" /\ Len(data) >= 2
      word == Uint16("be", data)
      endian == IF ~mark THEN t.endian ELSE IF word = BOM THEN "be" ELSE "le"
      skip == IF mark /\ word \in {BOM, SwappedBOM} THEN 2 ELSE 0
      even == Len(data) - (Len(data) % 2)
  IN  IF Len(data) < 2 THEN Translated(0, <<>>, t)
      ELSE Translated(even, FromUTF16(endian, SubSeq(data, skip + 1, even)), [t EXCEPT !.endian = endian])

Translate(t, data, eof) ==
  LET Pair(r) == Translated(r[1], r[2], t) IN
  CASE t.kind = "utf8" -> Pair(ToUTF8(data, eof, 0, <<>>))
    [] t.kind = "fromcp" -> Translated(Len(data), FromCodePage(t.table, data), t)
    [] t.kind = "tocp" -> Pair(ToCodePage(CodePageInfo(t.table), data, eof, 0, <<>>))
    [] t.kind = "toutf16" -> Pair(ToUTF16(t.endian, data, eof, 0, <<>>))
    [] t.kind = "fromutf16" -> TranslateFromUTF16(t, data)

-----------------------------------------------------------------------------
RECURSIVE Grow(_, _)
Grow(m, n) == IF m >= n THEN m ELSE Grow(IF m < 1024 THEN m + m ELSE m + (m \div 4), n)

EnsureCap(c, n) == IF n <= c THEN c ELSE IF c = 0 THEN n ELSE Grow(c, n)

Init ==
  /\ input \in [bytes : Inputs, tr : Translators]
  /\ \A i \in DOMAIN input.bytes : \* a code page of the model is shorter than 256
       input.tr.kind = "fromcp" => input.bytes[i] < Len(input.tr.table)
  /\ tr = input.tr /\ src = input.bytes
  /\ side \in {"reader", "writer"}
  /\ rdata = <<>> /\ capacity = 0 /\ cdata = <<>> /\ out = <<>>
  /\ err = FALSE /\ pending = -1 /\ ended = FALSE

-----------------------------------------------------------------------------
(***************************************************************************)
(* translatingReader.Read: one action per turn of its loop.                *)
(***************************************************************************)
Read(n) ==
  /\ side = "reader" /\ pending = -1 /\ ~ended
  /\ pending' = n
  /\ UNCHANGED <<input, tr, side, src, rdata, capacity, cdata, err, out, ended>>

CopyOut ==
  /\ pending >= 0 /\ cdata # <<>>
  /\ LET n == IF pending < Len(cdata) THEN pending ELSE Len(cdata)
     IN  out' = out \o SubSeq(cdata, 1, n) /\ cdata' = From(cdata, n)
  /\ pending' = -1
  /\ UNCHANGED <<input, tr, side, src, rdata, capacity, err, ended>>

\* At EOF all bytes are consumed if the translator refuses them.
Consumed(r, data, eof) == IF r.n = 0 /\ eof THEN Len(data) ELSE r.n

Convert(data, eof) ==
  LET r == Translate(tr, data, eof) IN
  /\ cdata' = r.out /\ tr' = r.tr
  /\ rdata' = From(data, Consumed(r, data, eof))
  /\ err' = eof

\* r.r.Read returns what there is in pieces of any length, and its EOF with
\* the last piece or after it; without room for a byte it returns 0, nil.
Fill ==
  /\ pending >= 0 /\ cdata = <<>> /\ ~err
  /\ capacity' = EnsureCap(capacity, Len(rdata) + pending)
  /\ LET room == capacity' - Len(rdata)
         most == IF room < Len(src) THEN room ELSE Len(src)
     IN  \E n \in 0 .. most, eof \in BOOLEAN :
           /\ n = 0 => most = 0
           /\ IF n = 0 THEN eof ELSE eof => n = Len(src)
           /\ Convert(rdata \o SubSeq(src, 1, n), eof)
           /\ src' = From(src, n)
  /\ UNCHANGED <<input, side, pending, out, ended>>

Drain ==
  /\ pending >= 0 /\ cdata = <<>> /\ err /\ rdata # <<>>
  /\ Convert(rdata, TRUE)
  /\ UNCHANGED <<input, side, src, capacity, pending, out, ended>>

ReturnErr ==
  /\ pending >= 0 /\ cdata = <<>> /\ err /\ rdata = <<>>
  /\ pending' = -1 /\ ended' = TRUE
  /\ UNCHANGED <<input, tr, side, src, rdata, capacity, cdata, err, out>>

-----------------------------------------------------------------------------
(***************************************************************************)
(* translatingWriter.                                                      *)
(***************************************************************************)
Keep(data, n) == From(data, n)

Write(n) ==
  /\ side = "writer" /\ n \in 1 .. Len(src)
  /\ LET wdata == rdata \o SubSeq(src, 1, n)
         r == Translate(tr, wdata, FALSE)
     IN  /\ out' = IF r.n > 0 THEN out \o r.out ELSE out
         /\ rdata' = Keep(wdata, r.n)
         /\ tr' = r.tr
  /\ src' = From(src, n)
  /\ UNCHANGED <<input, side, capacity, cdata, err, pending, ended>>

\* One turn of the loop of Close.
Close ==
  /\ side = "writer" /\ src = <<>> /\ ~ended
  /\ LET r == Translate(tr, rdata, TRUE)
     IN  /\ rdata' = From(rdata, r.n) /\ out' = out \o r.out /\ tr' = r.tr
         /\ ended' = (r.out = <<>> \/ rdata' = <<>>)
  /\ UNCHANGED <<input, side, src, capacity, cdata, err, pending>>

-----------------------------------------------------------------------------
Reading == CopyOut \/ Fill \/ Drain \/ ReturnErr \/ \E n \in BufSizes : Read(n)
Next == Reading \/ (\E n \in 1 .. 3 : Write(n)) \/ Close
Spec == Init /\ [][Next]_vars

-----------------------------------------------------------------------------
(***************************************************************************)
(* Properties.                                                             *)
(***************************************************************************)
Whole == Translate(input.tr, input.bytes, TRUE).out

\* How the input is cut into pieces cannot be seen in the output: reading or
\* writing it piece by piece, with runes cut in two, yields what translating
\* the whole input at once does, and nothing is given out too early.  The UTF-8
\* translator asks whether the rune at the start of the piece is complete and
\* not the one it is at, so of it this is said for ASCII only.
PiecesDoNotShow ==
  (input.tr.kind = "utf8" => \A i \in DOMAIN input.bytes : input.bytes[i] < RuneSelf) =>
    /\ IsPrefix(out \o cdata, Whole)
    /\ ended => out = Whole
=============================================================================
