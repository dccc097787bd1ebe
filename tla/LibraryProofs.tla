--------------------------- MODULE LibraryProofs ---------------------------
(***************************************************************************)
(* Proofs about the libraries' goroutines, which have no state in common:  *)
(* Chat (gorilla/websocket) and Logger (logrus).                           *)
(***************************************************************************)
EXTENDS Chat, Logger, TLAPS

-----------------------------------------------------------------------------
(***************************************************************************)
(* Chat, for any set of connections, capacity of the send channels and     *)
(* number of messages: no channel is closed twice or sent to after it was  *)
(* closed, and no client hears a gap.                                      *)
(***************************************************************************)
ReaderStates == {"new", "read", "broadcast", "unregister", "close", "end"}
WriterStates == {"off", "select", "close", "end"}

ChatTypes ==
  /\ connections \in SUBSET Conns /\ ended \in SUBSET Conns
  /\ said \in Nat
  /\ joined \in [Conns -> Nat]
  /\ send \in [Conns -> Seq(Nat)] /\ heard \in [Conns -> Seq(Nat)]
  /\ reader \in [Conns -> ReaderStates] /\ writer \in [Conns -> WriterStates]

\* A connection is in the hub only between Register and the close of its
\* channel, and Register comes once.
HubInv ==
  /\ panicked = FALSE
  /\ connections \cap ended = {}
  /\ \A c \in Conns : reader[c] = "new" => c \notin connections /\ c \notin ended

\* The numbers of s are consecutive, and the first comes after base.
Ordered(s, base) == \A i \in 1 .. Len(s) : s[i] = base + i

\* The messages in a channel follow those that were heard, and end with the
\* last one that was said while the hub knows the connection.
QueueInv ==
  \A c \in Conns :
    /\ reader[c] = "new" => send[c] = <<>> /\ heard[c] = <<>> /\ writer[c] = "off"
    /\ Ordered(heard[c], joined[c])
    /\ writer[c] = "select" => Ordered(send[c], joined[c] + Len(heard[c]))
    /\ (writer[c] = "select" /\ c \in connections) =>
         joined[c] + Len(heard[c]) + Len(send[c]) = said

ChatInv == ChatTypes /\ HubInv /\ QueueInv

-----------------------------------------------------------------------------
\* Appending to a sequence of numbers.
LEMMA AppendNat ==
  ASSUME NEW s \in Seq(Nat), NEW x \in Nat
  PROVE  /\ Append(s, x) \in Seq(Nat)
         /\ Len(Append(s, x)) = Len(s) + 1
         /\ \A i \in 1 .. Len(s) : Append(s, x)[i] = s[i]
         /\ Append(s, x)[Len(s) + 1] = x
  OBVIOUS

\* Taking the first number of a sequence.
LEMMA TailNat ==
  ASSUME NEW s \in Seq(Nat), s # <<>>
  PROVE  /\ Head(s) \in Nat /\ Tail(s) \in Seq(Nat) /\ Len(s) \in Nat /\ Len(s) >= 1
         /\ Head(s) = s[1]
         /\ Len(Tail(s)) = Len(s) - 1
         /\ \A i \in 1 .. Len(s) - 1 : Tail(s)[i] = s[i + 1]
  OBVIOUS

\* A number that follows the last one may be appended.
LEMMA OrderedAppend ==
  ASSUME NEW s \in Seq(Nat), NEW base \in Nat, NEW x \in Nat,
         Ordered(s, base), x = base + Len(s) + 1
  PROVE  Ordered(Append(s, x), base)
<1>1. Len(s) \in Nat
  OBVIOUS
<1> SUFFICES ASSUME NEW i \in 1 .. Len(s) + 1
             PROVE  Append(s, x)[i] = base + i
  BY AppendNat DEF Ordered
<1>2. CASE i \in 1 .. Len(s)
  BY <1>2, AppendNat DEF Ordered
<1>3. CASE i = Len(s) + 1
  <2>1. Append(s, x)[i] = x
    BY <1>3, AppendNat
  <2> QED
    BY <1>1, <1>3, <2>1
<1> QED
  BY <1>1, <1>2, <1>3

\* The first number may be taken.
LEMMA OrderedTail ==
  ASSUME NEW s \in Seq(Nat), NEW base \in Nat, s # <<>>, Ordered(s, base)
  PROVE  Head(s) = base + 1 /\ Ordered(Tail(s), base + 1)
<1>1. Len(s) \in Nat /\ Len(s) >= 1 /\ Len(Tail(s)) = Len(s) - 1
  BY TailNat
<1>2. Head(s) = base + 1
  BY <1>1, TailNat DEF Ordered
<1>3. ASSUME NEW i \in 1 .. Len(s) - 1 PROVE Tail(s)[i] = (base + 1) + i
  <2>1. Tail(s)[i] = s[i + 1]
    BY TailNat
  <2>2. i + 1 \in 1 .. Len(s)
    BY <1>1
  <2>3. s[i + 1] = base + (i + 1)
    BY <2>2 DEF Ordered
  <2> QED
    BY <2>1, <2>3
<1> QED
  BY <1>1, <1>2, <1>3 DEF Ordered

\* Every step keeps the types.
LEMMA ChatTypeStep == ASSUME ChatInv, [ChatNext]_chatVars PROVE ChatTypes'
<1>1. CASE UNCHANGED chatVars
  BY <1>1 DEF ChatInv, ChatTypes, chatVars
<1>2. ASSUME NEW c \in Conns, Register(c) PROVE ChatTypes'
  BY <1>2 DEF ChatInv, ChatTypes, Register, ReaderStates, WriterStates
<1>3. ASSUME NEW c \in Conns, Unregister(c) PROVE ChatTypes'
  BY <1>3 DEF ChatInv, ChatTypes, Unregister, CloseSend, ReaderStates, WriterStates
<1>4. ASSUME NEW c \in Conns, Broadcast(c) PROVE ChatTypes'
  <2>1. said' \in Nat
    BY <1>4 DEF ChatInv, ChatTypes, Broadcast
  <2>2. send' \in [Conns -> Seq(Nat)]
    BY <1>4, <2>1, AppendNat DEF ChatInv, ChatTypes, Broadcast
  <2> QED
    BY <1>4, <2>1, <2>2 DEF ChatInv, ChatTypes, Broadcast, CloseSend, Full, ReaderStates
<1>5. ASSUME NEW c \in Conns, ReadMessage(c) \/ ReadFails(c) \/ ReaderCloses(c) PROVE ChatTypes'
  BY <1>5 DEF ChatInv, ChatTypes, ReadMessage, ReadFails, ReaderCloses, ReaderStates
<1>6. ASSUME NEW c \in Conns, WriteMessage(c) PROVE ChatTypes'
  BY <1>6, TailNat, AppendNat DEF ChatInv, ChatTypes, WriteMessage
<1>7. ASSUME NEW c \in Conns, WriteFails(c) PROVE ChatTypes'
  BY <1>7, TailNat DEF ChatInv, ChatTypes, WriteFails, WriterStates
<1>8. ASSUME NEW c \in Conns, WriteClose(c) \/ WriterCloses(c) PROVE ChatTypes'
  BY <1>8 DEF ChatInv, ChatTypes, WriteClose, WriterCloses, WriterStates
<1> QED
  BY <1>1, <1>2, <1>3, <1>4, <1>5, <1>6, <1>7, <1>8 DEF ChatNext

\* Every step keeps the hub's account of the channels.
LEMMA HubStep == ASSUME ChatInv, [ChatNext]_chatVars PROVE HubInv'
<1>1. CASE UNCHANGED chatVars
  BY <1>1 DEF ChatInv, HubInv, chatVars
<1>2. ASSUME NEW c \in Conns, Register(c) PROVE HubInv'
  BY <1>2 DEF ChatInv, ChatTypes, HubInv, Register
<1>3. ASSUME NEW c \in Conns, Unregister(c) PROVE HubInv'
  BY <1>3 DEF ChatInv, ChatTypes, HubInv, Unregister, CloseSend
<1>4. ASSUME NEW c \in Conns, Broadcast(c) PROVE HubInv'
  BY <1>4 DEF ChatInv, ChatTypes, HubInv, Broadcast, CloseSend, Full
<1>5. ASSUME NEW c \in Conns, ReadMessage(c) \/ ReadFails(c) \/ ReaderCloses(c) PROVE HubInv'
  BY <1>5 DEF ChatInv, ChatTypes, HubInv, ReadMessage, ReadFails, ReaderCloses
<1>6. ASSUME NEW c \in Conns, WriteMessage(c) \/ WriteFails(c) \/ WriteClose(c) \/ WriterCloses(c)
      PROVE HubInv'
  BY <1>6 DEF ChatInv, HubInv, WriteMessage, WriteFails, WriteClose, WriterCloses
<1> QED
  BY <1>1, <1>2, <1>3, <1>4, <1>5, <1>6 DEF ChatNext

\* Every step keeps the messages of every channel in order and without gaps.
LEMMA QueueStep == ASSUME ChatInv, [ChatNext]_chatVars PROVE QueueInv'
<1>1. CASE UNCHANGED chatVars
  BY <1>1 DEF ChatInv, QueueInv, chatVars
<1>2. ASSUME NEW c \in Conns, Register(c) PROVE QueueInv'
  <2>1. /\ joined' = [joined EXCEPT ![c] = said] /\ connections' = connections \cup {c}
        /\ send[c] = <<>> /\ heard[c] = <<>>
    BY <1>2 DEF ChatInv, QueueInv, Register
  <2>2. Ordered(<<>>, joined'[c]) /\ Ordered(<<>>, joined'[c] + 0)
    BY DEF Ordered
  <2>3. said \in Nat /\ joined'[c] = said
    BY <2>1 DEF ChatInv, ChatTypes
  <2>4. said + 0 + 0 = said /\ Len(<<>>) = 0
    BY <2>3
  <2> QED
    BY <1>2, <2>1, <2>2, <2>3, <2>4 DEF ChatInv, ChatTypes, QueueInv, Register
<1>3. ASSUME NEW c \in Conns, Unregister(c) PROVE QueueInv'
  BY <1>3 DEF ChatInv, ChatTypes, QueueInv, Unregister
<1>4. ASSUME NEW c \in Conns, Broadcast(c) PROVE QueueInv'
  <2>1. UNCHANGED <<writer, joined, heard>> /\ said' = said + 1 /\ said' \in Nat
    BY <1>4 DEF ChatInv, ChatTypes, Broadcast
  <2>2. \A d \in Conns : reader'[d] = "new" => reader[d] = "new"
    BY <1>4 DEF ChatInv, ChatTypes, Broadcast
  <2>3. ASSUME NEW d \in Conns, d \in connections \ Full
        PROVE  /\ reader'[d] # "new"
               /\ writer'[d] = "select" =>
                    /\ Ordered(send'[d], joined[d] + Len(heard[d]))
                    /\ joined[d] + Len(heard[d]) + Len(send'[d]) = said'
    <3>1. send'[d] = Append(send[d], said') /\ reader'[d] # "new"
      BY <1>4, <2>2, <2>3 DEF ChatInv, HubInv, Broadcast
    <3>2. /\ send[d] \in Seq(Nat) /\ joined[d] \in Nat /\ said \in Nat
          /\ Len(heard[d]) \in Nat /\ Len(send[d]) \in Nat
      BY DEF ChatInv, ChatTypes
    <3>3. Len(send'[d]) = Len(send[d]) + 1
      BY <2>1, <3>1, <3>2, AppendNat
    <3>4. ASSUME writer'[d] = "select"
          PROVE  /\ Ordered(send[d], joined[d] + Len(heard[d]))
                 /\ joined[d] + Len(heard[d]) + Len(send[d]) = said
      BY <2>1, <2>3, <3>4 DEF ChatInv, QueueInv
    <3>5. joined[d] + Len(heard[d]) \in Nat
      BY <3>2
    <3>6. ASSUME writer'[d] = "select"
          PROVE  Ordered(send'[d], joined[d] + Len(heard[d]))
      <4>1. said' = joined[d] + Len(heard[d]) + Len(send[d]) + 1
        BY <2>1, <3>2, <3>4, <3>6
      <4> QED
        BY <2>1, <3>1, <3>2, <3>4, <3>5, <3>6, <4>1, OrderedAppend
    <3>7. ASSUME writer'[d] = "select"
          PROVE  joined[d] + Len(heard[d]) + Len(send'[d]) = said'
      <4> DEFINE base == joined[d] + Len(heard[d])
                 q == Len(send[d])
      <4>1. base + q = said /\ base \in Nat /\ q \in Nat /\ said \in Nat
        BY <3>2, <3>4, <3>5, <3>7
      <4>2. base + Len(send'[d]) = base + (q + 1)
        BY <3>3
      <4> HIDE DEF base, q
      <4>3. base + (q + 1) = said + 1
        BY <4>1
      <4>4. base + Len(send'[d]) = said'
        BY <2>1, <4>2, <4>3, Zenon
      <4> QED
        BY <4>4, Zenon DEF base
    <3> QED
      BY <3>1, <3>6, <3>7
  <2>4. ASSUME NEW d \in Conns, d \notin connections \ Full
        PROVE  send'[d] = send[d] /\ d \notin connections'
    BY <1>4, <2>4 DEF Broadcast
  <2> QED
    BY <2>1, <2>2, <2>3, <2>4 DEF ChatInv, QueueInv
<1>5. ASSUME NEW c \in Conns, ReadMessage(c) \/ ReadFails(c) \/ ReaderCloses(c) PROVE QueueInv'
  <2>1. /\ UNCHANGED <<connections, send, writer, said, joined, heard>>
        /\ \A d \in Conns : reader'[d] = "new" => reader[d] = "new"
    BY <1>5 DEF ChatInv, ChatTypes, ReadMessage, ReadFails, ReaderCloses
  <2> QED
    BY <2>1 DEF ChatInv, QueueInv
<1>6. ASSUME NEW c \in Conns, WriteMessage(c) PROVE QueueInv'
  <2>1. /\ send[c] \in Seq(Nat) /\ heard[c] \in Seq(Nat) /\ joined[c] \in Nat /\ said \in Nat
        /\ Len(send[c]) \in Nat /\ Len(heard[c]) \in Nat
    BY DEF ChatInv, ChatTypes
  <2>2. /\ send'[c] = Tail(send[c]) /\ heard'[c] = Append(heard[c], Head(send[c]))
        /\ writer[c] = "select" /\ send[c] # <<>>
        /\ UNCHANGED <<writer, joined, said, connections, reader>>
    BY <1>6 DEF ChatInv, ChatTypes, WriteMessage
  <2>3. /\ Ordered(heard[c], joined[c])
        /\ Ordered(send[c], joined[c] + Len(heard[c]))
        /\ c \in connections => joined[c] + Len(heard[c]) + Len(send[c]) = said
        /\ reader[c] # "new"
    BY <2>2 DEF ChatInv, QueueInv
  <2>4. joined[c] + Len(heard[c]) \in Nat
    BY <2>1
  <2>5. /\ Head(send[c]) \in Nat /\ Head(send[c]) = joined[c] + Len(heard[c]) + 1
        /\ Ordered(Tail(send[c]), joined[c] + Len(heard[c]) + 1)
    BY <2>1, <2>2, <2>3, <2>4, TailNat, OrderedTail
  <2>6. Len(send'[c]) = Len(send[c]) - 1 /\ Len(heard'[c]) = Len(heard[c]) + 1
    BY <2>1, <2>2, <2>5, TailNat, AppendNat
  <2>7. Ordered(heard'[c], joined[c])
    BY <2>1, <2>2, <2>3, <2>5, OrderedAppend
  <2>8. joined[c] + Len(heard'[c]) = joined[c] + Len(heard[c]) + 1
    BY <2>1, <2>6
  <2>9. Ordered(send'[c], joined[c] + Len(heard'[c]))
    BY <2>2, <2>5, <2>8
  <2>10. c \in connections => joined[c] + Len(heard'[c]) + Len(send'[c]) = said
    <3> DEFINE base == joined[c] + Len(heard[c])
               q == Len(send[c])
    <3>1. base \in Nat /\ q \in Nat /\ said \in Nat /\ (c \in connections => base + q = said)
      BY <2>1, <2>3, <2>4
    <3>2. joined[c] + Len(heard'[c]) = base + 1 /\ Len(send'[c]) = q - 1
      BY <2>6, <2>8
    <3> HIDE DEF base, q
    <3>3. c \in connections => (base + 1) + (q - 1) = said
      BY <3>1
    <3> QED
      BY <3>2, <3>3, Zenon
  <2>11. \A d \in Conns \ {c} : send'[d] = send[d] /\ heard'[d] = heard[d]
    BY <1>6 DEF ChatInv, ChatTypes, WriteMessage
  <2> QED
    BY <2>2, <2>3, <2>7, <2>9, <2>10, <2>11 DEF ChatInv, QueueInv
<1>7. ASSUME NEW c \in Conns, WriteFails(c) PROVE QueueInv'
  <2>1. /\ UNCHANGED <<connections, reader, said, joined, heard>>
        /\ writer'[c] = "close" /\ reader[c] # "new"
        /\ \A d \in Conns \ {c} : send'[d] = send[d] /\ writer'[d] = writer[d]
    BY <1>7 DEF ChatInv, ChatTypes, QueueInv, WriteFails
  <2> QED
    BY <2>1 DEF ChatInv, QueueInv
<1>8. ASSUME NEW c \in Conns, WriteClose(c) \/ WriterCloses(c) PROVE QueueInv'
  <2>1. /\ UNCHANGED <<connections, send, reader, said, joined, heard>>
        /\ writer'[c] # "select" /\ reader[c] # "new"
        /\ \A d \in Conns \ {c} : writer'[d] = writer[d]
    BY <1>8 DEF ChatInv, ChatTypes, QueueInv, WriteClose, WriterCloses
  <2> QED
    BY <2>1 DEF ChatInv, QueueInv
<1> QED
  BY <1>1, <1>2, <1>3, <1>4, <1>5, <1>6, <1>7, <1>8 DEF ChatNext

-----------------------------------------------------------------------------
\* What the types, the hub and the channels say together always holds of the
\* hub and the pumps of hub.go and conn.go.
THEOREM ChatInductive == ChatSpec => []ChatInv
<1>1. ChatInit => ChatInv
  BY DEF ChatInit, ChatInv, ChatTypes, HubInv, QueueInv, Ordered, ReaderStates, WriterStates
<1>2. ChatInv /\ [ChatNext]_chatVars => ChatInv'
  BY ChatTypeStep, HubStep, QueueStep DEF ChatInv
<1> QED
  BY <1>1, <1>2, PTL DEF ChatSpec

\* The run method of hub.go and the pumps of conn.go never close a send
\* channel twice nor send on a closed one, for any number of connections.
THEOREM NoPanicAlways == ChatSpec => []NoPanic
<1>1. ChatInv => NoPanic
  BY DEF ChatInv, HubInv, NoPanic
<1> QED
  BY <1>1, ChatInductive, PTL

\* A client of the hub hears every message from the time it registered, in
\* order, until it is dropped, whatever the capacity of its channel.
THEOREM NoGapsAlways == ChatSpec => []NoGaps
<1>1. ChatInv => NoGaps
  <2> SUFFICES ASSUME ChatInv, NEW c \in Conns, NEW i \in DOMAIN heard[c]
               PROVE  heard[c][i] = joined[c] + i
    BY DEF NoGaps
  <2>1. heard[c] \in Seq(Nat) /\ Ordered(heard[c], joined[c])
    BY DEF ChatInv, ChatTypes, QueueInv
  <2>2. i \in 1 .. Len(heard[c])
    BY <2>1
  <2> QED
    BY <2>1, <2>2 DEF Ordered
<1> QED
  BY <1>1, ChatInductive, PTL

-----------------------------------------------------------------------------
(***************************************************************************)
(* Logger, for any number of goroutines, calls, levels and fields, while   *)
(* the level and the formatter change: lines are whole and in order, the   *)
(* calls that are enabled are logged and no field is lost.                 *)
(***************************************************************************)
Keys == SUBSET (UserFields \cup {"fields.level", "fields.msg", "fields.time"})
Lines == [g : Goroutines, n : Nat, part : {"begin", "end"}, keys : Keys]
Inside == {"write", "writing", "unlock"}
Places == Inside \cup {"idle", "check", "fire", "hook", "format", "lock", "panic"}

TypeInv ==
  /\ n \in [Goroutines -> Nat]
  /\ pc \in [Goroutines -> Places]
  /\ data \in [Goroutines -> Keys] /\ keys \in [Goroutines -> Keys]
  /\ out \in Seq(Lines)

\* A goroutine between Lock and Unlock owns the mutex.
MutexInv == Running => \A g \in Goroutines : pc[g] \in Inside => mu = {g}

\* The last line is open just when a goroutine is writing it.
OpenLine ==
  Running =>
    /\ \A g \in Goroutines : pc[g] = "writing" => out # <<>> /\ out[Len(out)] = Line(g, "begin")
    /\ (\A g \in Goroutines : pc[g] # "writing") => out = <<>> \/ out[Len(out)].part = "end"

\* No line is of a call that is still to come.
Past == \A i \in 1 .. Len(out) : out[i].n <= n[out[i].g]

Whole ==
  /\ \A i \in 1 .. Len(out) :
       out[i].part = "begin" => i = Len(out) \/ out[i + 1] = [out[i] EXCEPT !.part = "end"]
  /\ \A i \in 1 .. Len(out) : \A j \in 1 .. i : out[i].g = out[j].g => out[j].n <= out[i].n

IInv == TypeInv /\ MutexInv /\ OpenLine /\ Past /\ Whole

-----------------------------------------------------------------------------
\* Appending a line to what was written.
LEMMA AppendLine ==
  ASSUME NEW s \in Seq(Lines), NEW x \in Lines
  PROVE  /\ Append(s, x) \in Seq(Lines) /\ Append(s, x) # <<>>
         /\ Len(s) \in Nat /\ Len(Append(s, x)) = Len(s) + 1
         /\ \A i \in 1 .. Len(s) : Append(s, x)[i] = s[i]
         /\ Append(s, x)[Len(s) + 1] = x
  OBVIOUS

\* A sequence has the numbers up to its length for its domain.
LEMMA LineAt ==
  ASSUME NEW s \in Seq(Lines)
  PROVE  /\ Len(s) \in Nat /\ DOMAIN s = 1 .. Len(s)
         /\ \A i \in 1 .. Len(s) : s[i] \in Lines
         /\ s # <<>> => Len(s) \in 1 .. Len(s)
  OBVIOUS

\* Prefixing the fields keeps them among the keys of this logger.
LEMMA PrefixKeys ==
  ASSUME NEW f \in Keys PROVE PrefixFieldClashes(f) \in Keys /\ PrefixFieldClashes(f) \ Clashing \in Keys
  BY DEF PrefixFieldClashes, Prefixed, Clashing, Keys

\* Every step keeps the types.
LEMMA TypeStep == ASSUME IInv, [Next]_vars PROVE TypeInv'
<1>1. CASE UNCHANGED vars
  BY <1>1 DEF IInv, TypeInv, vars
<1>2. ASSUME NEW g \in Goroutines, Call(g) PROVE TypeInv'
  BY <1>2 DEF IInv, TypeInv, Call, Go, Places, Inside
<1>3. ASSUME NEW g \in Goroutines, Check(g) PROVE TypeInv'
  BY <1>3 DEF IInv, TypeInv, Check, Disabled, Go, Places, Inside
<1>4. ASSUME NEW g \in Goroutines, Fire(g) \/ HookWrites(g) PROVE TypeInv'
  BY <1>4 DEF IInv, TypeInv, Fire, HookWrites, Go, Places, Inside
<1>5. ASSUME NEW g \in Goroutines, Format(g) PROVE TypeInv'
  <2>1. CASE JSONFormat(g)
    BY <1>5, <2>1, PrefixKeys DEF IInv, TypeInv, Format, JSONFormat, Go, Places, Inside
  <2>2. CASE TextFormat(g)
    BY <1>5, <2>2, PrefixKeys DEF IInv, TypeInv, Format, TextFormat, Go, Places, Inside
  <2> QED
    BY <1>5, <2>1, <2>2 DEF Format
<1>6. ASSUME NEW g \in Goroutines, Lock(g) \/ Unlock(g) PROVE TypeInv'
  BY <1>6 DEF IInv, TypeInv, Lock, Unlock, Go, Places, Inside
<1>7. ASSUME NEW g \in Goroutines, Begin(g) \/ End(g) PROVE TypeInv'
  <2>1. Line(g, "begin") \in Lines /\ Line(g, "end") \in Lines
    BY DEF IInv, TypeInv, Line, Lines
  <2>2. out' \in Seq(Lines)
    BY <1>7, <2>1, AppendLine DEF IInv, TypeInv, Begin, End
  <2> QED
    BY <1>7, <2>2 DEF IInv, TypeInv, Begin, End, Go, Places, Inside
<1>8. ASSUME NEW l \in Levels, SetLevel(l) PROVE TypeInv'
  BY <1>8 DEF IInv, TypeInv, SetLevel
<1>9. ASSUME NEW f \in Formatters, SetFormatter(f) PROVE TypeInv'
  BY <1>9 DEF IInv, TypeInv, SetFormatter
<1> QED
  BY <1>1, <1>2, <1>3, <1>4, <1>5, <1>6, <1>7, <1>8, <1>9 DEF Next, Step

\* Every step keeps the mutex with the goroutine that is inside.
LEMMA MutexStep == ASSUME IInv, [Next]_vars PROVE MutexInv'
<1>1. CASE UNCHANGED vars
  BY <1>1 DEF IInv, MutexInv, Running, vars
<1>2. ASSUME NEW g \in Goroutines, Call(g) \/ Fire(g) \/ HookWrites(g) \/ Format(g) PROVE MutexInv'
  BY <1>2 DEF IInv, TypeInv, MutexInv, Call, Fire, HookWrites, Format, At, Go, Running, Inside
<1>3. ASSUME NEW g \in Goroutines, Check(g) PROVE MutexInv'
  BY <1>3 DEF IInv, TypeInv, MutexInv, Check, Disabled, At, Go, Running, Inside
<1>4. ASSUME NEW g \in Goroutines, Lock(g) PROVE MutexInv'
  BY <1>4 DEF IInv, TypeInv, MutexInv, Lock, At, Go, Running, Inside
<1>5. ASSUME NEW g \in Goroutines, Begin(g) \/ End(g) PROVE MutexInv'
  BY <1>5 DEF IInv, TypeInv, MutexInv, Begin, End, At, Go, Running, Inside
<1>6. ASSUME NEW g \in Goroutines, Unlock(g) PROVE MutexInv'
  BY <1>6 DEF IInv, TypeInv, MutexInv, Unlock, At, Go, Running, Inside
<1>7. ASSUME NEW l \in Levels, SetLevel(l) PROVE MutexInv'
  BY <1>7 DEF IInv, MutexInv, SetLevel, Running
<1>8. ASSUME NEW f \in Formatters, SetFormatter(f) PROVE MutexInv'
  BY <1>8 DEF IInv, MutexInv, SetFormatter, Running
<1> QED
  BY <1>1, <1>2, <1>3, <1>4, <1>5, <1>6, <1>7, <1>8 DEF Next, Step

\* A step that writes nothing, and does not touch the call of a goroutine that
\* is writing, keeps what is said of the lines.
LEMMA QuietStep ==
  ASSUME IInv, Running, out' = out,
         \A h \in Goroutines : /\ pc'[h] = "writing" <=> pc[h] = "writing"
                               /\ pc[h] = "writing" => n'[h] = n[h] /\ keys'[h] = keys[h]
                               /\ n'[h] \in Nat /\ n'[h] >= n[h]
  PROVE  OpenLine' /\ Past' /\ Whole'
<1>1. OpenLine'
  BY DEF IInv, OpenLine, Line
<1>2. Past'
  <2> SUFFICES ASSUME NEW i \in 1 .. Len(out) PROVE out[i].n <= n'[out[i].g]
    BY DEF Past
  <2>1. out[i] \in Lines
    BY LineAt DEF IInv, TypeInv
  <2>2. out[i].n \in Nat /\ out[i].g \in Goroutines
    BY <2>1 DEF Lines
  <2>3. n[out[i].g] \in Nat /\ n'[out[i].g] \in Nat /\ n'[out[i].g] >= n[out[i].g]
    BY <2>2 DEF IInv, TypeInv
  <2>4. out[i].n <= n[out[i].g]
    BY DEF IInv, Past
  <2> QED
    BY <2>2, <2>3, <2>4
<1>3. Whole'
  BY DEF IInv, Whole
<1> QED
  BY <1>1, <1>2, <1>3

\* A line is added to the end by the only goroutine inside: it begins when no
\* line is open, and it ends the one that is.
LEMMA WriteStep ==
  ASSUME IInv, NEW g \in Goroutines, NEW part \in {"begin", "end"}, Running,
         out' = Append(out, Line(g, part)), UNCHANGED n,
         \/ part = "begin" /\ (out = <<>> \/ out[Len(out)].part = "end")
         \/ part = "end" /\ out # <<>> /\ out[Len(out)] = Line(g, "begin")
  PROVE  Past' /\ Whole'
<1> DEFINE x == Line(g, part)
<1>1. /\ x \in Lines /\ x.g = g /\ x.n = n[g] /\ x.part = part
      /\ Line(g, "end") = [Line(g, "begin") EXCEPT !.part = "end"]
      /\ Line(g, "begin").part = "begin"
  <2>1. n[g] \in Nat /\ keys[g] \in Keys
    BY DEF IInv, TypeInv
  <2>2. x \in Lines
    BY <2>1 DEF Line, Lines
  <2> QED
    BY <2>2 DEF Line
<1>2. /\ Len(out) \in Nat /\ Len(out') = Len(out) + 1
      /\ \A i \in 1 .. Len(out) : out'[i] = out[i] /\ out[i] \in Lines
      /\ out'[Len(out) + 1] = x
      /\ out # <<>> => Len(out) \in 1 .. Len(out)
  BY <1>1, AppendLine, LineAt DEF IInv, TypeInv
<1> HIDE DEF x
<1>3. \A i \in 1 .. Len(out) + 1 : i \in 1 .. Len(out) \/ i = Len(out) + 1
  BY <1>2
<1>4. n[g] \in Nat
  BY DEF IInv, TypeInv
<1>5. Past'
  <2> SUFFICES ASSUME NEW i \in 1 .. Len(out) + 1 PROVE out'[i].n <= n[out'[i].g]
    BY <1>2 DEF Past
  <2>1. CASE i \in 1 .. Len(out)
    BY <1>2, <2>1 DEF IInv, Past
  <2>2. CASE i = Len(out) + 1
    BY <1>1, <1>2, <1>4, <2>2
  <2> QED
    BY <1>3, <2>1, <2>2
<1>6. ASSUME NEW i \in 1 .. Len(out) + 1, out'[i].part = "begin"
      PROVE  i = Len(out) + 1 \/ out'[i + 1] = [out'[i] EXCEPT !.part = "end"]
  <2>1. CASE i \in 1 .. Len(out) /\ i # Len(out)
    <3>1. i + 1 \in 1 .. Len(out)
      BY <1>2, <2>1
    <3> QED
      BY <1>2, <1>6, <2>1, <3>1 DEF IInv, Whole
  <2>2. CASE i \in 1 .. Len(out) /\ i = Len(out)
    <3>1. out # <<>> /\ out[i] = Line(g, "begin") /\ part = "end"
      BY <1>2, <1>6, <2>2
    <3> QED
      BY <1>1, <1>2, <2>2, <3>1 DEF x
  <2> QED
    BY <1>3, <2>1, <2>2
<1>7. ASSUME NEW i \in 1 .. Len(out) + 1, NEW j \in 1 .. i, out'[i].g = out'[j].g
      PROVE  out'[j].n <= out'[i].n
  <2>1. CASE i \in 1 .. Len(out)
    <3>1. j \in 1 .. Len(out)
      BY <1>2, <2>1
    <3> QED
      BY <1>2, <1>7, <2>1, <3>1 DEF IInv, Whole
  <2>2. CASE i = Len(out) + 1
    <3>1. j \in 1 .. Len(out) + 1
      BY <1>2, <2>2
    <3>2. out'[j].n <= n[out'[j].g]
      BY <1>2, <1>5, <3>1 DEF Past
    <3> QED
      BY <1>1, <1>2, <1>7, <2>2, <3>2
  <2> QED
    BY <1>3, <2>1, <2>2
<1>8. Whole'
  BY <1>2, <1>6, <1>7 DEF Whole
<1> QED
  BY <1>5, <1>8

\* Every step keeps the lines whole and in order.
LEMMA LinesStep == ASSUME IInv, [Next]_vars PROVE OpenLine' /\ Past' /\ Whole'
<1>1. CASE UNCHANGED vars
  BY <1>1 DEF IInv, OpenLine, Past, Whole, Line, Running, vars
<1>2. ASSUME NEW g \in Goroutines, Call(g) PROVE OpenLine' /\ Past' /\ Whole'
  BY <1>2, QuietStep DEF IInv, TypeInv, Call, At, Go
<1>3. ASSUME NEW g \in Goroutines, Check(g) PROVE OpenLine' /\ Past' /\ Whole'
  BY <1>3, QuietStep DEF IInv, TypeInv, Check, Disabled, At, Go
<1>4. ASSUME NEW g \in Goroutines, Fire(g) \/ HookWrites(g) \/ Lock(g)
      PROVE  OpenLine' /\ Past' /\ Whole'
  BY <1>4, QuietStep DEF IInv, TypeInv, Fire, HookWrites, Lock, At, Go
<1>5. ASSUME NEW g \in Goroutines, Format(g) PROVE OpenLine' /\ Past' /\ Whole'
  BY <1>5, QuietStep DEF IInv, TypeInv, Format, JSONFormat, TextFormat, At, Go
<1>6. ASSUME NEW g \in Goroutines, Begin(g) PROVE OpenLine' /\ Past' /\ Whole'
  <2>1. Running /\ mu = {g} /\ \A h \in Goroutines : pc[h] # "writing"
    BY <1>6 DEF IInv, MutexInv, Begin, At, Inside
  <2>2. out = <<>> \/ out[Len(out)].part = "end"
    BY <2>1 DEF IInv, OpenLine
  <2>3. out' = Append(out, Line(g, "begin")) /\ UNCHANGED <<n, keys>>
    BY <1>6 DEF Begin
  <2>4. Past' /\ Whole'
    BY <2>1, <2>2, <2>3, WriteStep
  <2>5. pc'[g] = "writing" /\ \A h \in Goroutines \ {g} : pc'[h] # "writing"
    BY <1>6, <2>1 DEF IInv, TypeInv, Begin, Go
  <2>6. Line(g, "begin") \in Lines
    BY DEF IInv, TypeInv, Line, Lines
  <2>7. out' # <<>> /\ out'[Len(out')] = Line(g, "begin")
    BY <2>3, <2>6, AppendLine DEF IInv, TypeInv
  <2> QED
    BY <2>3, <2>4, <2>5, <2>7 DEF OpenLine, Line
<1>7. ASSUME NEW g \in Goroutines, End(g) PROVE OpenLine' /\ Past' /\ Whole'
  <2>1. Running /\ mu = {g} /\ \A h \in Goroutines \ {g} : pc[h] # "writing"
    BY <1>7 DEF IInv, MutexInv, End, At, Inside
  <2>2. out # <<>> /\ out[Len(out)] = Line(g, "begin")
    BY <1>7 DEF IInv, OpenLine, End, At
  <2>3. out' = Append(out, Line(g, "end")) /\ UNCHANGED <<n, keys>>
    BY <1>7 DEF End
  <2>4. Past' /\ Whole'
    BY <2>1, <2>2, <2>3, WriteStep
  <2>5. \A h \in Goroutines : pc'[h] # "writing"
    BY <1>7, <2>1 DEF IInv, TypeInv, End, Go
  <2>6. Line(g, "end") \in Lines /\ Line(g, "end").part = "end"
    BY DEF IInv, TypeInv, Line, Lines
  <2>7. out'[Len(out')].part = "end"
    BY <2>3, <2>6, AppendLine DEF IInv, TypeInv
  <2> QED
    BY <2>4, <2>5, <2>7 DEF OpenLine
<1>8. ASSUME NEW g \in Goroutines, Unlock(g) PROVE OpenLine' /\ Past' /\ Whole'
  BY <1>8, QuietStep DEF IInv, TypeInv, Unlock, At, Go
<1>9. ASSUME NEW l \in Levels, SetLevel(l) PROVE OpenLine' /\ Past' /\ Whole'
  BY <1>9, QuietStep DEF IInv, TypeInv, SetLevel
<1>10. ASSUME NEW f \in Formatters, SetFormatter(f) PROVE OpenLine' /\ Past' /\ Whole'
  BY <1>10, QuietStep DEF IInv, TypeInv, SetFormatter
<1> QED
  BY <1>1, <1>2, <1>3, <1>4, <1>5, <1>6, <1>7, <1>8, <1>9, <1>10 DEF Next, Step

-----------------------------------------------------------------------------
LEMMA InitIInv == Init => IInv
<1> SUFFICES ASSUME Init PROVE IInv
  OBVIOUS
<1>1. TypeInv
  BY DEF Init, TypeInv, Keys, Places
<1>2. Len(out) = 0 /\ out = <<>>
  BY DEF Init
<1> QED
  BY <1>1, <1>2 DEF Init, IInv, MutexInv, OpenLine, Past, Whole, Inside

LEMMA NextIInv == IInv /\ [Next]_vars => IInv'
BY TypeStep, MutexStep, LinesStep DEF IInv

\* Entry.log of entry.go writes whole lines to Out, in the order of the calls
\* of each goroutine, for any number of goroutines, also when they panic.
THEOREM LinesWholeAlways == Spec => []LinesWhole
<1>1. IInv => LinesWhole
  BY LineAt DEF IInv, TypeInv, Whole, LinesWhole
<1> QED
  BY <1>1, InitIInv, NextIInv, PTL DEF Spec

-----------------------------------------------------------------------------
(***************************************************************************)
(* The fields.  A key that Format leaves out was printed under its other   *)
(* name, and the entry's own fields only grow.                             *)
(***************************************************************************)
Kept(s) == \A k \in UserFields : k \in s \/ (k \in Clashing /\ Prefixed(k) \in s)

FieldsInv ==
  /\ \A g \in Goroutines :
       /\ UserFields \subseteq data[g]
       /\ pc[g] \in Inside \cup {"lock"} => Kept(keys[g])
  /\ \A i \in 1 .. Len(out) : Kept(out[i].keys)

\* Both formatters keep the fields of an entry that has them all.
LEMMA FormatKeeps ==
  ASSUME NEW f, UserFields \subseteq f
  PROVE  Kept(f) /\ Kept(PrefixFieldClashes(f) \ Clashing) /\ UserFields \subseteq PrefixFieldClashes(f)
BY DEF Kept, PrefixFieldClashes, Prefixed, Clashing

LEMMA FieldsStep == ASSUME IInv, FieldsInv, [Next]_vars PROVE FieldsInv'
<1>1. CASE UNCHANGED vars
  BY <1>1 DEF FieldsInv, vars
<1>2. ASSUME NEW g \in Goroutines, Call(g) \/ Fire(g) \/ HookWrites(g) \/ Lock(g) PROVE FieldsInv'
  BY <1>2 DEF IInv, TypeInv, FieldsInv, Call, Fire, HookWrites, Lock, At, Go, Inside
<1>3. ASSUME NEW g \in Goroutines, Check(g) \/ Unlock(g) PROVE FieldsInv'
  BY <1>3 DEF IInv, TypeInv, FieldsInv, Check, Disabled, Unlock, At, Go, Inside
<1>4. ASSUME NEW g \in Goroutines, Format(g) PROVE FieldsInv'
  <2>1. Kept(keys'[g]) /\ UserFields \subseteq data'[g]
    <3>1. UserFields \subseteq data[g]
      BY DEF FieldsInv
    <3>2. /\ Kept(data[g]) /\ Kept(PrefixFieldClashes(data[g]) \ Clashing)
          /\ UserFields \subseteq PrefixFieldClashes(data[g])
      BY <3>1, FormatKeeps
    <3>3. CASE JSONFormat(g)
      BY <3>1, <3>2, <3>3 DEF IInv, TypeInv, JSONFormat
    <3>4. CASE TextFormat(g)
      BY <3>1, <3>2, <3>4 DEF IInv, TypeInv, TextFormat
    <3> QED
      BY <1>4, <3>3, <3>4 DEF Format
  <2>2. \A h \in Goroutines \ {g} : keys'[h] = keys[h] /\ data'[h] = data[h] /\ pc'[h] = pc[h]
    BY <1>4 DEF IInv, TypeInv, Format, JSONFormat, TextFormat, Go
  <2> QED
    BY <1>4, <2>1, <2>2 DEF FieldsInv, Format
<1>5. ASSUME NEW g \in Goroutines, Begin(g) \/ End(g) PROVE FieldsInv'
  <2>1. PICK part \in {"begin", "end"} : out' = Append(out, Line(g, part))
    BY <1>5 DEF Begin, End
  <2>2. Line(g, part) \in Lines /\ Line(g, part).keys = keys[g]
    BY DEF IInv, TypeInv, Line, Lines
  <2>3. Kept(keys[g])
    BY <1>5 DEF FieldsInv, Begin, End, At, Inside
  <2>4. \A i \in 1 .. Len(out') : Kept(out'[i].keys)
    BY <2>1, <2>2, <2>3, AppendLine DEF IInv, TypeInv, FieldsInv
  <2>5. \A h \in Goroutines : pc'[h] \in Inside \cup {"lock"} => pc[h] \in Inside \cup {"lock"}
    BY <1>5 DEF IInv, TypeInv, Begin, End, At, Go, Inside
  <2> QED
    BY <1>5, <2>4, <2>5 DEF FieldsInv, Begin, End
<1>6. ASSUME NEW l \in Levels, SetLevel(l) PROVE FieldsInv'
  BY <1>6 DEF FieldsInv, SetLevel
<1>7. ASSUME NEW f \in Formatters, SetFormatter(f) PROVE FieldsInv'
  BY <1>7 DEF FieldsInv, SetFormatter
<1> QED
  BY <1>1, <1>2, <1>3, <1>4, <1>5, <1>6, <1>7 DEF Next, Step

-----------------------------------------------------------------------------
(***************************************************************************)
(* The level.  seen[g] holds the level of the moment as long as the call   *)
(* of g goes on, so each comparison is with one of its members: a call     *)
(* that got past them all saw a level that enables it, and one that was    *)
(* turned away saw one that does not.                                      *)
(***************************************************************************)
Before == {"check", "fire", "hook", "format", "lock", "write"}
Passed == Inside \cup {"fire", "hook", "format", "lock"}

CallInv(g) ==
  /\ n[g] <= Len(Calls[g])
  /\ ~Returned(g) => n[g] > 0 /\ level \in seen[g]
  /\ pc[g] \in Passed => \E l \in seen[g] : l >= Own(g)
  /\ pc[g] \in Before => ~Begun(g, n[g])
  /\ pc[g] \in {"writing", "unlock"} => Begun(g, n[g])
  /\ n[g] > 0 /\ Returned(g) =>
       /\ Begun(g, n[g]) \/ \E l \in seen[g] : l < Own(g)
       /\ ~Begun(g, n[g]) \/ \E l \in seen[g] : l >= Own(g)
  /\ exited = {g} => pc[g] = "unlock" \/ (pc[g] = "check" /\ level < Own(g))

LevelInv ==
  /\ level \in 0 .. 5
  /\ seen \in [Goroutines -> SUBSET (0 .. 5)]
  /\ \A g \in Goroutines : CallInv(g)

\* The level of a call that was begun.
LEMMA OwnLevel ==
  ASSUME NEW g \in Goroutines, IInv, n[g] > 0, n[g] <= Len(Calls[g])
  PROVE  Own(g) \in 0 .. 5
<1>1. n[g] \in Nat /\ Calls[g] \in Seq(0 .. 5)
  BY LoggerAssumption DEF IInv, TypeInv
<1>2. n[g] \in 1 .. Len(Calls[g])
  BY <1>1
<1> QED
  BY <1>1, <1>2 DEF Own

\* What a goroutine has begun is its own affair.
LEMMA BegunStep ==
  ASSUME IInv, NEW g \in Goroutines, NEW part \in {"begin", "end"},
         out' = Append(out, Line(g, part)), UNCHANGED n
  PROVE  /\ \A h \in Goroutines \ {g} : Begun(h, n[h])' <=> Begun(h, n[h])
         /\ Begun(g, n[g])' <=> (part = "begin" \/ Begun(g, n[g]))
<1>1. /\ Line(g, part) \in Lines /\ Line(g, part).g = g
      /\ Line(g, part).n = n[g] /\ Line(g, part).part = part
  BY DEF IInv, TypeInv, Line, Lines
<1> DEFINE x == Line(g, part)
<1>2. /\ DOMAIN out' = DOMAIN out \cup {Len(out) + 1}
      /\ \A i \in DOMAIN out : out'[i] = out[i]
      /\ out'[Len(out) + 1] = x
  <2>1. out \in Seq(Lines)
    BY DEF IInv, TypeInv
  <2> HIDE DEF x
  <2> QED
    BY <1>1, <2>1 DEF x
<1> HIDE DEF x
<1>3. x.g = g /\ x.n = n[g] /\ x.part = part
  BY <1>1 DEF x
<1> QED
  BY <1>2, <1>3 DEF Begun

\* A call that was not made yet has begun no line.
LEMMA NotYetBegun ==
  ASSUME IInv, NEW g \in Goroutines
  PROVE  ~Begun(g, n[g] + 1)
<1> SUFFICES ASSUME NEW i \in DOMAIN out, out[i].g = g, out[i].n = n[g] + 1 PROVE FALSE
  BY DEF Begun
<1>1. i \in 1 .. Len(out) /\ n[g] \in Nat
  BY LineAt DEF IInv, TypeInv
<1> QED
  BY <1>1 DEF IInv, Past

\* The calls of the goroutines that do not take the step.
LEMMA OtherCalls ==
  ASSUME LevelInv, NEW h \in Goroutines, UNCHANGED level,
         pc'[h] = pc[h], n'[h] = n[h], seen'[h] = seen[h], exited' # {h} \/ exited' = exited,
         Begun(h, n[h])' <=> Begun(h, n[h])
  PROVE  CallInv(h)'
BY DEF LevelInv, CallInv, Returned, Own, Begun

LEMMA LevelStep == ASSUME IInv, LevelInv, [Next]_vars PROVE LevelInv'
<1> DEFINE others(g) == \A h \in Goroutines \ {g} : CallInv(h)'
<1>1. CASE UNCHANGED vars
  BY <1>1 DEF LevelInv, CallInv, Returned, Own, Begun, vars
<1>2. ASSUME NEW g \in Goroutines, Call(g) PROVE LevelInv'
  <2>1. /\ pc'[g] = "check" /\ n'[g] = n[g] + 1 /\ seen'[g] = {level}
        /\ n[g] < Len(Calls[g]) /\ n[g] \in Nat /\ Len(Calls[g]) \in Nat
        /\ exited = {} /\ UNCHANGED <<level, out, exited>>
    <3>1. /\ n \in [Goroutines -> Nat] /\ pc \in [Goroutines -> Places]
          /\ seen \in [Goroutines -> SUBSET (0 .. 5)]
      BY DEF IInv, TypeInv, LevelInv
    <3>2. /\ exited = {} /\ n[g] < Len(Calls[g]) /\ UNCHANGED <<level, out, exited>>
          /\ n' = [n EXCEPT ![g] = @ + 1] /\ seen' = [seen EXCEPT ![g] = {level}]
          /\ pc' = [pc EXCEPT ![g] = "check"]
      BY <1>2 DEF Call, At, Go, Running
    <3>3. n[g] \in Nat /\ Len(Calls[g]) \in Nat
      BY <3>1, LoggerAssumption
    <3>4. pc'[g] = "check" /\ n'[g] = n[g] + 1 /\ seen'[g] = {level}
      BY <3>1, <3>2
    <3> QED
      BY <3>2, <3>3, <3>4
  <2>2. CallInv(g)'
    BY <2>1, NotYetBegun DEF CallInv, Returned, Begun, Passed, Inside, Before
  <2>3. others(g)
    BY <1>2, OtherCalls DEF IInv, TypeInv, LevelInv, Call, Go, Begun
  <2>4. seen' \in [Goroutines -> SUBSET (0 .. 5)]
    BY <1>2 DEF LevelInv, Call
  <2> QED
    BY <2>1, <2>2, <2>3, <2>4 DEF LevelInv
<1>3. ASSUME NEW g \in Goroutines, Check(g) PROVE LevelInv'
  <2>1. /\ pc[g] = "check" /\ exited = {} /\ n[g] \in Nat
        /\ UNCHANGED <<level, n, seen, out>>
    BY <1>3 DEF IInv, TypeInv, Check, At, Running
  <2>2. Own(g) \in 0 .. 5
    BY <2>1, OwnLevel DEF LevelInv, CallInv, Returned
  <2>3. CallInv(g)'
    <3>1. CASE level >= Own(g)
      <4>1. pc'[g] \in {"check", "fire"} /\ exited' = {}
        BY <1>3, <2>1, <3>1 DEF IInv, TypeInv, Check, Go
      <4> QED
        BY <2>1, <2>2, <3>1, <4>1
           DEF LevelInv, CallInv, Returned, Own, Begun, Passed, Inside, Before
    <3>2. CASE ~(level >= Own(g))
      <4>1. \/ exited' = {g} /\ pc' = pc
            \/ pc'[g] = "idle" /\ exited' = {}
        BY <1>3, <2>1, <3>2 DEF IInv, TypeInv, Check, Disabled, Go
      <4>2. level < Own(g)
        BY <2>2, <3>2 DEF LevelInv
      <4> QED
        BY <2>1, <2>2, <4>1, <4>2
           DEF LevelInv, CallInv, Returned, Own, Begun, Passed, Inside, Before
    <3> QED
      BY <3>1, <3>2
  <2>4. others(g)
    <3> SUFFICES ASSUME NEW h \in Goroutines, h # g PROVE CallInv(h)'
      OBVIOUS
    <3>1. pc'[h] = pc[h] /\ exited' # {h}
      BY <1>3, <2>1 DEF IInv, TypeInv, Check, Disabled, Go
    <3> QED
      BY <2>1, <3>1, OtherCalls DEF Begun
  <2> QED
    BY <2>1, <2>3, <2>4 DEF LevelInv
<1>4. ASSUME NEW g \in Goroutines, Fire(g) \/ HookWrites(g) \/ Format(g) \/ Lock(g) PROVE LevelInv'
  <2>1. /\ pc[g] \in Passed \cap Before /\ pc'[g] \in Passed \cap Before
        /\ \A h \in Goroutines \ {g} : pc'[h] = pc[h]
        /\ exited = {} /\ UNCHANGED <<level, n, seen, out, exited>>
    BY <1>4 DEF IInv, TypeInv, Fire, HookWrites, Format, Lock, At, Go, Running,
                Passed, Inside, Before
  <2>2. CallInv(g)'
    BY <2>1 DEF LevelInv, CallInv, Returned, Own, Begun, Passed, Inside, Before
  <2>3. others(g)
    BY <2>1, OtherCalls DEF Begun
  <2> QED
    BY <2>1, <2>2, <2>3 DEF LevelInv
<1>5. ASSUME NEW g \in Goroutines, Begin(g) \/ End(g) PROVE LevelInv'
  <2>1. /\ pc[g] \in Passed /\ pc'[g] \in {"writing", "unlock"}
        /\ \A h \in Goroutines \ {g} : pc'[h] = pc[h]
        /\ exited = {} /\ UNCHANGED <<level, n, seen, exited>>
    BY <1>5 DEF IInv, TypeInv, Begin, End, At, Go, Running, Passed, Inside
  <2>2. PICK part \in {"begin", "end"} :
          out' = Append(out, Line(g, part)) /\ (part = "begin" \/ pc[g] = "writing")
    BY <1>5 DEF Begin, End, At
  <2>3. Begun(g, n[g])'
    BY <2>1, <2>2, BegunStep DEF LevelInv, CallInv
  <2>4. CallInv(g)'
    BY <2>1, <2>3 DEF LevelInv, CallInv, Returned, Own, Passed, Inside, Before
  <2>5. others(g)
    <3> SUFFICES ASSUME NEW h \in Goroutines, h # g PROVE CallInv(h)'
      OBVIOUS
    <3>1. Begun(h, n[h])' <=> Begun(h, n[h])
      BY <2>1, <2>2, BegunStep
    <3> QED
      BY <2>1, <3>1, OtherCalls
  <2> QED
    BY <2>1, <2>4, <2>5 DEF LevelInv
<1>6. ASSUME NEW g \in Goroutines, Unlock(g) PROVE LevelInv'
  <2>1. /\ pc[g] = "unlock" /\ exited = {} /\ UNCHANGED <<level, n, seen, out>>
        /\ \/ exited' = {g} /\ pc' = pc
           \/ pc'[g] \in {"idle", "panic"} /\ exited' = {}
        /\ \A h \in Goroutines \ {g} : pc'[h] = pc[h]
    BY <1>6 DEF IInv, TypeInv, Unlock, At, Go, Running
  <2>2. CallInv(g)'
    BY <2>1 DEF LevelInv, CallInv, Returned, Own, Begun, Passed, Inside, Before
  <2>3. others(g)
    BY <2>1, OtherCalls DEF Begun
  <2> QED
    BY <2>1, <2>2, <2>3 DEF LevelInv
<1>7. ASSUME NEW l \in Levels, SetLevel(l) PROVE LevelInv'
  <2>1. /\ level' = l /\ exited = {} /\ UNCHANGED <<pc, n, out, exited>> /\ l \in 0 .. 5
        /\ seen' = [g \in Goroutines |-> IF Returned(g) THEN seen[g] ELSE seen[g] \cup {l}]
    BY <1>7, LoggerAssumption DEF SetLevel, Running
  <2>2. seen' \in [Goroutines -> SUBSET (0 .. 5)]
    BY <2>1 DEF LevelInv
  <2>3. ASSUME NEW g \in Goroutines PROVE CallInv(g)'
    <3>1. /\ Returned(g) => seen'[g] = seen[g]
          /\ ~Returned(g) => l \in seen'[g]
          /\ seen[g] \subseteq seen'[g]
      BY <2>1
    <3> QED
      BY <2>1, <3>1 DEF LevelInv, CallInv, Returned, Own, Begun
  <2> QED
    BY <2>1, <2>2, <2>3 DEF LevelInv
<1>8. ASSUME NEW f \in Formatters, SetFormatter(f) PROVE LevelInv'
  BY <1>8 DEF LevelInv, CallInv, Returned, Own, Begun, SetFormatter
<1> QED
  BY <1>1, <1>2, <1>3, <1>4, <1>5, <1>6, <1>7, <1>8 DEF Next, Step

\* Whatever SetLevel does during a call, a call that was enabled all the time
\* has written its line when it is over and one that never was has not; and no
\* line lacks a field, whichever formatters its entry was logged with before.
THEOREM LoggedInFullAlways == Spec => []LoggedInFull
<1>1. Init => FieldsInv /\ LevelInv
  <2> SUFFICES ASSUME Init PROVE FieldsInv /\ LevelInv
    OBVIOUS
  <2>1. Len(out) = 0 /\ level \in 0 .. 5 /\ \A g \in Goroutines : 0 <= Len(Calls[g])
    BY LoggerAssumption DEF Init
  <2>2. ASSUME NEW g \in Goroutines
        PROVE  /\ pc[g] = "idle" /\ n[g] = 0 /\ data[g] = UserFields /\ exited # {g}
    BY DEF Init
  <2>3. FieldsInv
    BY <2>1, <2>2 DEF FieldsInv, Inside
  <2>4. ASSUME NEW g \in Goroutines PROVE CallInv(g)
    BY <2>1, <2>2 DEF CallInv, Returned, Inside, Passed, Before
  <2>5. seen \in [Goroutines -> SUBSET (0 .. 5)]
    BY DEF Init
  <2> QED
    BY <2>1, <2>3, <2>4, <2>5 DEF LevelInv
<1>2. IInv /\ FieldsInv /\ LevelInv /\ [Next]_vars => (FieldsInv /\ LevelInv)'
  BY FieldsStep, LevelStep
<1>3. IInv /\ FieldsInv /\ LevelInv => LoggedInFull
  <2> SUFFICES ASSUME IInv, FieldsInv, LevelInv PROVE LoggedInFull
    OBVIOUS
  <2>1. ClashesKept
    BY LineAt DEF IInv, TypeInv, FieldsInv, Kept, ClashesKept
  <2>2. ASSUME NEW g \in Goroutines, n[g] > 0, Returned(g) \/ exited = {g}
        PROVE  /\ (\A l \in seen[g] : l >= Own(g)) => Begun(g, n[g])
               /\ (\A l \in seen[g] : l < Own(g)) => ~Begun(g, n[g])
    <3>1. CallInv(g) /\ Own(g) \in 0 .. 5 /\ seen[g] \subseteq 0 .. 5
      BY <2>2, OwnLevel DEF LevelInv, CallInv
    <3> QED
      BY <2>2, <3>1 DEF CallInv, Returned, Passed, Inside, Before
  <2> QED
    BY <2>1, <2>2 DEF LoggedInFull, EnabledIsLogged
<1> QED
  BY <1>1, <1>2, <1>3, InitIInv, NextIInv, PTL DEF Spec
=============================================================================
