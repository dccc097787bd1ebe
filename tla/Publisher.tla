----------------------------- MODULE Publisher -----------------------------
(***************************************************************************)
(* The goroutine that sessionHandler starts when the flight controller's   *)
(* objects have been enumerated (main.go, the "go func()" of               *)
(* initAuthHandlers).  It sleeps out the rest of the session pause, sends  *)
(* one metadata setter per active definition to the flight controller, and *)
(* then declares the definitions to rotonde.                               *)
(*                                                                         *)
(* The closure captures the variable activeDefinitions, not its value:     *)
(* each of its two loops ranges over the slice the variable holds when     *)
(* that loop starts.  All setters of one goroutine share one Go map, so    *)
(* the mode a setter carries is the one the map holds when the writer      *)
(* serialises the packet.                                                  *)
(***************************************************************************)
EXTENDS Packets

CONSTANTS
  FlightAcked,  \* definitions with TelemetryFlight.Acked
  GcsAcked,     \* definitions with TelemetryGcs.Acked
  FcInCap       \* capacity of fcInChan, 100 in the code

ASSUME PublisherAssumption ==
  /\ FlightAcked \subseteq Definitions
  /\ GcsAcked \subseteq Definitions
  /\ FcInCap \in Nat \ {0}

VARIABLES
  activeDefinitions,  \* the slice that sessionHandler fills
  fcIn,               \* fcInChan: packets on their way to the writer
  publishers,         \* the publishing goroutines, in the order they started
  published           \* the definitions declared to rotonde, in order

\* fcInChan <- p blocks until the channel has room.
Send(p) ==
  /\ Len(fcIn) < FcInCap
  /\ fcIn' = Append(fcIn, p)

Modes(d) == (IF d \in FlightAcked THEN 4 ELSE 0) + (IF d \in GcsAcked THEN 8 ELSE 0)

\* pc: where the goroutine is; todo: what is left of the slice it ranges
\* over; modes: meta["modes"] of the map its setters share.
Publishers ==
  [pc : {"pause", "setMeta", "sendMeta", "publish", "done", "panic"},
   todo : Seq(Definitions),
   modes : {0, 4, 8, 12}]

StartPublisher ==
  publishers' = Append(publishers, [pc |-> "pause", todo |-> <<>>, modes |-> 0])

\* The end of time.Sleep: the first loop takes its slice.
EndPause(g) ==
  /\ publishers[g].pc = "pause"
  /\ publishers' = [publishers EXCEPT ![g].pc = "setMeta",
                                      ![g].todo = activeDefinitions]
  /\ UNCHANGED <<activeDefinitions, fcIn, published>>

\* Mutant of SetMeta: the map keeps the modes of the definition before.
SetMetaStale(g) ==
  /\ publishers[g].pc = "setMeta"
  /\ publishers[g].todo # <<>>
  /\ publishers' = [publishers EXCEPT ![g].pc = "sendMeta"]
  /\ UNCHANGED <<activeDefinitions, fcIn, published>>

\* meta["modes"] = float64(modes), before the send that may block.
SetMeta(g) ==
  /\ publishers[g].pc = "setMeta"
  /\ publishers[g].todo # <<>>
  /\ publishers' = [publishers EXCEPT ![g].pc = "sendMeta",
                                      ![g].modes = Modes(Head(publishers[g].todo))]
  /\ UNCHANGED <<activeDefinitions, fcIn, published>>

SendMeta(g) ==
  /\ publishers[g].pc = "sendMeta"
  /\ Send(CreateObjectSetter(Head(publishers[g].todo), g))
  /\ publishers' = [publishers EXCEPT ![g].pc = "setMeta", ![g].todo = Tail(@)]
  /\ UNCHANGED <<activeDefinitions, published>>

\* The first loop is over: the second one takes its slice.
StartDefinitions(g) ==
  /\ publishers[g].pc = "setMeta"
  /\ publishers[g].todo = <<>>
  /\ publishers' = [publishers EXCEPT ![g].pc = "publish",
                                      ![g].todo = activeDefinitions]
  /\ UNCHANGED <<activeDefinitions, fcIn, published>>

\* sendAsRotondeDefinitions for a definition and for its metadata.
SendAsRotondeDefinitions(g) ==
  /\ publishers[g].pc = "publish"
  /\ publishers[g].todo # <<>>
  /\ published' = Append(published, Head(publishers[g].todo))
  /\ publishers' = [publishers EXCEPT ![g].todo = Tail(@)]
  /\ UNCHANGED <<activeDefinitions, fcIn>>

EndPublisher(g) ==
  /\ publishers[g].pc = "publish"
  /\ publishers[g].todo = <<>>
  /\ publishers' = [publishers EXCEPT ![g].pc = "done"]
  /\ UNCHANGED <<activeDefinitions, fcIn, published>>

\* activeDefinitions is shared without a lock.  A loop that takes the slice
\* while the handler replaces or extends it can see a length that covers an
\* entry not yet written; the nil definition it finds there ends the process.
TornRead(g) ==
  /\ \/ publishers[g].pc = "pause"
     \/ publishers[g].pc = "setMeta" /\ publishers[g].todo = <<>>
  /\ publishers' = [publishers EXCEPT ![g].pc = "panic"]
  /\ UNCHANGED <<activeDefinitions, fcIn, published>>

Panicked == \E g \in DOMAIN publishers : publishers[g].pc = "panic"

PublisherStep(g) ==
  \/ EndPause(g)
  \/ SetMeta(g)
  \/ SendMeta(g)
  \/ StartDefinitions(g)
  \/ SendAsRotondeDefinitions(g)
  \/ EndPublisher(g)
=============================================================================
