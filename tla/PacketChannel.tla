--------------------------- MODULE PacketChannel ---------------------------
(***************************************************************************)
(* What the reader goroutine promises the handlers: the packets that the   *)
(* flight controller sends arrive on fcOutChan as they are, each once and  *)
(* in the order they were sent.                                            *)
(***************************************************************************)
EXTENDS Naturals, Sequences

CONSTANT Packets
VARIABLES sent, delivered

Init == sent = <<>> /\ delivered = <<>>

Send(p) ==
  /\ sent' = Append(sent, p)
  /\ UNCHANGED delivered

Deliver ==
  /\ Len(delivered) < Len(sent)
  /\ delivered' = Append(delivered, sent[Len(delivered) + 1])
  /\ UNCHANGED sent

Next == Deliver \/ \E p \in Packets : Send(p)

Spec == Init /\ [][Next]_<<sent, delivered>> /\ WF_<<sent, delivered>>(Deliver)
=============================================================================
