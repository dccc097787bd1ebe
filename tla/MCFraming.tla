----------------------------- MODULE MCFraming -----------------------------
(***************************************************************************)
(* Framing for TLC.  Single has one instance and one byte of data; Multi   *)
(* has many instances and no data.  The data byte of a Single packet has   *)
(* the value of sync, and the identifier of Multi looks like the header of *)
(* a frame of 9 bytes and a checksum.                                      *)
(***************************************************************************)
EXTENDS Framing, TLC

Single == <<2, 0, 0, 0>>
Multi == <<4, Sync, 0, 9>>

MCDefinitions ==
  (Single :> [single |-> TRUE, size |-> 1]) @@ (Multi :> [single |-> FALSE, size |-> 0])

SinglePacket == [id |-> Single, cmd |-> 0, instance |-> 0, data |-> <<Sync>>]
MultiPacket == [id |-> Multi, cmd |-> 3, instance |-> 0, data |-> <<>>]

\* No faults; the reader starts within a frame and a byte is changed; the
\* same damage to packets that hold no second header.
MCScenarios ==
  { [packets |-> {SinglePacket, MultiPacket}, sent |-> 4, report |-> 12,
     skipped |-> 0, corrupt |-> 0, lost |-> 0],
    [packets |-> {SinglePacket, MultiPacket}, sent |-> 3, report |-> 3,
     skipped |-> 9, corrupt |-> 1, lost |-> 3],
    [packets |-> {SinglePacket}, sent |-> 4, report |-> 3,
     skipped |-> 9, corrupt |-> 1, lost |-> 3] }
=============================================================================
