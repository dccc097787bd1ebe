-------------------------- MODULE MCSessionSystem --------------------------
(***************************************************************************)
(* SessionSystem for TLC.  The object table has a definition at its first  *)
(* index, an object without definition, and in the longer table a second   *)
(* definition behind it.                                                   *)
(***************************************************************************)
EXTENDS SessionSystem

Scenario(objects, kinds, n) ==
  [objects |-> objects, faults |-> [f \in FaultKinds |-> IF f \in kinds THEN n ELSE 0]]

MCScenarios ==
  { Scenario(<<1, 2, 3>>, {"timeout"}, 2), Scenario(<<1, 2, 3>>, {"retransmit"}, 1),
    Scenario(<<1, 2>>, {"reboot", "loss"}, 1), Scenario(<<1, 2>>, {"restart"}, 1) }
MCReboot == {Scenario(<<1, 2, 3>>, {"reboot"}, 1)}
MCLoss == {Scenario(<<1, 2, 3>>, {"loss", "timeout"}, 1)}
=============================================================================
