------------------------------ MODULE MCStream ------------------------------
(***************************************************************************)
(* Stream for TLC: an auth object, a sensor, a setting with two instances, *)
(* and ObjectPersistence, taken to be a setting so that its guard matters. *)
(***************************************************************************)
EXTENDS Stream

\* Updates of every kind and a request; settings that clients set while the
\* flight controller updates an object.
MCScenarios ==
  { [updates |->
       { NewPacket("Stats", "ObjectCmdWithAck", 0, <<"v1">>),
         NewPacket("Sensor", "ObjectCmd", 0, <<"v1">>),
         NewPacket("Sensor", "ObjectCmdWithAck", 0, <<"v2">>) },
     actions |-> { [verb |-> "GET", def |-> "Pid", index |-> <<>>, value |-> "v1"] },
     maxUpdates |-> 3, maxActions |-> 1],
    [updates |->
       { NewPacket("Sensor", "ObjectCmd", 0, <<"v1">>),
         NewPacket("Pid", "ObjectCmdWithAck", 0, <<"v1">>) },
     actions |->
       { [verb |-> "SET", def |-> "Pid", index |-> i, value |-> "v2"] : i \in {<<>>, <<1>>} }
         \cup { [verb |-> "GET", def |-> "Pid", index |-> <<>>, value |-> "v1"],
                [verb |-> "SET", def |-> "Pid", index |-> <<1>>, value |-> "v1"] },
     maxUpdates |-> 1, maxActions |-> 2] }
=============================================================================
