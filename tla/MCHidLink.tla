----------------------------- MODULE MCHidLink -----------------------------
(***************************************************************************)
(* HidLink for TLC: two flight controllers of one kind, one of another,    *)
(* and two other devices, one with a product string that does not convert. *)
(***************************************************************************)
EXTENDS HidLink

Fc1 == [id |-> "sparky", unit |-> 1, readable |-> TRUE]
Fc2 == [id |-> "sparky", unit |-> 2, readable |-> TRUE]
Quanton == [id |-> "quanton", unit |-> 1, readable |-> TRUE]
Mouse == [id |-> "mouse", unit |-> 1, readable |-> TRUE]
Oddity == [id |-> "oddity", unit |-> 1, readable |-> FALSE]

SomeFrames == {<<1, 2, 3, 4, 5>>, <<6>>}
SomeReports == {<<1>>, <<2, 3>>, <<4, 5, 6>>}

\* The search among devices that come and go, and the link to one that may
\* be unplugged, with a driver that fails.
MCScenarios ==
  { [devices |-> {Fc1, Fc2, Quanton, Mouse, Oddity}, maxPlugs |-> 5,
     maxFrames |-> 0, maxReports |-> 0, mayFail |-> FALSE],
    [devices |-> {Fc1}, maxPlugs |-> 2, maxFrames |-> 2, maxReports |-> 2, mayFail |-> TRUE] }
=============================================================================
