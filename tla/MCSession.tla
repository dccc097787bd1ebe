----------------------------- MODULE MCSession -----------------------------
(***************************************************************************)
(* Session for TLC: a uint8 that overflows after 2, two objects of which   *)
(* one has no definition, and channels with room for one or two packets.   *)
(***************************************************************************)
EXTENDS Session
=============================================================================
