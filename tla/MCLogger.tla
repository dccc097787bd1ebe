------------------------------ MODULE MCLogger ------------------------------
(***************************************************************************)
(* An instance of Logger: one goroutine logs at Info and then calls Fatal, *)
(* one logs at Error and then calls Panic.                                 *)
(***************************************************************************)
EXTENDS Logger, TLC

CONSTANTS g1, g2

MCGoroutines == {g1, g2}
MCCalls == (g1 :> <<4, FatalLevel>>) @@ (g2 :> <<2, PanicLevel>>)
MCFields == {"level", "user"}
=============================================================================
