----------------------------- MODULE MCTwoServices -----------------------------
(***************************************************************************)
(* Small instances of TwoServices: a client that reads again, with another *)
(* that may save in between.                                               *)
(***************************************************************************)
EXTENDS TwoServices, TLC

CONSTANTS c1, c2

TwoAndOne == c1 :> 2 @@ c2 :> 1
===============================================================================
