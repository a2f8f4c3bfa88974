----------------------------- MODULE MCEventsRepo -----------------------------
(***************************************************************************)
(* A small instance of EventsRepo.                                         *)
(***************************************************************************)
EXTENDS EventsRepo, TLC

CONSTANTS r1, r2, r3

\* A batch of two, one whose payload Postgres refuses, an empty one.
MixedBatches == r1 :> <<"good", "good">> @@ r2 :> <<"badPayload">> @@ r3 :> <<>>
===============================================================================
