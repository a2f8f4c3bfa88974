------------------------------ MODULE EventStore ------------------------------
(***************************************************************************)
(* What PostgresEventsRepo::SaveEvents promises its callers: a batch is    *)
(* stored at most once and at one instant, "ok" means that it is stored,   *)
(* and a failure or a silence leaves it open whether it is.                *)
(***************************************************************************)
EXTENDS Naturals

CONSTANTS Requests,    \* calls of SaveEvents
          Empty        \* those with nothing to insert

VARIABLES stored,      \* how many times each batch is in the database
          status       \* what the caller knows of it

storeVars == <<stored, status>>

StoreInit ==
  /\ stored = [r \in Requests |-> 0]
  /\ status = [r \in Requests |-> "new"]

Submit(r) ==
  /\ status[r] = "new"
  /\ status' = [status EXCEPT ![r] = "pending"]
  /\ UNCHANGED stored

Apply(r) ==
  /\ status[r] = "pending" /\ stored[r] = 0 /\ r \notin Empty
  /\ stored' = [stored EXCEPT ![r] = 1]
  /\ UNCHANGED status

Answer(r, a) ==
  /\ status[r] = "pending"
  /\ a = "ok" => stored[r] = 1 \/ r \in Empty
  /\ status' = [status EXCEPT ![r] = a]
  /\ UNCHANGED stored

\* The service dies: every call that is pending stays without an answer.
Silence ==
  /\ status' = [r \in Requests |->
                  IF status[r] = "pending" THEN "silent" ELSE status[r]]
  /\ UNCHANGED stored

StoreNext ==
  \/ Silence
  \/ \E r \in Requests :
       Submit(r) \/ Apply(r) \/ \E a \in {"ok", "notok"} : Answer(r, a)

StoreSpec == StoreInit /\ [][StoreNext]_storeVars
===============================================================================
