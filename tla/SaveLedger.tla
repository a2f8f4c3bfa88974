------------------------------ MODULE SaveLedger ------------------------------
(***************************************************************************)
(* What a user of the client may rely on when it saves a file: each of its *)
(* batches is stored at most once per command, "Events saved successfully" *)
(* means that all of them are, and after "Failed to save events" some may  *)
(* be, or may still become so.                                             *)
(***************************************************************************)
EXTENDS Naturals

CONSTANTS Commands,    \* the commands
          Parts        \* batches of a file

VARIABLES stored,      \* how many batches of each were inserted
          told         \* what its user knows

ledgerVars == <<stored, told>>

LedgerInit ==
  /\ stored = [x \in Commands |-> 0]
  /\ told = [x \in Commands |-> "none"]

Ask(x) ==
  /\ told[x] = "none"
  /\ told' = [told EXCEPT ![x] = "asked"]
  /\ UNCHANGED stored

Insert(x) ==
  /\ told[x] \in {"asked", "failed"} /\ stored[x] < Parts
  /\ stored' = [stored EXCEPT ![x] = @ + 1]
  /\ UNCHANGED told

Tell(x, t) ==
  /\ told[x] = "asked"
  /\ t = "saved" => stored[x] = Parts
  /\ told' = [told EXCEPT ![x] = t]
  /\ UNCHANGED stored

LedgerNext ==
  \E x \in Commands : Ask(x) \/ Insert(x) \/ \E t \in {"saved", "failed"} : Tell(x, t)

LedgerSpec == LedgerInit /\ [][LedgerNext]_ledgerVars
===============================================================================
