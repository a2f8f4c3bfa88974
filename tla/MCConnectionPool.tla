---------------------------- MODULE MCConnectionPool ----------------------------
(***************************************************************************)
(* Small instances of ConnectionPool. Handlers are interchangeable in the  *)
(* runs without temporal properties.                                       *)
(***************************************************************************)
EXTENDS ConnectionPool, TLC

Symmetry == Permutations(Handlers)
===============================================================================
