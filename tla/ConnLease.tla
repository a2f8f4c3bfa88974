------------------------------ MODULE ConnLease ------------------------------
(***************************************************************************)
(* What a pool of database connections promises its callers, and no more:  *)
(* a connection is free or leased to exactly one thread, and none is ever  *)
(* lost. ConnectionPool implements it (services/history/infrastructure/db/ *)
(* pg_conn_pool.h); EventsRepo is built on it.                             *)
(***************************************************************************)

CONSTANTS Conns,     \* the connections the pool is created with
          Threads,   \* the threads that lease them
          NoConn     \* a thread that leases nothing

VARIABLES free,      \* connections waiting in the pool
          lease      \* the connection each thread holds

leaseVars == <<free, lease>>

LeaseInit ==
  /\ free = {}
  /\ lease = [t \in Threads |-> NoConn]

\* The constructor fills the pool in one go, or throws and leaves it empty.
Fill ==
  /\ free = {} /\ \A t \in Threads : lease[t] = NoConn
  /\ free' = Conns
  /\ UNCHANGED lease

Grant(t, c) ==
  /\ lease[t] = NoConn
  /\ c \in free
  /\ free' = free \ {c}
  /\ lease' = [lease EXCEPT ![t] = c]

GiveBack(t) ==
  /\ lease[t] # NoConn
  /\ free' = free \cup {lease[t]}
  /\ lease' = [lease EXCEPT ![t] = NoConn]

LeaseNext ==
  \/ Fill
  \/ \E t \in Threads : GiveBack(t) \/ \E c \in Conns : Grant(t, c)

LeaseSpec == LeaseInit /\ [][LeaseNext]_leaseVars
==============================================================================
