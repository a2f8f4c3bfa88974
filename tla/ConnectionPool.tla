---------------------------- MODULE ConnectionPool ----------------------------
(***************************************************************************)
(* services/history/infrastructure/db/pg_conn_pool.h: a FIFO of libpqxx    *)
(* connections behind a mutex and a condition variable, RAII handles that  *)
(* give a connection back (re-creating it when it was found closed), and   *)
(* the start-up loop that prepares the statements on every connection.     *)
(* A step that the code runs under mutex_ is one action; what it does      *)
(* outside the mutex is an action of its own.                              *)
(***************************************************************************)
EXTENDS Naturals, Sequences, FiniteSets, Functions

CONSTANTS Conns,          \* the pool_size connections of the constructor
          Handlers,       \* the gRPC server's threads
          TimedHandlers,  \* those that call Acquire(timeout_ms)
          Main,           \* the thread of main()
          NoConn,         \* an empty handle
          DbMayFail,      \* whether Postgres ever goes away
          PrepareMayFail  \* whether it may refuse a statement on a live session

ASSUME PoolAssumption ==
  /\ Conns # {} /\ IsFiniteSet(Conns) /\ NoConn \notin Conns
  /\ IsFiniteSet(Handlers) /\ Main \notin Handlers
  /\ TimedHandlers \subseteq Handlers
  /\ DbMayFail \in BOOLEAN /\ PrepareMayFail \in BOOLEAN

Threads == Handlers \cup {Main}

VARIABLES
  queue,      \* connections_
  pc,         \* where each thread is
  held,       \* conn_ of the thread's ConnectionHandle
  link,       \* state of each pqxx::connection, see Links
  prepared,   \* connections whose session knows the four statements
  recreated,  \* connections ReturnConnection has replaced by a new one
  refused,    \* connections on whose session the preparer threw
  rounds,     \* i of CreatePreparedPool's loop
  dbUp        \* Postgres accepts connections

vars == <<queue, pc, held, link, prepared, recreated, refused, rounds, dbUp>>

\* "stale": the session is dead and the client has not noticed, is_open() is
\* still true; "closed": a statement failed on it, is_open() is false.
Links == {"none", "open", "stale", "closed"}

PCs == {"construct", "exited", "serving", "idle", "acquiring", "waiting",
        "woken", "using", "returning", "pushing", "notifying"}

At(l) == {t \in Threads : pc[t] = l}
Waiting == At("waiting")
Wanting == At("acquiring") \cup At("waiting") \cup At("woken")
InFlight == At("woken") \cup At("notifying")
Queued == Range(queue)

Goto(t, l) == pc' = [pc EXCEPT ![t] = l]

Init ==
  /\ queue = <<>>
  /\ pc = [t \in Threads |-> IF t = Main THEN "construct" ELSE "idle"]
  /\ held = [t \in Threads |-> NoConn]
  /\ link = [c \in Conns |-> "none"]
  /\ prepared = {} /\ recreated = {} /\ refused = {}
  /\ rounds = 0
  /\ dbUp = TRUE

-------------------------------------------------------------------------------
(* Start-up: the constructor, then CreatePreparedPool's loop, in Main.     *)

\* One iteration of the constructor's loop; the last one publishes the queue.
Construct(c) ==
  /\ pc[Main] = "construct" /\ dbUp /\ link[c] = "none"
  /\ link' = [link EXCEPT ![c] = "open"]
  /\ queue' = Append(queue, c)
  /\ IF \A d \in Conns \ {c} : link[d] # "none"
       THEN Goto(Main, "acquiring") ELSE UNCHANGED pc
  /\ UNCHANGED <<held, prepared, recreated, refused, rounds, dbUp>>

\* The constructor rethrows: what was opened is destroyed, main returns 1.
ConstructThrows ==
  /\ pc[Main] = "construct" /\ ~dbUp
  /\ queue' = <<>>
  /\ link' = [c \in Conns |-> "none"]
  /\ Goto(Main, "exited")
  /\ UNCHANGED <<held, prepared, recreated, refused, rounds, dbUp>>

\* preparer(*conn): the four statements, or a dead session that closes.
Prepare ==
  /\ pc[Main] = "using"
  /\ IF link[held[Main]] = "open"
       THEN prepared' = prepared \cup {held[Main]} /\ UNCHANGED link
       ELSE link' = [link EXCEPT ![held[Main]] = "closed"] /\ UNCHANGED prepared
  /\ Goto(Main, "returning")
  /\ UNCHANGED <<queue, held, recreated, refused, rounds, dbUp>>

\* Postgres refuses a statement (no such table, no privilege): the exception is
\* logged and swallowed, and the session stays open without the statements.
PrepareRefused ==
  /\ PrepareMayFail
  /\ pc[Main] = "using" /\ link[held[Main]] = "open"
  /\ refused' = refused \cup {held[Main]}
  /\ Goto(Main, "returning")
  /\ UNCHANGED <<queue, held, link, prepared, recreated, rounds, dbUp>>

-------------------------------------------------------------------------------
(* Acquire, both overloads.                                                *)

\* A handler of the running server starts a repository call.
Call(h) ==
  /\ pc[Main] = "serving" /\ pc[h] = "idle"
  /\ Goto(h, "acquiring")
  /\ UNCHANGED <<queue, held, link, prepared, recreated, refused, rounds, dbUp>>

Take(t, rest) ==
  /\ queue # <<>>
  /\ held' = [held EXCEPT ![t] = Head(queue)]
  /\ queue' = rest
  /\ Goto(t, "using")
  /\ UNCHANGED <<link, prepared, recreated, refused, rounds, dbUp>>

Bug_NoPop(t) == Take(t, queue)               \* front() without pop()

\* The predicate holds: pop the front and build the handle.
TakeFront(t) == Take(t, Tail(queue))

Acquire(t) == pc[t] \in {"acquiring", "woken"} /\ TakeFront(t)

\* The predicate fails: cv_.wait releases the mutex and blocks.
Wait(t) ==
  /\ pc[t] \in {"acquiring", "woken"} /\ queue = <<>>
  /\ Goto(t, "waiting")
  /\ UNCHANGED <<queue, held, link, prepared, recreated, refused, rounds, dbUp>>

SpuriousWakeup(t) ==
  /\ pc[t] = "waiting"
  /\ Goto(t, "woken")
  /\ UNCHANGED <<queue, held, link, prepared, recreated, refused, rounds, dbUp>>

\* wait_for expires: it returns the predicate, and Acquire throws if it is false.
Timeout(h) ==
  /\ h \in TimedHandlers /\ pc[h] \in {"waiting", "woken"}
  /\ \/ TakeFront(h)
     \/ /\ queue = <<>>
        /\ Goto(h, "idle")
        /\ UNCHANGED <<queue, held, link, prepared, recreated, refused, rounds, dbUp>>

-------------------------------------------------------------------------------
(* The holder's transaction, and ~ConnectionHandle / ReturnConnection.     *)

\* A statement on a dead session throws and closes the connection.
RunStatement(h) ==
  /\ pc[h] = "using"
  /\ link' = IF link[held[h]] = "stale"
               THEN [link EXCEPT ![held[h]] = "closed"] ELSE link
  /\ Goto(h, "returning")
  /\ UNCHANGED <<queue, held, prepared, recreated, refused, rounds, dbUp>>

\* Outside the mutex, is_open(): an open connection goes back as it is ...
KeepOpen(t) ==
  /\ pc[t] = "returning" /\ link[held[t]] # "closed"
  /\ Goto(t, "pushing")
  /\ UNCHANGED <<queue, held, link, prepared, recreated, refused, rounds, dbUp>>

\* ... a closed one is replaced by a new connection ...
Recreate(t) ==
  /\ pc[t] = "returning" /\ link[held[t]] = "closed" /\ dbUp
  /\ link' = [link EXCEPT ![held[t]] = "open"]
  /\ prepared' = prepared \ {held[t]}
  /\ recreated' = recreated \cup {held[t]}
  /\ refused' = refused \ {held[t]}
  /\ Goto(t, "pushing")
  /\ UNCHANGED <<queue, held, rounds, dbUp>>

NotRecreated(t, h) ==
  /\ pc[t] = "returning" /\ link[held[t]] = "closed" /\ ~dbUp
  /\ held' = h
  /\ Goto(t, "pushing")
  /\ UNCHANGED <<queue, link, prepared, recreated, refused, rounds, dbUp>>

Bug_DropClosed(t) ==                         \* conn.reset(), and no "if (conn)"
  NotRecreated(t, [held EXCEPT ![t] = NoConn])

\* ... and when make_unique throws, conn still owns the closed one, which
\* therefore passes "if (conn)" and is pushed.
RecreateFails(t) == NotRecreated(t, held)

PushInto(t, q, h) ==
  /\ pc[t] = "pushing"
  /\ queue' = q
  /\ held' = h
  /\ Goto(t, "notifying")
  /\ UNCHANGED <<link, prepared, recreated, refused, rounds, dbUp>>

Bug_PushFront(t) ==                          \* a stack instead of a queue
  PushInto(t, <<held[t]>> \o queue, [held EXCEPT ![t] = NoConn])
Bug_PushKeep(t) ==                           \* the handle keeps what it returned
  PushInto(t, Append(queue, held[t]), held)

\* Under the mutex.
Push(t) == PushInto(t, Append(queue, held[t]), [held EXCEPT ![t] = NoConn])

Bug_OneRoundMore(t) ==                       \* i <= pool_size
  IF t # Main THEN "idle"
  ELSE IF rounds = Cardinality(Conns) THEN "serving" ELSE "acquiring"

\* Where a thread goes on once its handle is destroyed.
Resume(t) ==
  IF t # Main THEN "idle"
  ELSE IF rounds + 1 = Cardinality(Conns) THEN "serving" ELSE "acquiring"

\* After the mutex: t goes on, having woken one waiter when wake holds.
NotifyWhen(t, wake) ==
  /\ pc[t] = "notifying"
  /\ IF wake
       THEN \E w \in Waiting : pc' = [pc EXCEPT ![t] = Resume(t), ![w] = "woken"]
       ELSE Goto(t, Resume(t))
  /\ rounds' = IF t = Main THEN rounds + 1 ELSE rounds
  /\ UNCHANGED <<queue, held, link, prepared, recreated, refused, dbUp>>

Bug_NotifyIfWasEmpty(t) == NotifyWhen(t, Waiting # {} /\ Len(queue) = 1)
Bug_NotifyNobody(t) == NotifyWhen(t, FALSE)

\* cv_.notify_one() wakes one waiter, if there is any.
Notify(t) == NotifyWhen(t, Waiting # {})

-------------------------------------------------------------------------------
(* Postgres.                                                               *)

DbDown ==
  /\ DbMayFail /\ dbUp
  /\ dbUp' = FALSE
  /\ link' = [c \in Conns |-> IF link[c] = "open" THEN "stale" ELSE link[c]]
  /\ UNCHANGED <<queue, pc, held, prepared, recreated, refused, rounds>>

DbRestart ==
  /\ ~dbUp
  /\ dbUp' = TRUE
  /\ UNCHANGED <<queue, pc, held, link, prepared, recreated, refused, rounds>>

-------------------------------------------------------------------------------
Startup == ConstructThrows \/ Prepare \/ PrepareRefused \/ \E c \in Conns : Construct(c)

\* What a thread does by itself once it has started.
Step(t) ==
  \/ Acquire(t) \/ Wait(t)
  \/ KeepOpen(t) \/ Recreate(t) \/ RecreateFails(t) \/ Push(t) \/ Notify(t)
  \/ t \in Handlers /\ RunStatement(t)

Next ==
  \/ Startup
  \/ \E t \in Threads : Step(t) \/ SpuriousWakeup(t)
  \/ \E h \in Handlers : Call(h) \/ Timeout(h)
  \/ DbDown \/ DbRestart

Spec == Init /\ [][Next]_vars

\* A runnable thread is eventually scheduled. Nothing is assumed of new calls,
\* of timeouts, of spurious wake-ups or of Postgres.
Fairness == WF_vars(Startup) /\ \A t \in Threads : WF_vars(Step(t))

FairSpec == Spec /\ Fairness

-------------------------------------------------------------------------------
(* Properties.                                                             *)

TypeOK ==
  /\ queue \in Seq(Conns)
  /\ pc \in [Threads -> PCs]
  /\ held \in [Threads -> Conns \cup {NoConn}]
  /\ link \in [Conns -> Links]
  /\ prepared \subseteq Conns /\ recreated \subseteq Conns /\ refused \subseteq Conns
  /\ rounds \in Nat
  /\ dbUp \in BOOLEAN

\* Every connection is in the queue once or in one thread's handle, from its
\* creation on: none is shared by two threads, none leaks however reconnecting
\* fails, and whatever a thread finds at the front of the queue is a live object.
Conservation ==
  /\ IsInjective(queue)
  /\ \A s, t \in Threads : held[s] = held[t] /\ held[s] # NoConn => s = t
  /\ \A t \in Threads : held[t] \notin Queued
  /\ \A c \in Conns :
       (c \in Queued \/ \E t \in Threads : held[t] = c) <=> link[c] # "none"

\* The wake-up that hands over a returned connection is never lost, although
\* notify_one runs after the mutex is released and a thread that never slept
\* may take the connection first: as long as anybody sleeps, every queued
\* connection has a thread on its way to it.
NoLostWakeup == Waiting # {} => Len(queue) <= Cardinality(InFlight)

\* CreatePreparedPool takes pool_size connections one after the other, trusting
\* the FIFO to bring each constructed one to the front once, through outages and
\* swallowed failures of the preparer: when the server starts, a connection that
\* lacks the statements is closed, was re-created, or is one the preparer was
\* tried on and threw.
EveryConnectionTried ==
  pc[Main] = "serving" =>
    \A c \in Conns : link[c] = "closed" \/ c \in prepared \cup recreated \cup refused

\* The same loop never prepares a session twice (Postgres refuses a statement
\* name that exists) and never blocks in Acquire, which nobody could end.
StartupNeverBlocks ==
  /\ pc[Main] # "waiting"
  /\ pc[Main] = "using" => held[Main] \notin prepared \cup recreated \cup refused

\* While a thread is blocked in Acquire() connections keep being handed out,
\* through every outage. (Not necessarily to that thread: neither notify_one nor
\* the mutex is fair.)
AcquireProgress ==
  \A t \in Threads \ TimedHandlers : (t \in Wanting) ~> (At("using") # {})

\* "On exception reduce real pool size" (pg_conn_pool.h:128): a connection that
\* could not be re-created is not put back.
ClosedNotQueued == \A c \in Queued : link[c] # "closed"

\* CreatePreparedPool's promise (pg_conn_pool.h:163-169), as the repository
\* relies on it: a connection whose session is alive has the statements.
HandedOutPrepared ==
  \A h \in Handlers :
    pc[h] = "using" /\ link[held[h]] = "open" => held[h] \in prepared

\* The pool is a lease table: see ConnLease.
Lease == INSTANCE ConnLease WITH
  free <- IF pc[Main] \in {"construct", "exited"} THEN {} ELSE Queued,
  lease <- held

ImplementsLease == Lease!LeaseSpec
===============================================================================
