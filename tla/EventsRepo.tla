------------------------------ MODULE EventsRepo ------------------------------
(***************************************************************************)
(* services/history/infrastructure/db/postgres_events_repo.cc and the two  *)
(* tables of sql/schema.sql: gRPC handler threads that save batches in one *)
(* transaction each, on a connection leased from the pool, and threads     *)
(* that read, while sessions die at any moment and the service restarts.   *)
(***************************************************************************)
EXTENDS ConnLease, Naturals, Sequences, FiniteSets

CONSTANTS Requests,    \* the SaveEvents calls that are made, each once
          Batch,       \* the kinds of the events of each call, in order
          NoReq        \* a thread that saves nothing

\* "good" satisfies both tables; insert_event fails on "badEvent" (a timestamp
\* Postgres cannot read), insert_payload on "badPayload" (a parsed_ip that is
\* no INET). Both kinds get past ValidateEvent.
Kinds == {"good", "badEvent", "badPayload"}

ASSUME RepoAssumption ==
  /\ Batch \in [Requests -> Seq(Kinds)]
  /\ NoReq \notin Requests /\ NoConn \notin Conns

VARIABLES
  pc,         \* where each handler thread is
  req,        \* the batch it saves
  pos,        \* the event its loop is at
  id,         \* event_id, returned by insert_event
  outcome,    \* the Result it is about to return
  session,    \* the session of each connection: see Sessions
  openRows,   \* the rows of the thread's transaction
  rows,       \* the committed rows
  nextId,     \* the sequence behind events.id, which no rollback resets
  result,     \* what the caller of each SaveEvents got
  known,      \* saves acknowledged before the thread's read call began
  seen        \* what GetEvents or GetStats returned to the thread

dbVars == <<session, openRows, rows, nextId>>
vars == <<free, lease, pc, req, pos, id, outcome, session, openRows, rows,
          nextId, result, known, seen>>

\* "bare": without the prepared statements, because ReturnConnection opened it
\* or because the preparer threw on it.
Sessions == {"prepared", "bare", "dead"}
AtStart == {"prepared", "bare"}

\* A row of one of the two tables, for the k-th event of batch req.
Rows == [table : {"events", "payloads"}, id : Nat, req : Requests, k : Nat]

PCs == {"idle", "acquire", "event", "payload", "commit", "committed", "return",
        "acquireRead", "query", "returnRead"}

Holding == {"event", "payload", "commit", "committed", "query", "returnRead"}

Init ==
  /\ LeaseInit /\ pc = [t \in Threads |-> "idle"]
  /\ req = [t \in Threads |-> NoReq]
  /\ pos = [t \in Threads |-> 1]
  /\ id = [t \in Threads |-> 0]
  /\ outcome = [t \in Threads |-> "none"]
  /\ session \in [Conns -> AtStart]
  /\ openRows = [t \in Threads |-> {}]
  /\ rows = {} /\ nextId = 1
  /\ result = [r \in Requests |-> "none"]
  /\ known = [t \in Threads |-> {}]
  /\ seen = [t \in Threads |-> {}]

\* CreatePreparedPool has run: see ConnectionPool.
Start ==
  /\ Fill
  /\ UNCHANGED <<pc, req, pos, id, outcome, dbVars, result, known, seen>>

\* The server takes calls once the pool exists.
Started == free # {} \/ \E t \in Threads : lease[t] # NoConn

Goto(t, l) == pc' = [pc EXCEPT ![t] = l]

\* A statement works on a session that is alive and prepared.
CanExecute(t) == session[lease[t]] = "prepared"

-------------------------------------------------------------------------------
(* SaveEvents.                                                             *)

\* Nothing to insert is ok, and needs no connection.
SaveEvents(t, r) ==
  /\ Started /\ pc[t] = "idle" /\ result[r] = "none" /\ \A u \in Threads : req[u] # r
  /\ req' = [req EXCEPT ![t] = r]
  /\ pos' = [pos EXCEPT ![t] = 1]
  /\ IF Batch[r] = <<>>
       THEN Goto(t, "return") /\ outcome' = [outcome EXCEPT ![t] = "ok"]
       ELSE Goto(t, "acquire") /\ UNCHANGED outcome
  /\ UNCHANGED <<free, lease, id, dbVars, result, known, seen>>

Acquire(t) ==
  /\ pc[t] \in {"acquire", "acquireRead"}
  /\ \E c \in Conns : Grant(t, c)
  /\ Goto(t, IF pc[t] = "acquire" THEN "event" ELSE "query")
  /\ UNCHANGED <<req, pos, id, outcome, dbVars, result, known, seen>>

Kind(t) == Batch[req[t]][pos[t]]
Row(t, table, n) == [table |-> table, id |-> n, req |-> req[t], k |-> pos[t]]

InsertEvent(t) ==
  /\ pc[t] = "event" /\ CanExecute(t) /\ Kind(t) # "badEvent"
  /\ openRows' = [openRows EXCEPT ![t] = @ \cup {Row(t, "events", nextId)}]
  /\ id' = [id EXCEPT ![t] = nextId]
  /\ nextId' = nextId + 1
  /\ Goto(t, "payload")
  /\ UNCHANGED <<free, lease, req, pos, outcome, session, rows, result, known, seen>>

More(t) == pos[t] < Len(Batch[req[t]])

\* n is the event_id the payload refers to, done where the last event leads to.
PayloadRow(t, n, more, done) ==
  /\ pc[t] = "payload" /\ CanExecute(t) /\ Kind(t) # "badPayload"
  /\ openRows' = [openRows EXCEPT ![t] = @ \cup {Row(t, "payloads", n)}]
  /\ IF more
       THEN Goto(t, "event") /\ pos' = [pos EXCEPT ![t] = @ + 1]
       ELSE Goto(t, done) /\ UNCHANGED pos
  /\ UNCHANGED <<free, lease, req, id, outcome, session, rows, nextId, result, known, seen>>

Bug_NewestId(t) == PayloadRow(t, nextId - 1, More(t), "commit")  \* max(id)
Bug_NoCommit(t) == PayloadRow(t, id[t], More(t), "committed")    \* no commit()
Bug_OneTooMany(t) ==                                             \* i <= size()
  PayloadRow(t, id[t], pos[t] <= Len(Batch[req[t]]), "commit")

InsertPayload(t) == PayloadRow(t, id[t], More(t), "commit")

\* txn.commit() has sent COMMIT: Postgres carries it out in one go ...
CommitRows(t, new) ==
  /\ pc[t] = "commit" /\ CanExecute(t)
  /\ rows' = rows \cup new
  /\ openRows' = [openRows EXCEPT ![t] = @ \ new]
  /\ Goto(t, IF new = openRows[t] THEN "committed" ELSE "commit")
  /\ UNCHANGED <<free, lease, req, pos, id, outcome, session, nextId, result, known, seen>>

Bug_CommitEach(t) ==                     \* a transaction for every event
  \E n \in {row.id : row \in openRows[t]} :
    CommitRows(t, {row \in openRows[t] : row.id = n})

Commit(t) == CommitRows(t, openRows[t])

\* ... and commit() returns once it has the answer.
CommitAnswered(t) ==
  /\ pc[t] = "committed" /\ CanExecute(t)
  /\ outcome' = [outcome EXCEPT ![t] = "ok"]
  /\ Goto(t, "return")
  /\ UNCHANGED <<free, lease, req, pos, id, dbVars, result, known, seen>>

FailWith(t, keep) ==
  /\ \/ pc[t] \in {"event", "payload", "commit", "committed"} /\ ~CanExecute(t)
     \/ pc[t] = "event" /\ Kind(t) = "badEvent"
     \/ pc[t] = "payload" /\ Kind(t) = "badPayload"
  /\ rows' = rows \cup keep
  /\ openRows' = [openRows EXCEPT ![t] = {}]
  /\ outcome' = [outcome EXCEPT ![t] = "notok"]
  /\ Goto(t, "return")
  /\ UNCHANGED <<free, lease, req, pos, id, session, nextId, result, known, seen>>

Bug_KeepPartial(t) == FailWith(t, openRows[t])       \* commit in the handler

\* A statement or commit() throws; ~work rolls back.
Fail(t) == FailWith(t, {})

\* ~ConnectionHandle: a session that was found dead is replaced if Postgres
\* answers, one that died unnoticed goes back as it is.
Release(t) ==
  /\ GiveBack(t)
  /\ IF session[lease[t]] = "dead"
       THEN \E s \in {"dead", "bare"} : session' = [session EXCEPT ![lease[t]] = s]
       ELSE UNCHANGED session
  /\ UNCHANGED <<openRows, rows, nextId>>

ReturnSave(t, give) ==
  /\ pc[t] = "return"
  /\ IF give THEN Release(t) ELSE UNCHANGED <<free, lease, dbVars>>
  /\ result' = [result EXCEPT ![req[t]] = outcome[t]]
  /\ req' = [req EXCEPT ![t] = NoReq]
  /\ outcome' = [outcome EXCEPT ![t] = "none"]
  /\ Goto(t, "idle")
  /\ UNCHANGED <<pos, id, known, seen>>

Bug_LeakOnFailure(t) == ReturnSave(t, lease[t] # NoConn /\ outcome[t] = "ok")

\* The handle dies with the scope, and the caller gets the Result.
Return(t) == ReturnSave(t, lease[t] # NoConn)

-------------------------------------------------------------------------------
(* GetEvents and GetStats: one statement in a read transaction.            *)

Read(t) ==
  /\ Started /\ pc[t] = "idle"
  /\ known' = [known EXCEPT ![t] = {r \in Requests : result[r] = "ok"}]
  /\ seen' = [seen EXCEPT ![t] = {}]
  /\ Goto(t, "acquireRead")
  /\ UNCHANGED <<free, lease, req, pos, id, outcome, dbVars, result>>

\* The statement reads the committed rows; when it throws, nothing is returned.
Query(t) ==
  /\ pc[t] = "query"
  /\ IF CanExecute(t)
       THEN seen' = [seen EXCEPT ![t] = rows] /\ UNCHANGED known
       ELSE known' = [known EXCEPT ![t] = {}] /\ UNCHANGED seen
  /\ Goto(t, "returnRead")
  /\ UNCHANGED <<free, lease, req, pos, id, outcome, dbVars, result>>

ReturnRead(t) ==
  /\ pc[t] = "returnRead"
  /\ Release(t)
  /\ Goto(t, "idle")
  /\ UNCHANGED <<req, pos, id, outcome, result, known, seen>>

-------------------------------------------------------------------------------
(* Failures.                                                               *)

\* A session dies (Postgres restarts, the network breaks) and with it the
\* transaction it had not committed.
SessionDies(c) ==
  /\ session[c] # "dead"
  /\ session' = [session EXCEPT ![c] = "dead"]
  /\ openRows' = [t \in Threads |-> IF lease[t] = c THEN {} ELSE openRows[t]]
  /\ UNCHANGED <<free, lease, pc, req, pos, id, outcome, rows, nextId, result, known, seen>>

\* The service is killed and its sessions roll back; it starts afresh, with an
\* empty pool. Whoever waited for it gets no answer.
Crash ==
  /\ free' = {} /\ lease' = [t \in Threads |-> NoConn]
  /\ pc' = [t \in Threads |-> "idle"]
  /\ req' = [t \in Threads |-> NoReq]
  /\ pos' = [t \in Threads |-> 1]
  /\ id' = [t \in Threads |-> 0]
  /\ outcome' = [t \in Threads |-> "none"]
  /\ session' \in [Conns -> AtStart]
  /\ openRows' = [t \in Threads |-> {}]
  /\ result' = [r \in Requests |->
                  IF \E t \in Threads : req[t] = r THEN "silent" ELSE result[r]]
  /\ known' = [t \in Threads |-> {}]
  /\ seen' = [t \in Threads |-> {}]
  /\ UNCHANGED <<rows, nextId>>

-------------------------------------------------------------------------------
\* What a thread does by itself inside a call.
Step(t) ==
  \/ Acquire(t) \/ InsertEvent(t) \/ InsertPayload(t) \/ Commit(t)
  \/ CommitAnswered(t) \/ Fail(t) \/ Return(t) \/ Query(t) \/ ReturnRead(t)

Next ==
  \/ Start \/ Crash
  \/ \E c \in Conns : SessionDies(c)
  \/ \E t \in Threads : Step(t) \/ Read(t) \/ \E r \in Requests : SaveEvents(t, r)

Spec == Init /\ [][Next]_vars

\* Handler threads are scheduled and Postgres answers every statement or lets
\* the session die; nobody promises that Acquire is fair.
FairSpec == Spec /\ \A t \in Threads : WF_vars(Step(t))

-------------------------------------------------------------------------------
(* Properties.                                                             *)

CallTypes ==
  /\ free \subseteq Conns /\ lease \in [Threads -> Conns \cup {NoConn}]
  /\ pc \in [Threads -> PCs] /\ req \in [Threads -> Requests \cup {NoReq}]
  /\ \A t \in Threads : pc[t] \in {"event", "payload"} => pos[t] \in 1 .. Len(Batch[req[t]])
  /\ id \in [Threads -> Nat] /\ nextId \in Nat
  /\ outcome \in [Threads -> {"none", "ok", "notok"}]
  /\ session \in [Conns -> Sessions]
  /\ result \in [Requests -> {"none", "ok", "notok", "silent"}]
  /\ known \in [Threads -> SUBSET Requests]

DataTypes ==
  /\ pos \in [Threads -> Nat]
  /\ rows \subseteq Rows /\ openRows \in [Threads -> SUBSET Rows]
  /\ seen \in [Threads -> SUBSET Rows]

TypeOK == CallTypes /\ DataTypes

\* How often the k-th event of batch r is in a table, among the rows of S.
Copies(S, r, k, table) ==
  Cardinality({row \in S : row.req = r /\ row.k = k /\ row.table = table})

HasAll(S, r) ==
  \A k \in 1 .. Len(Batch[r]) :
    Copies(S, r, k, "events") = 1 /\ Copies(S, r, k, "payloads") = 1
HasNone(S, r) == \A row \in S : row.req # r

\* A batch is in the database as a whole, every event of it once, or not at
\* all: whichever statement of it fails, and whenever the session, Postgres or
\* the service dies.
AtomicSaves == \A r \in Requests : HasAll(rows, r) \/ HasNone(rows, r)

\* Every stored event has one payload and it is its own, although the rows of
\* several transactions and the gaps of aborted ones share the id sequence:
\* GetEvents, whose LEFT JOIN would yield a NULL raw_line, can rely on it.
PayloadIsItsEvents ==
  \A e \in {row \in rows : row.table = "events"} :
    {row \in rows : row.table = "payloads" /\ row.id = e.id}
      = {[e EXCEPT !.table = "payloads"]}

\* A batch that was answered "ok" is stored, and stays so whatever dies later.
AckedIsStored == \A r \in Requests : result[r] = "ok" => HasAll(rows, r)

\* A reader sees whole batches, and every batch that was acknowledged to
\* anybody before it called.
ReadsAreWhole ==
  \A t \in Threads : pc[t] = "returnRead" =>
    /\ \A r \in Requests : HasAll(seen[t], r) \/ HasNone(seen[t], r)
    /\ \A r \in known[t] : HasAll(seen[t], r)

\* A thread that got a connection gives it back, on every path: no failure of a
\* statement leaks one.
HoldersRelease == \A t \in Threads : lease[t] # NoConn ~> lease[t] = NoConn

\* The repository is an atomic store: see EventStore.
Store == INSTANCE EventStore WITH
  Empty <- {r \in Requests : Batch[r] = <<>>},
  stored <- [r \in Requests |->
               IF HasNone(rows, r) THEN 0 ELSE IF HasAll(rows, r) THEN 1 ELSE 2],
  status <- [r \in Requests |->
               IF \E t \in Threads : req[t] = r THEN "pending"
               ELSE IF result[r] = "none" THEN "new" ELSE result[r]]

ImplementsStore == Store!StoreSpec
===============================================================================
