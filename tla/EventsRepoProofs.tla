--------------------------- MODULE EventsRepoProofs ---------------------------
(***************************************************************************)
(* Proofs about EventsRepo, for every number of connections and threads    *)
(* and all batches: what is stored is whole, its rows belong together, and *)
(* the repository implements EventStore.                                   *)
(***************************************************************************)
EXTENDS EventsRepo, FiniteSetTheorems, SequenceTheorems, TLAPS

Tables == {"events", "payloads"}

\* The rows of all transactions, committed or open.
AllRows == rows \cup UNION {openRows[t] : t \in Threads}

\* The k-th event of r is in both tables; so is every event of r.
Has(S, r, k) ==
  \A table \in Tables : \E row \in S : row.table = table /\ row.req = r /\ row.k = k
Complete(S, r) == \A k \in 1 .. Len(Batch[r]) : Has(S, r, k)

\* An id stands for one event, and an event has one id.
Numbered ==
  /\ \A row \in AllRows : row.id < nextId /\ row.k \in 1 .. Len(Batch[row.req])
  /\ \A a, b \in AllRows : a.id = b.id <=> a.req = b.req /\ a.k = b.k

Saving(t) == pc[t] \in {"acquire", "event", "payload", "commit", "committed", "return"}
Inserting(t) == pc[t] \in {"event", "payload", "commit"}

\* What the place of a thread says of its call.
Located(t) ==
  /\ Saving(t) <=> req[t] # NoReq
  /\ Saving(t) => result[req[t]] = "none"
  /\ pc[t] = "acquire" => pos[t] = 1 /\ Len(Batch[req[t]]) >= 1
  /\ Inserting(t) => pos[t] \in 1 .. Len(Batch[req[t]])
  /\ pc[t] = "commit" => pos[t] = Len(Batch[req[t]])
  /\ pc[t] \in Holding => lease[t] \in Conns
  /\ pc[t] = "return" <=> outcome[t] # "none"
  /\ pc[t] = "committed" \/ outcome[t] = "ok" => Complete(rows, req[t])

\* A thread's transaction holds what its loop has inserted, or nothing.
Open(t) ==
  /\ openRows[t] # {} => Inserting(t) /\ CanExecute(t)
  /\ \A row \in openRows[t] :
       row.req = req[t] /\ row.k <= pos[t] /\ (pc[t] = "event" => row.k # pos[t])
  /\ Inserting(t) /\ CanExecute(t) =>
       \A k \in 1 .. pos[t] : k < pos[t] \/ pc[t] = "commit" => Has(openRows[t], req[t], k)
  /\ pc[t] = "payload" /\ CanExecute(t) =>
       \E e \in openRows[t] : e.table = "events" /\ e.k = pos[t] /\ e.id = id[t]

\* What a reader has seen, and what it must.
Reader(t) ==
  /\ pc[t] \in {"acquireRead", "query"} =>
       seen[t] = {} /\ \A r \in known[t] : result[r] = "ok"
  /\ pc[t] = "returnRead" =>
       /\ \A r \in Requests : HasAll(seen[t], r) \/ HasNone(seen[t], r)
       /\ \A r \in known[t] : HasAll(seen[t], r)

OneSaver == \A t, u \in Threads : req[t] = req[u] /\ req[t] # NoReq => t = u

\* What is committed is whole, and the caller's doing.
Committed ==
  /\ \A r \in Requests : HasNone(rows, r) \/ Complete(rows, r)
  /\ \A r \in Requests : result[r] = "ok" => Complete(rows, r)
  /\ \A row \in rows :
       result[row.req] = "none" =>
         \E t \in Threads : req[t] = row.req /\ pc[t] \in {"committed", "return"}

IInv ==
  /\ CallTypes /\ DataTypes /\ Numbered /\ OneSaver /\ Committed
  /\ \A t \in Threads : Located(t) /\ Open(t) /\ Reader(t)

-------------------------------------------------------------------------------
(* Rows.                                                                   *)

LEMMA Types ==
  ASSUME IInv
  PROVE  /\ CallTypes /\ DataTypes
         /\ \A r \in Requests : Len(Batch[r]) \in Nat
         /\ \A t \in Threads : Located(t) /\ Open(t) /\ Reader(t)
         /\ \A t \in Threads : req[t] # NoReq => req[t] \in Requests
         /\ AllRows \subseteq Rows /\ NoReq \notin Requests /\ NoConn \notin Conns
         /\ \A t \in Threads : pos[t] \in Nat /\ openRows[t] \subseteq Rows
<1>1. \A r \in Requests : Len(Batch[r]) \in Nat
  BY RepoAssumption, LenProperties DEF RepoAssumption
<1>2. AllRows \subseteq Rows
  BY DEF IInv, DataTypes, AllRows
<1>3. QED BY <1>1, <1>2, RepoAssumption DEF RepoAssumption, IInv, CallTypes, DataTypes

LEMMA HasMore ==
  ASSUME NEW S, NEW T, S \subseteq T, NEW r, NEW k, Has(S, r, k)
  PROVE  Has(T, r, k)
  BY DEF Has

LEMMA CompleteMore ==
  ASSUME NEW S, NEW T, S \subseteq T, NEW r, Complete(S, r)
  PROVE  Complete(T, r)
  BY HasMore DEF Complete

\* Rows that vanish or move leave the others' ids alone.
LEMMA FewerRows ==
  ASSUME Numbered, AllRows' \subseteq AllRows, nextId' = nextId
  PROVE  Numbered'
  BY DEF Numbered

LEMMA OneRowMore ==
  ASSUME IInv, NEW new \in Rows, AllRows' \subseteq AllRows \cup {new},
         nextId' \in Nat, nextId' >= nextId, new.id < nextId',
         new.k \in 1 .. Len(Batch[new.req]),
         \A b \in AllRows : b.id = new.id <=> b.req = new.req /\ b.k = new.k
  PROVE  Numbered'
<1>1. \A row \in AllRows : row.id < nextId /\ row.k \in 1 .. Len(Batch[row.req])
  BY DEF IInv, Numbered
<1>2. \A row \in AllRows : row.id \in Nat
  BY Types DEF Rows
<1>3. \A row \in AllRows' : row.id < nextId' /\ row.k \in 1 .. Len(Batch[row.req])
  BY <1>1, <1>2, Types DEF CallTypes
<1>4. \A a, b \in AllRows : a.id = b.id <=> a.req = b.req /\ a.k = b.k
  BY DEF IInv, Numbered
<1>5. \A a, b \in AllRows' : a.id = b.id <=> a.req = b.req /\ a.k = b.k
  BY <1>4
<1>6. QED BY <1>3, <1>5 DEF Numbered

\* Where an event has one id it is in a table at most once, so that counting its
\* copies comes to looking for one.
OneId(S) ==
  S \subseteq Rows /\ \A a, b \in S : a.req = b.req /\ a.k = b.k => a.id = b.id

LEMMA OneCopy ==
  ASSUME NEW S, OneId(S), NEW r, NEW k, NEW table \in Tables,
         \E row \in S : row.table = table /\ row.req = r /\ row.k = k
  PROVE  Copies(S, r, k, table) = 1
<1>1. PICK row \in S : row.table = table /\ row.req = r /\ row.k = k
  OBVIOUS
<1>2. ASSUME NEW b \in S, b.table = table, b.req = r, b.k = k PROVE b = row
  <2>1. b.id = row.id /\ b \in Rows /\ row \in Rows
    BY <1>1, <1>2 DEF OneId
  <2>2. QED BY <1>1, <1>2, <2>1 DEF Rows
<1>3. {b \in S : b.req = r /\ b.k = k /\ b.table = table} = {row}
  BY <1>1, <1>2
<1>4. QED BY <1>3, FS_Singleton DEF Copies

LEMMA CompleteHasAll ==
  ASSUME NEW S, OneId(S), NEW r, Complete(S, r)
  PROVE  HasAll(S, r)
  BY OneCopy DEF Complete, Has, HasAll, Tables

LEMMA RowsHaveOneId == IInv => OneId(rows)
  BY DEF IInv, DataTypes, Numbered, AllRows, OneId

-------------------------------------------------------------------------------
(* Threads and the others.                                                 *)

Same(u) == UNCHANGED <<lease[u], pc[u], req[u], pos[u], id[u], outcome[u],
                       openRows[u], known[u], seen[u]>>

\* What a step of one thread, or of none, keeps for another.
LEMMA OtherThread ==
  ASSUME IInv, NEW u \in Threads, Same(u),
         Inserting(u) => (CanExecute(u)' <=> CanExecute(u)),
         rows \subseteq rows', \A r \in Requests : result[r] = "ok" => result'[r] = "ok",
         Saving(u) => result'[req[u]] = "none"
  PROVE  Located(u)' /\ Open(u)' /\ Reader(u)'
<1> USE Types
<1>1. (Saving(u)' <=> Saving(u)) /\ (Inserting(u)' <=> Inserting(u))
  BY DEF Same, Saving, Inserting
<1>2. Complete(rows, req[u]) => Complete(rows', req[u])
  BY CompleteMore
<1>3. Located(u)'
  BY <1>1, <1>2 DEF Same, Located, Complete
<1>4. Open(u)'
  <2>1. /\ pc'[u] = pc[u] /\ req'[u] = req[u] /\ pos'[u] = pos[u] /\ id'[u] = id[u]
        /\ openRows'[u] = openRows[u]
    BY DEF Same
  <2>2. \A k : Has(openRows[u], req[u], k)' <=> Has(openRows[u], req[u], k)
    BY <2>1 DEF Has
  <2>3. (openRows[u] # {})' => Inserting(u)' /\ CanExecute(u)'
    BY <1>1, <2>1 DEF Open
  <2>4. (\A row \in openRows[u] :
            row.req = req[u] /\ row.k <= pos[u] /\ (pc[u] = "event" => row.k # pos[u]))'
    BY <2>1 DEF Open
  <2>5. (Inserting(u) /\ CanExecute(u) => \A k \in 1 .. pos[u] :
            k < pos[u] \/ pc[u] = "commit" => Has(openRows[u], req[u], k))'
    BY <1>1, <2>1, <2>2 DEF Open
  <2>6. (pc[u] = "payload" /\ CanExecute(u) =>
            \E e \in openRows[u] : e.table = "events" /\ e.k = pos[u] /\ e.id = id[u])'
    <3> SUFFICES ASSUME pc'[u] = "payload", CanExecute(u)'
                 PROVE  \E e \in openRows[u] :
                          e.table = "events" /\ e.k = pos[u] /\ e.id = id[u]
      BY <2>1
    <3>1. pc[u] = "payload" /\ Inserting(u) /\ CanExecute(u)
      BY <2>1 DEF Inserting
    <3>2. QED BY <3>1 DEF Open
  <2>7. QED BY <2>3, <2>4, <2>5, <2>6 DEF Open
<1>5. Reader(u)'
  <2>1. known[u] \subseteq Requests
    BY DEF CallTypes
  <2>2. pc'[u] = pc[u] /\ known'[u] = known[u] /\ seen'[u] = seen[u]
    BY DEF Same
  <2>3. \A r : /\ HasAll(seen[u], r)' <=> HasAll(seen[u], r)
               /\ HasNone(seen[u], r)' <=> HasNone(seen[u], r)
    BY <2>2 DEF HasAll, HasNone, Copies
  <2>4. QED BY <2>1, <2>2, <2>3 DEF Reader
<1>6. QED BY <1>3, <1>4, <1>5

LEMMA InitIInv == Init => IInv
<1> SUFFICES ASSUME Init PROVE IInv
  OBVIOUS
<1> USE RepoAssumption DEF RepoAssumption, Init, LeaseInit
<1>1. CallTypes
  BY DEF CallTypes, PCs, Sessions, AtStart
<1>2. DataTypes
  BY DEF DataTypes
<1>3. AllRows = {}
  BY DEF AllRows
<1>4. Numbered /\ OneSaver
  BY <1>3 DEF Numbered, OneSaver
<1>5. Committed
  BY DEF Committed, HasNone
<1>6. \A t \in Threads : Located(t) /\ Open(t) /\ Reader(t)
  BY DEF Located, Open, Reader, Saving, Inserting, Holding
<1>7. QED BY <1>1, <1>2, <1>4, <1>5, <1>6 DEF IInv

\* A step of t that leaves the other threads and their sessions alone.
LEMMA OneThread ==
  ASSUME IInv, NEW t \in Threads,
         \A u \in Threads \ {t} :
           /\ Same(u) /\ (Inserting(u) => (CanExecute(u)' <=> CanExecute(u)))
           /\ Saving(u) => result'[req[u]] = "none",
         rows \subseteq rows', \A r \in Requests : result[r] = "ok" => result'[r] = "ok",
         CallTypes', DataTypes', Numbered', OneSaver', Committed',
         Located(t)', Open(t)', Reader(t)'
  PROVE  IInv'
<1>1. ASSUME NEW u \in Threads \ {t} PROVE Located(u)' /\ Open(u)' /\ Reader(u)'
  BY <1>1, OtherThread
<1>2. QED BY <1>1 DEF IInv

\* One that leaves the database and the callers alone, too.
LEMMA QuietStep ==
  ASSUME IInv, NEW t \in Threads, UNCHANGED dbVars, result' = result,
         \A u \in Threads \ {t} : Same(u),
         pc[t] \in {"committed", "return"} =>
           req'[t] = req[t] /\ pc'[t] \in {"committed", "return"},
         CallTypes', DataTypes', OneSaver', Located(t)', Open(t)', Reader(t)'
  PROVE  IInv'
<1> USE Types DEF dbVars
<1>1. \A u \in Threads \ {t} : CanExecute(u)' <=> CanExecute(u)
  BY DEF CanExecute, Same
<1>2. \A u \in Threads \ {t} : Saving(u) => result'[req[u]] = "none"
  BY DEF Located
<1>3. Numbered'
  BY FewerRows DEF AllRows, IInv
<1>4. Committed'
  <2>1. /\ \A r \in Requests : HasNone(rows, r) \/ Complete(rows, r)
        /\ \A r \in Requests : result[r] = "ok" => Complete(rows, r)
    BY DEF IInv, Committed
  <2>2. ASSUME NEW row \in rows, result[row.req] = "none"
        PROVE  \E u \in Threads : req'[u] = row.req /\ pc'[u] \in {"committed", "return"}
    <3>1. PICK u \in Threads : req[u] = row.req /\ pc[u] \in {"committed", "return"}
      BY <2>2 DEF IInv, Committed
    <3>2. req'[u] = req[u] /\ pc'[u] \in {"committed", "return"}
      BY <3>1 DEF Same
    <3>3. QED BY <3>1, <3>2
  <2>3. QED BY <2>1, <2>2 DEF Committed, HasNone, Complete, Has
<1>5. QED BY <1>1, <1>2, <1>3, <1>4, OneThread

LEMMA SaveEventsIInv ==
  ASSUME IInv, NEW t \in Threads, NEW r \in Requests, SaveEvents(t, r)
  PROVE  IInv'
<1> USE Types
<1>1. /\ pc[t] = "idle" /\ result[r] = "none" /\ \A u \in Threads : req[u] # r
      /\ req' = [req EXCEPT ![t] = r] /\ pos' = [pos EXCEPT ![t] = 1]
      /\ UNCHANGED <<free, lease, id, session, openRows, rows, nextId, result, known, seen>>
      /\ \/ Batch[r] = <<>> /\ pc' = [pc EXCEPT ![t] = "return"]
            /\ outcome' = [outcome EXCEPT ![t] = "ok"]
         \/ Batch[r] # <<>> /\ pc' = [pc EXCEPT ![t] = "acquire"] /\ outcome' = outcome
  BY DEF SaveEvents, Goto, dbVars
<1>2. Batch[r] = <<>> <=> Len(Batch[r]) = 0
  BY RepoAssumption, EmptySeq DEF RepoAssumption
<1>3. pc'[t] \in {"return", "acquire"} /\ req'[t] = r /\ pos'[t] = 1 /\ outcome[t] = "none"
  BY <1>1 DEF CallTypes, DataTypes, Located
<1>4. CallTypes'
  <2>1. /\ pc' \in [Threads -> PCs] /\ req' \in [Threads -> Requests \cup {NoReq}]
        /\ outcome' \in [Threads -> {"none", "ok", "notok"}]
    BY <1>1 DEF CallTypes, PCs
  <2>2. \A u \in Threads : pc'[u] \in {"event", "payload"} =>
          pos'[u] \in 1 .. Len(Batch[req'[u]])
    BY <1>1, <1>3 DEF CallTypes, DataTypes
  <2>3. QED BY <1>1, <2>1, <2>2 DEF CallTypes
<1>5. DataTypes'
  BY <1>1 DEF DataTypes
<1>6. \A u \in Threads \ {t} : Same(u)
  BY <1>1 DEF CallTypes, DataTypes, Same
<1>7. OneSaver'
  BY <1>1 DEF OneSaver, IInv, CallTypes
<1>8. Located(t)'
  <2>1. outcome'[t] # "none" => outcome'[t] = "ok" /\ Len(Batch[r]) = 0 /\ pc'[t] = "return"
    BY <1>1, <1>2, <1>3 DEF CallTypes
  <2>2. pc'[t] = "acquire" => Len(Batch[r]) >= 1
    BY <1>1, <1>2, <1>3 DEF CallTypes
  <2>3. pc'[t] = "return" => outcome'[t] = "ok"
    BY <1>1 DEF CallTypes
  <2>4. Len(Batch[r]) = 0 => Complete(rows', r)
    BY DEF Complete
  <2>5. QED
    BY <1>1, <1>3, <2>1, <2>2, <2>3, <2>4
    DEF Located, Saving, Inserting, Holding, Complete
<1>9. Open(t)' /\ Reader(t)'
  BY <1>1, <1>3 DEF Open, Reader, Inserting
<1>10. QED
  BY <1>1, <1>4, <1>5, <1>6, <1>7, <1>8, <1>9, QuietStep DEF dbVars

LEMMA AcquireIInv ==
  ASSUME IInv, NEW t \in Threads, Acquire(t)
  PROVE  IInv'
<1> USE Types
<1>1. PICK c \in Conns :
        /\ lease' = [lease EXCEPT ![t] = c] /\ free' = free \ {c}
        /\ \/ pc[t] = "acquire" /\ pc' = [pc EXCEPT ![t] = "event"]
           \/ pc[t] = "acquireRead" /\ pc' = [pc EXCEPT ![t] = "query"]
        /\ UNCHANGED <<req, pos, id, outcome, session, openRows, rows, nextId,
                       result, known, seen>>
  BY DEF Acquire, Grant, Goto, dbVars
<1>2. /\ DataTypes' /\ \A u \in Threads \ {t} : Same(u)
      /\ pc'[t] = IF pc[t] = "acquire" THEN "event" ELSE "query"
  BY <1>1 DEF CallTypes, DataTypes, Same
<1>3. OneSaver'
  BY <1>1 DEF OneSaver, IInv
<1>4. CallTypes'
  <2>1. \A u \in Threads : pc'[u] \in {"event", "payload"} => pos[u] \in 1 .. Len(Batch[req[u]])
    BY <1>1, <1>2 DEF Same, CallTypes, Located
  <2>2. /\ free' \subseteq Conns /\ lease' \in [Threads -> Conns \cup {NoConn}]
        /\ pc' \in [Threads -> PCs]
    BY <1>1 DEF CallTypes, PCs
  <2>3. QED BY <1>1, <2>1, <2>2 DEF CallTypes
<1>5. Located(t)'
  BY <1>1, <1>2 DEF Located, Saving, Inserting, Holding, CallTypes, Complete
<1>6. Open(t)'
  <2>1. openRows[t] = {}
    BY <1>1 DEF Open, Inserting
  <2>2. pos[t] = 1 \/ pc'[t] = "query"
    BY <1>1, <1>2 DEF Located
  <2>3. QED BY <1>1, <1>2, <2>1, <2>2 DEF Open, Inserting
<1>7. Reader(t)'
  BY <1>1, <1>2 DEF Reader
<1>8. QED
  BY <1>1, <1>2, <1>3, <1>4, <1>5, <1>6, <1>7, QuietStep DEF dbVars

-------------------------------------------------------------------------------
(* Inserting and committing.                                               *)

\* An event that is about to be inserted is in no table yet.
LEMMA NewKey ==
  ASSUME IInv, NEW t \in Threads, pc[t] = "event", NEW b \in AllRows
  PROVE  ~(b.req = req[t] /\ b.k = pos[t])
<1> USE Types
<1>1. req[t] # NoReq /\ result[req[t]] = "none"
  BY DEF Located, Saving
<1>2. CASE b \in rows
  <2>1. SUFFICES ASSUME b.req = req[t] PROVE FALSE
    OBVIOUS
  <2>2. PICK u \in Threads : req[u] = req[t] /\ pc[u] \in {"committed", "return"}
    BY <1>1, <1>2, <2>1 DEF IInv, Committed
  <2>3. QED BY <1>1, <2>2 DEF IInv, OneSaver
<1>3. CASE b \notin rows
  <2>1. PICK u \in Threads : b \in openRows[u]
    BY <1>3 DEF AllRows
  <2>2. b.req = req[u]
    BY <2>1 DEF Open
  <2>3. u = t => b.k # pos[t]
    BY <2>1 DEF Open
  <2>4. QED BY <1>1, <2>2, <2>3 DEF IInv, OneSaver
<1>4. QED BY <1>2, <1>3

\* An insertion on t's live session keeps what concerns only others.
LEMMA InsertStep ==
  ASSUME IInv, NEW t \in Threads, Inserting(t), CanExecute(t), Inserting(t)',
         \A u \in Threads \ {t} : Same(u),
         UNCHANGED <<session, lease, rows, result, req>>,
         CallTypes', DataTypes', Numbered', Located(t)', Open(t)', Reader(t)'
  PROVE  IInv'
<1> USE Types
<1>1. OneSaver'
  BY DEF OneSaver, IInv
<1>2. Committed'
  <2>1. /\ \A r \in Requests : HasNone(rows, r) \/ Complete(rows, r)
        /\ \A r \in Requests : result[r] = "ok" => Complete(rows, r)
    BY DEF IInv, Committed
  <2>2. ASSUME NEW row \in rows, result[row.req] = "none"
        PROVE  \E u \in Threads : req[u] = row.req /\ pc'[u] \in {"committed", "return"}
    <3>1. PICK u \in Threads : req[u] = row.req /\ pc[u] \in {"committed", "return"}
      BY <2>2 DEF IInv, Committed
    <3>2. pc'[u] = pc[u]
      BY <3>1 DEF Same, Inserting
    <3>3. QED BY <3>1, <3>2
  <2>3. QED BY <2>1, <2>2 DEF Committed, HasNone, Complete, Has
<1>3. \A u \in Threads \ {t} : Saving(u) => result'[req[u]] = "none"
  BY DEF Located
<1>4. \A u \in Threads \ {t} : CanExecute(u)' <=> CanExecute(u)
  BY DEF CanExecute
<1>5. QED BY <1>1, <1>2, <1>3, <1>4, OneThread

LEMMA InsertEventIInv ==
  ASSUME IInv, NEW t \in Threads, InsertEvent(t)
  PROVE  IInv'
<1> USE Types
<1>1. /\ pc[t] = "event" /\ CanExecute(t)
      /\ openRows' = [openRows EXCEPT ![t] = @ \cup {Row(t, "events", nextId)}]
      /\ id' = [id EXCEPT ![t] = nextId] /\ nextId' = nextId + 1
      /\ pc' = [pc EXCEPT ![t] = "payload"]
      /\ UNCHANGED <<free, lease, req, pos, outcome, session, rows, result, known, seen>>
  BY DEF InsertEvent, Goto
<1>2. /\ req[t] \in Requests /\ pos[t] \in 1 .. Len(Batch[req[t]]) /\ nextId \in Nat
      /\ pc'[t] = "payload" /\ id'[t] = nextId /\ lease[t] \in Conns
  BY <1>1 DEF Located, Saving, Inserting, Holding, CallTypes
<1>3. PICK new \in Rows :
        /\ new.table = "events" /\ new.id = nextId /\ new.req = req[t] /\ new.k = pos[t]
        /\ openRows' = [openRows EXCEPT ![t] = @ \cup {new}]
  <2>1. Row(t, "events", nextId) \in Rows
    BY <1>2 DEF Row, Rows, Tables
  <2>2. QED BY <1>1, <2>1 DEF Row
<1>4. openRows'[t] = openRows[t] \cup {new}
  BY <1>3 DEF DataTypes
<1>5. \A u \in Threads \ {t} : Same(u)
  BY <1>1 DEF Same, CallTypes, DataTypes
<1>6. CallTypes'
  <2>1. \A u \in Threads : pc'[u] \in {"event", "payload"} => pos[u] \in 1 .. Len(Batch[req[u]])
    BY <1>2, <1>5 DEF Same, CallTypes
  <2>2. pc' \in [Threads -> PCs] /\ id' \in [Threads -> Nat] /\ nextId' \in Nat
    BY <1>1, <1>2 DEF CallTypes, PCs
  <2>3. QED BY <1>1, <2>1, <2>2 DEF CallTypes
<1>7. DataTypes'
  BY <1>1, <1>3 DEF DataTypes
<1>8. Numbered'
  <2>1. AllRows' \subseteq AllRows \cup {new}
    BY <1>1, <1>4, <1>5 DEF AllRows, Same
  <2>2. ASSUME NEW b \in AllRows PROVE b.id # new.id /\ ~(b.req = new.req /\ b.k = new.k)
    <3>1. b.id \in Nat /\ b.id < nextId
      BY DEF Rows, IInv, Numbered
    <3>2. QED BY <1>1, <1>2, <1>3, <3>1, NewKey
  <2>3. QED BY <1>1, <1>2, <1>3, <2>1, <2>2, OneRowMore
<1>9. Located(t)'
  BY <1>1, <1>2 DEF Located, Saving, Inserting, Holding, CallTypes
<1>10. Open(t)'
  <2>1. Inserting(t)' /\ CanExecute(t)'
    BY <1>1, <1>2 DEF Inserting, CanExecute
  <2>2. \A row \in openRows'[t] : row.req = req[t] /\ row.k <= pos[t]
    BY <1>1, <1>2, <1>3, <1>4 DEF Open
  <2>3. ASSUME NEW k \in 1 .. pos[t], k < pos[t] PROVE Has(openRows'[t], req[t], k)
    <3>1. Has(openRows[t], req[t], k)
      BY <1>1, <2>3 DEF Open, Inserting
    <3>2. QED BY <1>4, <3>1, HasMore
  <2>4. \E e \in openRows'[t] : e.table = "events" /\ e.k = pos[t] /\ e.id = id'[t]
    BY <1>2, <1>3, <1>4
  <2>5. QED BY <1>1, <1>2, <2>1, <2>2, <2>3, <2>4 DEF Open, Has
<1>11. Reader(t)'
  BY <1>2 DEF Reader
<1>12. QED
  BY <1>1, <1>2, <1>5, <1>6, <1>7, <1>8, <1>9, <1>10, <1>11, InsertStep DEF Inserting

LEMMA InsertPayloadIInv ==
  ASSUME IInv, NEW t \in Threads, InsertPayload(t)
  PROVE  IInv'
<1> USE Types
<1>1. /\ pc[t] = "payload" /\ CanExecute(t)
      /\ openRows' = [openRows EXCEPT ![t] = @ \cup {Row(t, "payloads", id[t])}]
      /\ \/ /\ pos[t] < Len(Batch[req[t]])
            /\ pc' = [pc EXCEPT ![t] = "event"] /\ pos' = [pos EXCEPT ![t] = @ + 1]
         \/ /\ ~(pos[t] < Len(Batch[req[t]]))
            /\ pc' = [pc EXCEPT ![t] = "commit"] /\ pos' = pos
      /\ UNCHANGED <<free, lease, req, id, outcome, session, rows, nextId, result, known, seen>>
  BY DEF InsertPayload, PayloadRow, Goto, More
<1>2. /\ req[t] \in Requests /\ pos[t] \in 1 .. Len(Batch[req[t]]) /\ id[t] \in Nat
      /\ lease[t] \in Conns /\ Len(Batch[req[t]]) \in Nat
      /\ \/ pc'[t] = "event" /\ pos'[t] = pos[t] + 1 /\ pos[t] < Len(Batch[req[t]])
         \/ pc'[t] = "commit" /\ pos'[t] = pos[t] /\ pos[t] = Len(Batch[req[t]])
  BY <1>1 DEF Located, Saving, Inserting, Holding, CallTypes, DataTypes
<1>3. PICK new \in Rows :
        /\ new.table = "payloads" /\ new.id = id[t] /\ new.req = req[t] /\ new.k = pos[t]
        /\ openRows' = [openRows EXCEPT ![t] = @ \cup {new}]
  <2>1. Row(t, "payloads", id[t]) \in Rows
    BY <1>2 DEF Row, Rows, Tables
  <2>2. QED BY <1>1, <2>1 DEF Row
<1>4. openRows'[t] = openRows[t] \cup {new}
  BY <1>3 DEF DataTypes
<1>5. \A u \in Threads \ {t} : Same(u)
  BY <1>1 DEF Same, CallTypes, DataTypes
<1>6. CallTypes'
  <2>1. \A u \in Threads :
          pc'[u] \in {"event", "payload"} => pos'[u] \in 1 .. Len(Batch[req[u]])
    BY <1>2, <1>5 DEF Same, CallTypes
  <2>2. pc' \in [Threads -> PCs]
    BY <1>1, <1>2 DEF CallTypes, PCs
  <2>3. QED BY <1>1, <2>1, <2>2 DEF CallTypes
<1>7. DataTypes'
  <2>1. pos' \in [Threads -> Nat]
    BY <1>1, <1>2 DEF DataTypes
  <2>2. openRows' \in [Threads -> SUBSET Rows]
    BY <1>3 DEF DataTypes
  <2>3. QED BY <1>1, <2>1, <2>2 DEF DataTypes
<1>8. PICK e \in openRows[t] : e.table = "events" /\ e.k = pos[t] /\ e.id = id[t]
  BY <1>1 DEF Open
<1>9. e \in AllRows /\ e.req = req[t]
  BY <1>8 DEF AllRows, Open
<1>10. Numbered'
  <2>1. AllRows' \subseteq AllRows \cup {new}
    BY <1>1, <1>4, <1>5 DEF AllRows, Same
  <2>2. \A b \in AllRows : b.id = new.id <=> b.req = new.req /\ b.k = new.k
    BY <1>3, <1>8, <1>9 DEF IInv, Numbered
  <2>3. id[t] < nextId
    BY <1>8, <1>9 DEF IInv, Numbered
  <2>4. nextId \in Nat /\ nextId' = nextId
    BY <1>1 DEF CallTypes
  <2>5. QED BY <1>2, <1>3, <2>1, <2>2, <2>3, <2>4, OneRowMore
<1>11. Located(t)'
  BY <1>1, <1>2 DEF Located, Saving, Inserting, Holding, CallTypes
<1>12. Open(t)'
  <2>1. Inserting(t)' /\ CanExecute(t)'
    BY <1>1, <1>2 DEF Inserting, CanExecute
  <2>2. \A row \in openRows'[t] : row.req = req[t] /\ row.k <= pos[t] /\ row.k \in Nat
    BY <1>1, <1>2, <1>3, <1>4 DEF Open, Rows
  <2>3. ASSUME NEW k \in 1 .. pos[t] PROVE Has(openRows'[t], req[t], k)
    <3>1. CASE k < pos[t]
      <4>1. Has(openRows[t], req[t], k)
        BY <1>1, <3>1 DEF Open, Inserting
      <4>2. QED BY <1>4, <4>1, HasMore
    <3>2. CASE k = pos[t]
      BY <1>3, <1>4, <1>8, <1>9, <3>2 DEF Has, Tables
    <3>3. QED BY <1>2, <3>1, <3>2
  <2>4. \A row \in openRows'[t] : row.k <= pos'[t] /\ (pc'[t] = "event" => row.k # pos'[t])
    BY <1>2, <2>2
  <2>5. \A k \in 1 .. pos'[t] :
          k < pos'[t] \/ pc'[t] = "commit" => Has(openRows'[t], req[t], k)
    BY <1>2, <2>3
  <2>6. QED BY <1>1, <1>2, <2>1, <2>2, <2>4, <2>5 DEF Open, Has
<1>13. Reader(t)'
  BY <1>2 DEF Reader
<1>14. QED
  BY <1>1, <1>2, <1>5, <1>6, <1>7, <1>10, <1>11, <1>12, <1>13, InsertStep DEF Inserting

\* At its COMMIT a transaction holds the whole batch, and the batch is new.
LEMMA CommitIInv ==
  ASSUME IInv, NEW t \in Threads, Commit(t)
  PROVE  IInv'
<1> USE Types
<1>1. /\ pc[t] = "commit" /\ CanExecute(t) /\ rows' = rows \cup openRows[t]
      /\ openRows' = [openRows EXCEPT ![t] = {}] /\ pc' = [pc EXCEPT ![t] = "committed"]
      /\ UNCHANGED <<free, lease, req, pos, id, outcome, session, nextId, result, known, seen>>
  BY DEF Commit, CommitRows, Goto
<1>2. /\ req[t] \in Requests /\ result[req[t]] = "none" /\ lease[t] \in Conns
      /\ pc'[t] = "committed" /\ openRows'[t] = {} /\ pos[t] = Len(Batch[req[t]])
  BY <1>1 DEF Located, Saving, Holding, CallTypes, DataTypes
<1>3. Complete(rows', req[t])
  <2>1. Complete(openRows[t], req[t])
    BY <1>1, <1>2 DEF Open, Inserting, Complete
  <2>2. QED BY <1>1, <2>1, CompleteMore
<1>4. \A u \in Threads \ {t} : Same(u)
  BY <1>1 DEF Same, CallTypes, DataTypes
<1>5. CallTypes'
  <2>1. \A u \in Threads : pc'[u] \in {"event", "payload"} => pos[u] \in 1 .. Len(Batch[req[u]])
    BY <1>2, <1>4 DEF Same, CallTypes
  <2>2. pc' \in [Threads -> PCs]
    BY <1>1 DEF CallTypes, PCs
  <2>3. QED BY <1>1, <2>1, <2>2 DEF CallTypes
<1>6. DataTypes'
  BY <1>1 DEF DataTypes
<1>7. Numbered'
  <2>1. AllRows' \subseteq AllRows
    BY <1>1, <1>2, <1>4 DEF AllRows, Same
  <2>2. QED BY <1>1, <2>1, FewerRows DEF IInv
<1>8. OneSaver'
  BY <1>1 DEF OneSaver, IInv
<1>9. Committed'
  <2>1. ASSUME NEW r \in Requests, r # req[t] PROVE HasNone(rows', r) \/ Complete(rows', r)
    <3>1. HasNone(rows, r) => HasNone(rows', r)
      BY <1>1, <2>1 DEF HasNone, Open
    <3>2. Complete(rows, r) => Complete(rows', r)
      BY <1>1, CompleteMore
    <3>3. QED BY <3>1, <3>2 DEF IInv, Committed
  <2>2. \A r \in Requests : HasNone(rows', r) \/ Complete(rows', r)
    BY <1>3, <2>1
  <2>3. \A r \in Requests : result[r] = "ok" => Complete(rows', r)
    BY <1>1, CompleteMore DEF IInv, Committed
  <2>4. ASSUME NEW row \in rows', result[row.req] = "none"
        PROVE  \E u \in Threads : req[u] = row.req /\ pc'[u] \in {"committed", "return"}
    <3>1. CASE row \in openRows[t]
      BY <1>2, <3>1 DEF Open
    <3>2. CASE row \in rows
      <4>1. PICK u \in Threads : req[u] = row.req /\ pc[u] \in {"committed", "return"}
        BY <2>4, <3>2 DEF IInv, Committed
      <4>2. pc'[u] = pc[u]
        BY <1>1, <1>4, <4>1 DEF Same
      <4>3. QED BY <4>1, <4>2
    <3>3. QED BY <1>1, <2>4, <3>1, <3>2
  <2>5. QED BY <1>1, <2>2, <2>3, <2>4 DEF Committed, HasNone, Complete, Has
<1>10. Located(t)'
  BY <1>1, <1>2, <1>3 DEF Located, Saving, Inserting, Holding, Complete, Has
<1>11. Open(t)' /\ Reader(t)'
  BY <1>1, <1>2 DEF Open, Reader, Inserting
<1>12. \A u \in Threads \ {t} : CanExecute(u)' <=> CanExecute(u)
  BY <1>1 DEF CanExecute
<1>13. \A u \in Threads \ {t} : Saving(u) => result'[req[u]] = "none"
  BY <1>1 DEF Located
<1>14. QED
  BY <1>1, <1>4, <1>5, <1>6, <1>7, <1>8, <1>9, <1>10, <1>11, <1>12, <1>13, OneThread

LEMMA CommitAnsweredIInv ==
  ASSUME IInv, NEW t \in Threads, CommitAnswered(t)
  PROVE  IInv'
<1> USE Types
<1>1. /\ pc[t] = "committed" /\ pc' = [pc EXCEPT ![t] = "return"]
      /\ outcome' = [outcome EXCEPT ![t] = "ok"]
      /\ UNCHANGED <<free, lease, req, pos, id, session, openRows, rows, nextId, result, known, seen>>
  BY DEF CommitAnswered, Goto, dbVars
<1>2. /\ pc'[t] = "return" /\ outcome'[t] = "ok" /\ Complete(rows, req[t])
      /\ \A u \in Threads \ {t} : Same(u)
  BY <1>1 DEF Same, Located, CallTypes
<1>3. CallTypes'
  <2>1. \A u \in Threads : pc'[u] \in {"event", "payload"} => pos[u] \in 1 .. Len(Batch[req[u]])
    BY <1>2 DEF Same, CallTypes
  <2>2. pc' \in [Threads -> PCs] /\ outcome' \in [Threads -> {"none", "ok", "notok"}]
    BY <1>1 DEF CallTypes, PCs
  <2>3. QED BY <1>1, <2>1, <2>2 DEF CallTypes
<1>4. DataTypes' /\ OneSaver'
  BY <1>1 DEF DataTypes, OneSaver, IInv
<1>5. Located(t)'
  BY <1>1, <1>2 DEF Located, Saving, Inserting, Holding, Complete, Has
<1>6. Open(t)' /\ Reader(t)'
  BY <1>1, <1>2 DEF Open, Reader, Inserting
<1>7. QED
  BY <1>1, <1>2, <1>3, <1>4, <1>5, <1>6, QuietStep DEF dbVars

\* A failure takes the thread's rows with it.
LEMMA FailIInv ==
  ASSUME IInv, NEW t \in Threads, Fail(t)
  PROVE  IInv'
<1> USE Types
<1>1. /\ pc[t] \in {"event", "payload", "commit", "committed"} /\ rows' = rows
      /\ openRows' = [openRows EXCEPT ![t] = {}] /\ pc' = [pc EXCEPT ![t] = "return"]
      /\ outcome' = [outcome EXCEPT ![t] = "notok"]
      /\ UNCHANGED <<free, lease, req, pos, id, session, nextId, result, known, seen>>
  BY DEF Fail, FailWith, Goto
<1>2. /\ pc'[t] = "return" /\ outcome'[t] = "notok" /\ openRows'[t] = {}
      /\ \A u \in Threads \ {t} : Same(u)
  BY <1>1 DEF Same, CallTypes, DataTypes
<1>3. CallTypes'
  <2>1. \A u \in Threads : pc'[u] \in {"event", "payload"} => pos[u] \in 1 .. Len(Batch[req[u]])
    BY <1>2 DEF Same, CallTypes
  <2>2. pc' \in [Threads -> PCs] /\ outcome' \in [Threads -> {"none", "ok", "notok"}]
    BY <1>1 DEF CallTypes, PCs
  <2>3. QED BY <1>1, <2>1, <2>2 DEF CallTypes
<1>4. DataTypes' /\ OneSaver'
  BY <1>1 DEF DataTypes, OneSaver, IInv
<1>5. Numbered'
  <2>1. AllRows' \subseteq AllRows
    BY <1>1, <1>2 DEF AllRows, Same
  <2>2. QED BY <1>1, <2>1, FewerRows DEF IInv
<1>6. Committed'
  <2>1. /\ \A r \in Requests : HasNone(rows, r) \/ Complete(rows, r)
        /\ \A r \in Requests : result[r] = "ok" => Complete(rows, r)
    BY DEF IInv, Committed
  <2>2. ASSUME NEW row \in rows, result[row.req] = "none"
        PROVE  \E u \in Threads : req[u] = row.req /\ pc'[u] \in {"committed", "return"}
    <3>1. PICK u \in Threads : req[u] = row.req /\ pc[u] \in {"committed", "return"}
      BY <2>2 DEF IInv, Committed
    <3>2. pc'[u] \in {"committed", "return"}
      BY <1>2, <3>1 DEF Same
    <3>3. QED BY <3>1, <3>2
  <2>3. QED BY <1>1, <2>1, <2>2 DEF Committed, HasNone, Complete, Has
<1>7. Located(t)'
  BY <1>1, <1>2 DEF Located, Saving, Inserting, Holding
<1>8. Open(t)' /\ Reader(t)'
  BY <1>1, <1>2 DEF Open, Reader, Inserting
<1>9. \A u \in Threads \ {t} : CanExecute(u)' <=> CanExecute(u)
  BY <1>1 DEF CanExecute
<1>10. \A u \in Threads \ {t} : Saving(u) => result'[req[u]] = "none"
  BY <1>1 DEF Located
<1>11. QED
  BY <1>1, <1>2, <1>3, <1>4, <1>5, <1>6, <1>7, <1>8, <1>9, <1>10, OneThread

\* A connection that goes back is not one that another thread executes on: if
\* its session is replaced, it was dead for everybody.
LEMMA ReleaseKeeps ==
  ASSUME IInv, NEW t \in Threads, Release(t)
  PROVE  /\ free' \subseteq Conns /\ lease' = [lease EXCEPT ![t] = NoConn]
         /\ session' \in [Conns -> Sessions]
         /\ UNCHANGED <<openRows, rows, nextId>>
         /\ \A u \in Threads \ {t} : Inserting(u) => (CanExecute(u)' <=> CanExecute(u))
<1> USE Types
<1>1. /\ lease[t] \in Conns /\ free' = free \cup {lease[t]}
      /\ lease' = [lease EXCEPT ![t] = NoConn] /\ UNCHANGED <<openRows, rows, nextId>>
      /\ \/ /\ session[lease[t]] = "dead"
            /\ \E s \in {"dead", "bare"} : session' = [session EXCEPT ![lease[t]] = s]
         \/ session' = session
  BY DEF Release, GiveBack, CallTypes
<1>2. free' \subseteq Conns /\ session' \in [Conns -> Sessions]
  BY <1>1 DEF CallTypes, Sessions
<1>3. ASSUME NEW u \in Threads \ {t}, Inserting(u) PROVE CanExecute(u)' <=> CanExecute(u)
  <2>1. lease[u] \in Conns /\ lease'[u] = lease[u]
    BY <1>1, <1>3 DEF Inserting, Located, Holding, CallTypes
  <2>2. QED BY <1>1, <2>1 DEF CanExecute, CallTypes
<1>4. QED BY <1>1, <1>2, <1>3

\* The caller gets the Result; the thread's batch is the one nobody else saves.
LEMMA ReturnIInv ==
  ASSUME IInv, NEW t \in Threads, Return(t)
  PROVE  IInv'
<1> USE Types
<1>1. /\ pc[t] = "return" /\ result' = [result EXCEPT ![req[t]] = outcome[t]]
      /\ req' = [req EXCEPT ![t] = NoReq] /\ outcome' = [outcome EXCEPT ![t] = "none"]
      /\ pc' = [pc EXCEPT ![t] = "idle"] /\ UNCHANGED <<pos, id, known, seen>>
      /\ Release(t) \/ UNCHANGED <<free, lease, session, openRows, rows, nextId>>
  BY DEF Return, ReturnSave, Goto, dbVars
<1>2. /\ req[t] \in Requests /\ result[req[t]] = "none" /\ outcome[t] \in {"ok", "notok"}
      /\ outcome[t] = "ok" => Complete(rows, req[t])
      /\ openRows[t] = {}
  BY <1>1 DEF Located, Open, Saving, Inserting, CallTypes
<1>3. /\ free' \subseteq Conns /\ session' \in [Conns -> Sessions]
      /\ lease' = lease \/ lease' = [lease EXCEPT ![t] = NoConn]
      /\ UNCHANGED <<openRows, rows, nextId>>
  BY <1>1, ReleaseKeeps DEF CallTypes
<1>4. /\ \A u \in Threads \ {t} : Same(u)
      /\ pc'[t] = "idle" /\ req'[t] = NoReq /\ outcome'[t] = "none"
  BY <1>1, <1>3 DEF Same, CallTypes, DataTypes
<1>5. \A u \in Threads \ {t} : Inserting(u) => (CanExecute(u)' <=> CanExecute(u))
  BY <1>1, ReleaseKeeps DEF CanExecute
<1>6. /\ result' \in [Requests -> {"none", "ok", "notok", "silent"}]
      /\ result'[req[t]] = outcome[t]
      /\ \A r \in Requests : r # req[t] => result'[r] = result[r]
  BY <1>1, <1>2 DEF CallTypes
<1>7. CallTypes'
  <2>1. \A u \in Threads :
          pc'[u] \in {"event", "payload"} => pos'[u] \in 1 .. Len(Batch[req'[u]])
    BY <1>1, <1>4 DEF Same, CallTypes
  <2>2. /\ lease' \in [Threads -> Conns \cup {NoConn}] /\ pc' \in [Threads -> PCs]
        /\ req' \in [Threads -> Requests \cup {NoReq}]
        /\ outcome' \in [Threads -> {"none", "ok", "notok"}]
    BY <1>1, <1>3 DEF CallTypes, PCs
  <2>3. QED BY <1>1, <1>3, <1>6, <2>1, <2>2 DEF CallTypes
<1>8. DataTypes'
  BY <1>1, <1>3 DEF DataTypes
<1>9. Numbered'
  BY <1>3, FewerRows DEF AllRows, IInv
<1>10. OneSaver'
  BY <1>1, <1>4 DEF OneSaver, IInv, Same
<1>11. Committed'
  <2>1. \A r \in Requests : HasNone(rows, r) \/ Complete(rows, r)
    BY DEF IInv, Committed
  <2>2. \A r \in Requests : result'[r] = "ok" => Complete(rows, r)
    BY <1>2, <1>6 DEF IInv, Committed
  <2>3. ASSUME NEW row \in rows, result'[row.req] = "none"
        PROVE  \E u \in Threads : req'[u] = row.req /\ pc'[u] \in {"committed", "return"}
    <3>1. row.req \in Requests /\ row.req # req[t]
      BY <1>2, <1>6, <2>3 DEF DataTypes, Rows
    <3>2. PICK u \in Threads : req[u] = row.req /\ pc[u] \in {"committed", "return"}
      BY <1>6, <2>3, <3>1 DEF IInv, Committed
    <3>3. req'[u] = req[u] /\ pc'[u] = pc[u]
      BY <1>4, <3>1, <3>2 DEF Same
    <3>4. QED BY <3>2, <3>3
  <2>4. QED BY <1>3, <2>1, <2>2, <2>3 DEF Committed, HasNone, Complete, Has
<1>12. Located(t)' /\ Open(t)' /\ Reader(t)'
  BY <1>2, <1>3, <1>4 DEF Located, Open, Reader, Saving, Inserting, Holding
<1>13. \A u \in Threads \ {t} : Saving(u) => result'[req[u]] = "none"
  <2> SUFFICES ASSUME NEW u \in Threads \ {t}, Saving(u) PROVE result'[req[u]] = "none"
    OBVIOUS
  <2>1. req[u] \in Requests /\ result[req[u]] = "none" /\ req[u] # NoReq
    BY DEF Located
  <2>2. req[u] # req[t]
    BY <2>1 DEF IInv, OneSaver
  <2>3. QED BY <1>6, <2>1, <2>2
<1>14. \A r \in Requests : result[r] = "ok" => result'[r] = "ok"
  BY <1>2, <1>6
<1>15. QED
  BY <1>3, <1>4, <1>5, <1>7, <1>8, <1>9, <1>10, <1>11, <1>12, <1>13, <1>14, OneThread

-------------------------------------------------------------------------------
(* Reads.                                                                  *)

LEMMA ReadIInv ==
  ASSUME IInv, NEW t \in Threads, Read(t)
  PROVE  IInv'
<1> USE Types
<1>1. /\ pc[t] = "idle" /\ pc' = [pc EXCEPT ![t] = "acquireRead"]
      /\ known' = [known EXCEPT ![t] = {r \in Requests : result[r] = "ok"}]
      /\ seen' = [seen EXCEPT ![t] = {}]
      /\ UNCHANGED <<free, lease, req, pos, id, outcome, session, openRows, rows,
                     nextId, result>>
  BY DEF Read, Goto, dbVars
<1>2. /\ pc'[t] = "acquireRead" /\ seen'[t] = {}
      /\ \A r \in known'[t] : result[r] = "ok"
      /\ \A u \in Threads \ {t} : Same(u)
  BY <1>1 DEF Same, CallTypes, DataTypes
<1>3. CallTypes'
  <2>1. \A u \in Threads : pc'[u] \in {"event", "payload"} => pos[u] \in 1 .. Len(Batch[req[u]])
    BY <1>2 DEF Same, CallTypes
  <2>2. pc' \in [Threads -> PCs] /\ known' \in [Threads -> SUBSET Requests]
    BY <1>1 DEF CallTypes, PCs
  <2>3. QED BY <1>1, <2>1, <2>2 DEF CallTypes
<1>4. DataTypes' /\ OneSaver'
  BY <1>1 DEF DataTypes, OneSaver, IInv
<1>5. Located(t)'
  BY <1>1, <1>2 DEF Located, Saving, Inserting, Holding
<1>6. Open(t)' /\ Reader(t)'
  BY <1>1, <1>2 DEF Open, Reader, Inserting
<1>7. QED
  BY <1>1, <1>2, <1>3, <1>4, <1>5, <1>6, QuietStep DEF dbVars

\* A statement that executes sees what is committed, and that is whole.
LEMMA QueryIInv ==
  ASSUME IInv, NEW t \in Threads, Query(t)
  PROVE  IInv'
<1> USE Types
<1>1. /\ pc[t] = "query" /\ pc' = [pc EXCEPT ![t] = "returnRead"]
      /\ \/ seen' = [seen EXCEPT ![t] = rows] /\ known' = known
         \/ known' = [known EXCEPT ![t] = {}] /\ seen' = seen
      /\ UNCHANGED <<free, lease, req, pos, id, outcome, session, openRows, rows,
                     nextId, result>>
  BY DEF Query, Goto, dbVars
<1>2. /\ pc'[t] = "returnRead" /\ lease[t] \in Conns
      /\ \A u \in Threads \ {t} : Same(u)
      /\ \/ seen'[t] = rows /\ known'[t] = known[t]
         \/ known'[t] = {} /\ seen'[t] = {}
  BY <1>1 DEF Same, CallTypes, DataTypes, Located, Reader, Holding
<1>3. CallTypes'
  <2>1. \A u \in Threads : pc'[u] \in {"event", "payload"} => pos[u] \in 1 .. Len(Batch[req[u]])
    BY <1>2 DEF Same, CallTypes
  <2>2. pc' \in [Threads -> PCs] /\ known' \in [Threads -> SUBSET Requests]
    BY <1>1 DEF CallTypes, PCs
  <2>3. QED BY <1>1, <2>1, <2>2 DEF CallTypes
<1>4. DataTypes' /\ OneSaver'
  BY <1>1 DEF DataTypes, OneSaver, IInv
<1>5. Located(t)'
  BY <1>1, <1>2 DEF Located, Saving, Inserting, Holding
<1>6. Open(t)'
  BY <1>1, <1>2 DEF Open, Inserting
<1>7. Reader(t)'
  <2>1. \A r \in Requests : HasAll(seen'[t], r) \/ HasNone(seen'[t], r)
    BY <1>2, CompleteHasAll, RowsHaveOneId DEF IInv, Committed, HasNone
  <2>2. \A r \in known'[t] : HasAll(seen'[t], r)
    BY <1>1, <1>2, CompleteHasAll, RowsHaveOneId DEF IInv, Committed, Reader, CallTypes
  <2>3. QED BY <1>2, <2>1, <2>2 DEF Reader, HasAll, HasNone, Copies
<1>8. QED
  BY <1>1, <1>2, <1>3, <1>4, <1>5, <1>6, <1>7, QuietStep DEF dbVars

LEMMA ReturnReadIInv ==
  ASSUME IInv, NEW t \in Threads, ReturnRead(t)
  PROVE  IInv'
<1> USE Types
<1>1. /\ pc[t] = "returnRead" /\ pc' = [pc EXCEPT ![t] = "idle"] /\ Release(t)
      /\ UNCHANGED <<req, pos, id, outcome, result, known, seen>>
  BY DEF ReturnRead, Goto
<1>2. /\ free' \subseteq Conns /\ session' \in [Conns -> Sessions]
      /\ lease' = [lease EXCEPT ![t] = NoConn] /\ UNCHANGED <<openRows, rows, nextId>>
      /\ \A u \in Threads \ {t} : Inserting(u) => (CanExecute(u)' <=> CanExecute(u))
  BY <1>1, ReleaseKeeps
<1>3. pc'[t] = "idle" /\ \A u \in Threads \ {t} : Same(u)
  BY <1>1, <1>2 DEF Same, CallTypes, DataTypes
<1>4. CallTypes'
  <2>1. \A u \in Threads : pc'[u] \in {"event", "payload"} => pos[u] \in 1 .. Len(Batch[req[u]])
    BY <1>3 DEF Same, CallTypes
  <2>2. pc' \in [Threads -> PCs] /\ lease' \in [Threads -> Conns \cup {NoConn}]
    BY <1>1, <1>2 DEF CallTypes, PCs
  <2>3. QED BY <1>1, <1>2, <2>1, <2>2 DEF CallTypes
<1>5. DataTypes' /\ OneSaver'
  BY <1>1, <1>2 DEF DataTypes, OneSaver, IInv
<1>6. Numbered'
  BY <1>2, FewerRows DEF AllRows, IInv
<1>7. Committed'
  <2>1. /\ \A r \in Requests : HasNone(rows, r) \/ Complete(rows, r)
        /\ \A r \in Requests : result[r] = "ok" => Complete(rows, r)
    BY DEF IInv, Committed
  <2>2. ASSUME NEW row \in rows, result[row.req] = "none"
        PROVE  \E u \in Threads : req[u] = row.req /\ pc'[u] \in {"committed", "return"}
    <3>1. PICK u \in Threads : req[u] = row.req /\ pc[u] \in {"committed", "return"}
      BY <2>2 DEF IInv, Committed
    <3>2. pc'[u] = pc[u]
      BY <1>1, <1>3, <3>1 DEF Same
    <3>3. QED BY <3>1, <3>2
  <2>3. QED BY <1>1, <1>2, <2>1, <2>2 DEF Committed, HasNone, Complete, Has
<1>8. Located(t)' /\ Open(t)' /\ Reader(t)'
  BY <1>1, <1>2, <1>3 DEF Located, Open, Reader, Saving, Inserting, Holding
<1>9. \A u \in Threads \ {t} : Saving(u) => result'[req[u]] = "none"
  BY <1>1 DEF Located
<1>10. QED
  BY <1>1, <1>2, <1>3, <1>4, <1>5, <1>6, <1>7, <1>8, <1>9, OneThread

-------------------------------------------------------------------------------
(* Start, failures, and all steps together.                                *)

LEMMA StartIInv == IInv /\ Start => IInv'
<1> SUFFICES ASSUME IInv, Start PROVE IInv'
  OBVIOUS
<1> USE Types
<1>1. /\ free' = Conns /\ UNCHANGED <<lease, pc, req, pos, id, outcome, session, openRows,
                                      rows, nextId, result, known, seen>>
  BY DEF Start, Fill, dbVars
<1>2. CallTypes'
  BY <1>1 DEF CallTypes
<1>3. DataTypes' /\ OneSaver'
  BY <1>1 DEF DataTypes, OneSaver, IInv
<1>4. Numbered'
  BY <1>1, FewerRows DEF AllRows, IInv
<1>5. Committed'
  BY <1>1 DEF Committed, IInv, HasNone, Complete, Has
<1>6. ASSUME NEW u \in Threads PROVE Located(u)' /\ Open(u)' /\ Reader(u)'
  <2>1. Same(u) /\ (CanExecute(u)' <=> CanExecute(u))
    BY <1>1 DEF Same, CanExecute
  <2>2. Saving(u) => result'[req[u]] = "none"
    BY <1>1 DEF Located
  <2>3. QED BY <1>1, <2>1, <2>2, OtherThread
<1>7. QED BY <1>2, <1>3, <1>4, <1>5, <1>6 DEF IInv

\* A thread whose session dies loses its rows and can execute nothing more.
LEMMA SessionDiesIInv ==
  ASSUME IInv, NEW c \in Conns, SessionDies(c)
  PROVE  IInv'
<1> USE Types
<1>1. /\ session' = [session EXCEPT ![c] = "dead"]
      /\ openRows' = [t \in Threads |-> IF lease[t] = c THEN {} ELSE openRows[t]]
      /\ UNCHANGED <<free, lease, pc, req, pos, id, outcome, rows, nextId, result, known, seen>>
  BY DEF SessionDies
<1>2. CallTypes'
  BY <1>1 DEF CallTypes, Sessions
<1>3. DataTypes' /\ OneSaver'
  BY <1>1 DEF DataTypes, OneSaver, IInv
<1>4. Numbered'
  <2>1. AllRows' \subseteq AllRows
    BY <1>1 DEF AllRows
  <2>2. QED BY <1>1, <2>1, FewerRows DEF IInv
<1>5. Committed'
  BY <1>1 DEF Committed, IInv, HasNone, Complete, Has
<1>6. \A u \in Threads : Saving(u) => result'[req[u]] = "none"
  BY <1>1 DEF Located
<1>7. ASSUME NEW u \in Threads, lease[u] # c PROVE Located(u)' /\ Open(u)' /\ Reader(u)'
  <2>1. Same(u)
    BY <1>1, <1>7 DEF Same
  <2>2. CanExecute(u)' <=> CanExecute(u)
    BY <1>1, <1>7 DEF CanExecute
  <2>3. QED BY <1>1, <1>6, <2>1, <2>2, OtherThread
<1>8. ASSUME NEW u \in Threads, lease[u] = c PROVE Located(u)' /\ Open(u)' /\ Reader(u)'
  <2>1. openRows'[u] = {} /\ ~CanExecute(u)'
    BY <1>1, <1>8 DEF CanExecute, CallTypes
  <2>2. Located(u)'
    BY <1>1 DEF Located, Saving, Inserting, Holding, Complete, Has
  <2>3. Open(u)'
    BY <2>1 DEF Open
  <2>4. Reader(u)'
    BY <1>1 DEF Reader, HasAll, HasNone, Copies
  <2>5. QED BY <2>2, <2>3, <2>4
<1>9. QED BY <1>2, <1>3, <1>4, <1>5, <1>7, <1>8 DEF IInv

\* After a crash nobody runs, and nobody's batch is undecided.
LEMMA CrashIInv == IInv /\ Crash => IInv'
<1> SUFFICES ASSUME IInv, Crash PROVE IInv'
  OBVIOUS
<1> USE Types
<1>1. /\ rows' = rows /\ nextId' = nextId /\ free' = {}
      /\ session' \in [Conns -> AtStart] /\ lease' = [t \in Threads |-> NoConn]
      /\ \A t \in Threads :
           /\ pc'[t] = "idle" /\ req'[t] = NoReq /\ outcome'[t] = "none"
           /\ openRows'[t] = {} /\ known'[t] = {} /\ seen'[t] = {}
      /\ \A r \in Requests :
           result'[r] = IF \E t \in Threads : req[t] = r THEN "silent" ELSE result[r]
  BY DEF Crash
<1>2. CallTypes'
  <2>1. result' \in [Requests -> {"none", "ok", "notok", "silent"}]
    BY DEF Crash, CallTypes
  <2>2. QED BY <2>1 DEF Crash, CallTypes, PCs, Sessions, AtStart
<1>3. DataTypes'
  BY DEF Crash, DataTypes
<1>4. OneSaver'
  BY <1>1 DEF OneSaver
<1>5. Numbered'
  <2>1. AllRows' \subseteq AllRows
    BY <1>1 DEF AllRows
  <2>2. QED BY <1>1, <2>1, FewerRows DEF IInv
<1>6. Committed'
  <2>1. \A r \in Requests : HasNone(rows, r) \/ Complete(rows, r)
    BY DEF IInv, Committed
  <2>2. \A r \in Requests : result'[r] = "ok" => Complete(rows, r)
    BY <1>1 DEF IInv, Committed
  <2>3. ASSUME NEW row \in rows PROVE result'[row.req] # "none"
    <3>1. row.req \in Requests
      BY DEF DataTypes, Rows
    <3>2. result[row.req] = "none" => \E t \in Threads : req[t] = row.req
      BY DEF IInv, Committed
    <3>3. QED BY <1>1, <3>1, <3>2
  <2>4. QED BY <1>1, <2>1, <2>2, <2>3 DEF Committed, HasNone, Complete, Has
<1>7. ASSUME NEW t \in Threads PROVE Located(t)' /\ Open(t)' /\ Reader(t)'
  BY <1>1 DEF Located, Open, Reader, Saving, Inserting, Holding
<1>8. QED BY <1>2, <1>3, <1>4, <1>5, <1>6, <1>7 DEF IInv

LEMMA StutterIInv == IInv /\ UNCHANGED vars => IInv'
<1> SUFFICES ASSUME IInv, UNCHANGED vars PROVE IInv'
  OBVIOUS
<1> USE Types DEF vars
<1>1. CallTypes' /\ DataTypes' /\ OneSaver'
  BY DEF CallTypes, DataTypes, OneSaver, IInv
<1>2. Numbered'
  BY FewerRows DEF AllRows, IInv
<1>3. Committed'
  BY DEF Committed, IInv, HasNone, Complete, Has
<1>4. ASSUME NEW u \in Threads PROVE Located(u)' /\ Open(u)' /\ Reader(u)'
  <2>1. Same(u) /\ (CanExecute(u)' <=> CanExecute(u))
    BY DEF Same, CanExecute
  <2>2. Saving(u) => result'[req[u]] = "none"
    BY DEF Located
  <2>3. QED BY <2>1, <2>2, OtherThread
<1>5. QED BY <1>1, <1>2, <1>3, <1>4 DEF IInv

LEMMA NextIInv == IInv /\ [Next]_vars => IInv'
<1> SUFFICES ASSUME IInv, [Next]_vars PROVE IInv'
  OBVIOUS
<1>1. CASE Start
  BY <1>1, StartIInv
<1>2. CASE Crash
  BY <1>2, CrashIInv
<1>3. CASE \E c \in Conns : SessionDies(c)
  BY <1>3, SessionDiesIInv
<1>4. ASSUME NEW t \in Threads, Step(t) PROVE IInv'
  BY <1>4, AcquireIInv, InsertEventIInv, InsertPayloadIInv, CommitIInv,
     CommitAnsweredIInv, FailIInv, ReturnIInv, QueryIInv, ReturnReadIInv DEF Step
<1>5. ASSUME NEW t \in Threads, Read(t) PROVE IInv'
  BY <1>5, ReadIInv
<1>6. ASSUME NEW t \in Threads, NEW r \in Requests, SaveEvents(t, r) PROVE IInv'
  BY <1>6, SaveEventsIInv
<1>7. CASE UNCHANGED vars
  BY <1>7, StutterIInv
<1>8. QED BY <1>1, <1>2, <1>3, <1>4, <1>5, <1>6, <1>7 DEF Next

LEMMA InvariantHolds == Spec => []IInv
<1>1. Init => IInv
  BY InitIInv
<1>2. IInv /\ [Next]_vars => IInv'
  BY NextIInv
<1>3. QED BY <1>1, <1>2, PTL DEF Spec

-------------------------------------------------------------------------------
(* The theorems.                                                           *)

\* The variables keep their types; in particular the loop over a batch never
\* reads past its end (postgres_events_repo.cc, SaveEvents).
THEOREM TypeCorrect == Spec => []TypeOK
<1>1. IInv => TypeOK
  BY DEF IInv, TypeOK
<1>2. QED BY <1>1, InvariantHolds, PTL

LEMMA AllOrNothing ==
  ASSUME IInv
  PROVE  \A r \in Requests : HasAll(rows, r) \/ HasNone(rows, r)
  BY CompleteHasAll, RowsHaveOneId DEF IInv, Committed

\* A batch is stored with every event once, or not at all, whichever statement
\* fails and whatever dies (the transaction of SaveEvents).
THEOREM SavesAreAtomic == Spec => []AtomicSaves
<1>1. IInv => AtomicSaves
  BY AllOrNothing DEF AtomicSaves
<1>2. QED BY <1>1, InvariantHolds, PTL

\* SaveEvents answers ok only for a batch that is stored, and it stays stored.
THEOREM OkIsStored == Spec => []AckedIsStored
<1>1. IInv => AckedIsStored
  BY CompleteHasAll, RowsHaveOneId DEF AckedIsStored, IInv, Committed
<1>2. QED BY <1>1, InvariantHolds, PTL

\* The payload that insert_payload attached to an id that insert_event returned
\* is its event's, and the only one: GetEvents can join on it.
THEOREM PayloadsMatch == Spec => []PayloadIsItsEvents
<1>1. ASSUME IInv, NEW e \in rows, e.table = "events"
      PROVE  {row \in rows : row.table = "payloads" /\ row.id = e.id}
               = {[e EXCEPT !.table = "payloads"]}
  <2>1. e \in Rows /\ rows \subseteq Rows /\ rows \subseteq AllRows
    BY <1>1 DEF IInv, DataTypes, AllRows
  <2>2. e.req \in Requests /\ e.k \in 1 .. Len(Batch[e.req])
    BY <1>1, <2>1 DEF IInv, Numbered, Rows
  <2>3. Complete(rows, e.req)
    BY <1>1, <2>2 DEF IInv, Committed, HasNone
  <2>4. PICK p \in rows : p.table = "payloads" /\ p.req = e.req /\ p.k = e.k
    BY <2>2, <2>3 DEF Complete, Has, Tables
  <2>5. ASSUME NEW row \in rows, row.table = "payloads"
        PROVE  row.id = e.id <=> row.req = e.req /\ row.k = e.k
    BY <1>1, <2>1 DEF IInv, Numbered
  <2>6. ASSUME NEW row \in rows, row.table = "payloads", row.req = e.req, row.k = e.k,
               row.id = e.id
        PROVE  row = [e EXCEPT !.table = "payloads"]
    BY <2>1, <2>6 DEF Rows
  <2>7. p.id = e.id /\ p = [e EXCEPT !.table = "payloads"]
    BY <2>4, <2>5, <2>6
  <2>8. QED BY <2>4, <2>5, <2>6, <2>7
<1>2. IInv => PayloadIsItsEvents
  BY <1>1 DEF PayloadIsItsEvents
<1>3. QED BY <1>2, InvariantHolds, PTL

\* What GetEvents or GetStats reads are whole batches, with every one that was
\* acknowledged before the call.
THEOREM ReadersSeeWholeBatches == Spec => []ReadsAreWhole
<1>1. IInv => ReadsAreWhole
  BY DEF ReadsAreWhole, IInv, Reader
<1>2. QED BY <1>1, InvariantHolds, PTL

-------------------------------------------------------------------------------
(* The repository implements EventStore.                                   *)

\* What the refinement maps: a batch is in the database or not, as a whole.
Stored == [r \in Requests |-> IF HasNone(rows, r) THEN 0 ELSE 1]
Status == [r \in Requests |->
             IF \E t \in Threads : req[t] = r THEN "pending"
             ELSE IF result[r] = "none" THEN "new" ELSE result[r]]

Mapped(S) == [r \in Requests |->
                IF HasNone(S, r) THEN 0 ELSE IF HasAll(S, r) THEN 1 ELSE 2]

LEMMA MappedIsStored ==
  ASSUME NEW S, OneId(S), \A r \in Requests : HasNone(S, r) \/ Complete(S, r)
  PROVE  Mapped(S) = [r \in Requests |-> IF HasNone(S, r) THEN 0 ELSE 1]
  BY CompleteHasAll DEF Mapped

\* The steps that callers do not notice.
LEMMA HiddenStep ==
  ASSUME rows' = rows, req' = req, result' = result
  PROVE  Stored' = Stored /\ Status' = Status
  BY DEF Stored, Status, HasNone

LEMMA SubmitStep ==
  ASSUME IInv, NEW t \in Threads, NEW r \in Requests, SaveEvents(t, r)
  PROVE  /\ Status[r] = "new" /\ Status' = [Status EXCEPT ![r] = "pending"]
         /\ Stored' = Stored
<1> USE Types
<1>1. /\ \A u \in Threads : req[u] # r
      /\ result[r] = "none" /\ pc[t] = "idle" /\ req' = [req EXCEPT ![t] = r]
      /\ result' = result /\ rows' = rows
  BY DEF SaveEvents, dbVars
<1>2. req[t] = NoReq /\ req'[t] = r /\ \A u \in Threads \ {t} : req'[u] = req[u]
  BY <1>1 DEF Located, Saving, CallTypes
<1>3. ASSUME NEW q \in Requests
      PROVE  (\E u \in Threads : req'[u] = q) <=> q = r \/ \E u \in Threads : req[u] = q
  BY <1>2
<1>4. QED BY <1>1, <1>3 DEF Status, Stored, HasNone

LEMMA ApplyStep ==
  ASSUME IInv, NEW t \in Threads, Commit(t)
  PROVE  \E r \in Requests :
           /\ Status[r] = "pending" /\ Stored[r] = 0 /\ Batch[r] # <<>>
           /\ Stored' = [Stored EXCEPT ![r] = 1] /\ Status' = Status
<1> USE Types
<1>1. /\ pc[t] = "commit" /\ CanExecute(t) /\ rows' = rows \cup openRows[t]
      /\ req' = req /\ result' = result
  BY DEF Commit, CommitRows
<1>2. /\ req[t] \in Requests /\ req[t] # NoReq /\ result[req[t]] = "none"
      /\ pos[t] \in 1 .. Len(Batch[req[t]]) /\ pos[t] = Len(Batch[req[t]])
  BY <1>1 DEF Located, Saving, Inserting
<1>3. HasNone(rows, req[t])
  <2> SUFFICES ASSUME NEW row \in rows, row.req = req[t] PROVE FALSE
    BY DEF HasNone
  <2>1. PICK u \in Threads : req[u] = row.req /\ pc[u] \in {"committed", "return"}
    BY <1>2 DEF IInv, Committed
  <2>2. u = t
    BY <1>2, <2>1 DEF IInv, OneSaver
  <2>3. QED BY <1>1, <2>1, <2>2
<1>4. ~HasNone(rows', req[t])
  <2>1. Has(openRows[t], req[t], 1)
    BY <1>1, <1>2 DEF Open, Inserting
  <2>2. QED BY <1>1, <2>1 DEF Has, HasNone, Tables
<1>5. ASSUME NEW r \in Requests, r # req[t] PROVE HasNone(rows', r) <=> HasNone(rows, r)
  BY <1>1, <1>5 DEF HasNone, Open
<1>6. Batch[req[t]] # <<>>
  BY <1>2, EmptySeq
<1>7. Stored' = [Stored EXCEPT ![req[t]] = 1]
  BY <1>2, <1>4, <1>5 DEF Stored, HasNone
<1>8. Status' = Status
  BY <1>1 DEF Status
<1>9. QED BY <1>2, <1>3, <1>6, <1>7, <1>8 DEF Status, Stored

LEMMA AnswerStep ==
  ASSUME IInv, NEW t \in Threads, Return(t)
  PROVE  \E r \in Requests, a \in {"ok", "notok"} :
           /\ Status[r] = "pending"
           /\ a = "ok" => Stored[r] = 1 \/ Batch[r] = <<>>
           /\ Status' = [Status EXCEPT ![r] = a] /\ Stored' = Stored
<1> USE Types
<1>1. /\ pc[t] = "return" /\ result' = [result EXCEPT ![req[t]] = outcome[t]]
      /\ req' = [req EXCEPT ![t] = NoReq] /\ rows' = rows
  BY DEF Return, ReturnSave, Release, dbVars
<1>2. /\ req[t] \in Requests /\ req[t] # NoReq /\ outcome[t] \in {"ok", "notok"}
      /\ outcome[t] = "ok" => Complete(rows, req[t])
  BY <1>1 DEF Located, Saving, CallTypes
<1>3. outcome[t] = "ok" => ~HasNone(rows, req[t]) \/ Batch[req[t]] = <<>>
  <2> SUFFICES ASSUME Complete(rows, req[t]), Batch[req[t]] # <<>>
               PROVE  ~HasNone(rows, req[t])
    BY <1>2
  <2>1. 1 \in 1 .. Len(Batch[req[t]])
    BY <1>2, EmptySeq, RepoAssumption DEF RepoAssumption
  <2>2. QED BY <2>1 DEF Complete, Has, HasNone, Tables
<1>4. ASSUME NEW r \in Requests
      PROVE  (\E u \in Threads : req'[u] = r) <=> r # req[t] /\ \E u \in Threads : req[u] = r
  <2>1. \A u \in Threads : req'[u] = IF u = t THEN NoReq ELSE req[u]
    BY <1>1 DEF CallTypes
  <2>2. \A u \in Threads : req[u] = req[t] => u = t
    BY <1>2 DEF IInv, OneSaver
  <2>3. QED BY <2>1, <2>2
<1>5. \A r \in Requests : result'[r] = IF r = req[t] THEN outcome[t] ELSE result[r]
  BY <1>1 DEF CallTypes
<1>6. Status' = [Status EXCEPT ![req[t]] = outcome[t]]
  BY <1>2, <1>4, <1>5 DEF Status
<1>7. Stored' = Stored
  BY <1>1 DEF Stored, HasNone
<1>8. Status[req[t]] = "pending"
  BY <1>2 DEF Status
<1>9. outcome[t] = "ok" => Stored[req[t]] = 1 \/ Batch[req[t]] = <<>>
  BY <1>2, <1>3 DEF Stored
<1>10. QED BY <1>2, <1>6, <1>7, <1>8, <1>9

LEMMA SilenceStep ==
  ASSUME IInv, Crash
  PROVE  /\ Status' = [r \in Requests |->
                         IF Status[r] = "pending" THEN "silent" ELSE Status[r]]
         /\ Stored' = Stored
<1>1. /\ \A t \in Threads : req'[t] = NoReq
      /\ rows' = rows
      /\ \A r \in Requests :
           result'[r] = IF \E t \in Threads : req[t] = r THEN "silent" ELSE result[r]
  BY DEF Crash
<1>2. \A r \in Requests : result[r] \in {"none", "ok", "notok", "silent"} /\ r # NoReq
  BY Types DEF CallTypes
<1>3. QED BY <1>1, <1>2 DEF Status, Stored, HasNone

LEMMA StoreStep ==
  ASSUME IInv, IInv', [Next]_vars
  PROVE  [Store!StoreNext]_(Store!storeVars)
<1>1. Mapped(rows) = Stored
  BY MappedIsStored, RowsHaveOneId DEF IInv, Committed, Stored
<1>2. Mapped(rows') = Stored'
  <2>1. OneId(rows')
    BY DEF IInv, DataTypes, Numbered, AllRows, OneId
  <2>2. \A r \in Requests : HasNone(rows', r) \/ Complete(rows', r)
    BY DEF IInv, Committed, HasNone, Complete, Has
  <2>3. QED BY <2>1, <2>2, MappedIsStored DEF Stored, HasNone
<1>3. (Mapped(rows))' = Mapped(rows')
  BY DEF Mapped, HasAll, HasNone, Copies
<1> DEFINE MappedStep == [Store!StoreNext]_(Store!storeVars)
<1>4. ASSUME Stored' = Stored, Status' = Status PROVE MappedStep
  BY <1>1, <1>2, <1>3, <1>4 DEF Store!storeVars, Mapped, Status
<1>5. ASSUME NEW t \in Threads, NEW r \in Requests, SaveEvents(t, r) PROVE MappedStep
  <2>1. Store!Submit(r)
    BY <1>1, <1>2, <1>3, <1>5, SubmitStep DEF Store!Submit, Mapped, Status
  <2>2. QED BY <2>1 DEF Store!StoreNext
<1>6. ASSUME NEW t \in Threads, Commit(t) PROVE MappedStep
  <2>1. PICK r \in Requests :
          /\ Status[r] = "pending" /\ Stored[r] = 0 /\ Batch[r] # <<>>
          /\ Stored' = [Stored EXCEPT ![r] = 1] /\ Status' = Status
    BY <1>6, ApplyStep
  <2>2. Store!Apply(r)
    BY <1>1, <1>2, <1>3, <2>1 DEF Store!Apply, Mapped, Status
  <2>3. QED BY <2>2 DEF Store!StoreNext
<1>7. ASSUME NEW t \in Threads, Return(t) PROVE MappedStep
  <2>1. PICK r \in Requests, a \in {"ok", "notok"} :
          /\ Status[r] = "pending"
          /\ a = "ok" => Stored[r] = 1 \/ Batch[r] = <<>>
          /\ Status' = [Status EXCEPT ![r] = a] /\ Stored' = Stored
    BY <1>7, AnswerStep
  <2>2. Store!Answer(r, a)
    BY <1>1, <1>2, <1>3, <2>1 DEF Store!Answer, Mapped, Status
  <2>3. QED BY <2>2 DEF Store!StoreNext
<1>8. CASE Crash
  <2>1. Store!Silence
    BY <1>1, <1>2, <1>3, <1>8, SilenceStep DEF Store!Silence, Mapped, Status
  <2>2. QED BY <2>1 DEF Store!StoreNext
<1>9. CASE Start \/ (\E c \in Conns : SessionDies(c)) \/ UNCHANGED vars
  BY <1>4, <1>9, HiddenStep DEF Start, SessionDies, vars, dbVars
<1>10. ASSUME NEW t \in Threads, Step(t) PROVE MappedStep
  <2>1. CASE Commit(t) \/ Return(t)
    BY <1>6, <1>7, <2>1
  <2>2. CASE Acquire(t) \/ Query(t) \/ ReturnRead(t)
    BY <1>4, <2>2, HiddenStep DEF Acquire, Query, ReturnRead, Release, dbVars
  <2>3. CASE InsertEvent(t) \/ InsertPayload(t) \/ CommitAnswered(t) \/ Fail(t)
    BY <1>4, <2>3, HiddenStep
    DEF InsertEvent, InsertPayload, PayloadRow, CommitAnswered, Fail, FailWith, dbVars
  <2>4. QED BY <1>10, <2>1, <2>2, <2>3 DEF Step
<1>11. ASSUME NEW t \in Threads, Read(t) PROVE MappedStep
  BY <1>4, <1>11, HiddenStep DEF Read, dbVars
<1>12. QED BY <1>5, <1>8, <1>9, <1>10, <1>11 DEF Next

\* Whatever statements, sessions and the service do, SaveEvents is one atomic
\* step between the call and its answer.
THEOREM StoreImplemented == Spec => ImplementsStore
<1>1. Init => Store!StoreInit
  BY RepoAssumption DEF RepoAssumption, Init, Store!StoreInit, HasNone
<1>2. IInv /\ IInv' /\ [Next]_vars => [Store!StoreNext]_(Store!storeVars)
  BY StoreStep
<1>3. QED BY <1>1, <1>2, InvariantHolds, PTL DEF Spec, ImplementsStore, Store!StoreSpec
===============================================================================
