--------------------------- MODULE PoolStartupProofs ---------------------------
(***************************************************************************)
(* Proofs about the start-up of ConnectionPool: CreatePreparedPool brings  *)
(* every connection to the front of the queue once.                        *)
(***************************************************************************)
EXTENDS ConnectionPoolProofs

Preparing == pc[Main] \notin {"construct", "exited", "serving"}

\* The loop still has to prepare c; the loop is through with c.
Fresh(c) == c \notin prepared \cup recreated \cup refused
Ready(c) == link[c] = "closed" \/ c \in prepared \cup recreated \cup refused

\* How many connections the loop has put back.
Finished == IF pc[Main] = "notifying" THEN rounds + 1 ELSE rounds

\* While the pool is built it holds what was opened.
Building ==
  pc[Main] = "construct" =>
    /\ rounds = 0 /\ prepared = {} /\ recreated = {} /\ refused = {}
    /\ Len(queue) = Cardinality({c \in Conns : link[c] # "none"})

\* Until the server starts only Main takes connections, so that the fresh ones
\* stand in the queue before the finished ones.
Ordered ==
  Preparing =>
    /\ pc[Main] \in {"acquiring", "using", "returning", "pushing", "notifying"}
    /\ \A c \in Conns : link[c] # "none"
    /\ Len(queue) = IF held[Main] = NoConn THEN Cardinality(Conns)
                                           ELSE Cardinality(Conns) - 1
    /\ rounds < Cardinality(Conns)
    /\ \A i \in 1 .. Len(queue) :
         /\ i <= Len(queue) - Finished => Fresh(queue[i])
         /\ i > Len(queue) - Finished => Ready(queue[i])
    /\ pc[Main] = "using" => Fresh(held[Main])
    /\ pc[Main] \in {"returning", "pushing"} => Ready(held[Main])

StartupInv == Building /\ Ordered /\ EveryConnectionTried

LEMMA InitStartupInv == Init => StartupInv
<1> SUFFICES ASSUME Init PROVE StartupInv
  OBVIOUS
<1>1. pc[Main] = "construct" /\ queue = <<>> /\ rounds = 0 /\ prepared = {} /\ recreated = {} /\ refused = {}
  BY MainIsAThread DEF Init
<1>2. {c \in Conns : link[c] # "none"} = {}
  BY DEF Init
<1>3. Building
  BY <1>1, <1>2, EmptySeq, FS_EmptySet DEF Building
<1>4. QED BY <1>1, <1>3 DEF StartupInv, Ordered, Preparing, EveryConnectionTried

-------------------------------------------------------------------------------
(* Who moves when.                                                         *)

\* What the thread that starts the server can do besides Startup.
MainMoves ==
  \/ TakeFront(Main) /\ pc[Main] \in {"acquiring", "woken", "waiting"}
  \/ Wait(Main) \/ SpuriousWakeup(Main) \/ KeepOpen(Main) \/ Recreate(Main)
  \/ RecreateFails(Main) \/ Push(Main) \/ Notify(Main)

\* Until the server takes calls nobody else moves.
LEMMA OnlyMain ==
  ASSUME IInv, [Next]_vars, pc[Main] # "serving"
  PROVE  Startup \/ DbDown \/ DbRestart \/ UNCHANGED vars \/ MainMoves
<1>1. ASSUME NEW t \in Threads,
             \/ Push(t) \/ Local(t)
             \/ TakeFront(t) /\ pc[t] \in {"acquiring", "woken", "waiting"}
             \/ t \in Handlers /\ Timeout(t) /\ ~TakeFront(t)
      PROVE  MainMoves
  <2>1. CASE t = Main
    BY <1>1, <2>1, PoolAssumption DEF Local, MainMoves, PoolAssumption
  <2>2. CASE t # Main
    <3>1. pc[t] = "idle" /\ pc[Main] # "serving"
      BY <2>2 DEF IInv, Located, Threads
    <3>2. QED
      BY <1>1, <3>1
      DEF Local, Push, PushInto, Wait, SpuriousWakeup, KeepOpen, Recreate, RecreateFails,
          NotRecreated, Notify, NotifyWhen, RunStatement, Call, Timeout
  <2>3. QED BY <2>1, <2>2
<1>2. QED BY <1>1, StepKinds

\* Once a connection is ready it stays so.
LEMMA ReadyStable ==
  ASSUME IInv, [Next]_vars, pc[Main] # "construct", NEW c \in Conns, Ready(c)
  PROVE  Ready(c)'
<1>1. link \in [Conns -> Links] /\ held \in [Threads -> Conns \cup {NoConn}]
  BY DEF IInv, TypeOK
<1>2. CASE Startup
  <2>1. Prepare \/ PrepareRefused
    BY <1>2 DEF Startup, Construct, ConstructThrows
  <2>2. QED BY <1>1, <2>1 DEF Prepare, PrepareRefused, Ready
<1>3. CASE DbDown \/ DbRestart \/ UNCHANGED vars
  BY <1>1, <1>3 DEF DbDown, DbRestart, vars, Ready
<1>4. ASSUME NEW t \in Threads, Recreate(t) PROVE Ready(c)'
  <2>1. /\ link' = [link EXCEPT ![held[t]] = "open"] /\ prepared' = prepared \ {held[t]}
        /\ recreated' = recreated \cup {held[t]} /\ refused' = refused \ {held[t]}
    BY <1>4 DEF Recreate
  <2>2. QED BY <1>1, <2>1 DEF Ready
<1>5. ASSUME NEW t \in Threads, t \in Handlers, RunStatement(t) PROVE Ready(c)'
  <2>1. /\ link' = link \/ link' = [link EXCEPT ![held[t]] = "closed"]
        /\ UNCHANGED <<prepared, recreated, refused>>
    BY <1>5 DEF RunStatement
  <2>2. QED BY <1>1, <2>1 DEF Ready
<1>6. ASSUME NEW t \in Threads,
             \/ Push(t) \/ TakeFront(t)
             \/ t \in Handlers /\ Timeout(t) /\ ~TakeFront(t)
             \/ Local(t) /\ ~Recreate(t) /\ ~(t \in Handlers /\ RunStatement(t))
      PROVE  Ready(c)'
  <2>1. UNCHANGED <<link, prepared, recreated, refused>>
    BY <1>6
    DEF Local, Push, PushInto, TakeFront, Take, Timeout, Wait, SpuriousWakeup, KeepOpen,
        RecreateFails, NotRecreated, Notify, NotifyWhen, Call
  <2>2. QED BY <2>1 DEF Ready
<1>7. ASSUME NEW t \in Threads,
             \/ Push(t) \/ Local(t) \/ TakeFront(t)
             \/ t \in Handlers /\ Timeout(t) /\ ~TakeFront(t)
      PROVE  Ready(c)'
  BY <1>4, <1>5, <1>6, <1>7
<1>8. QED BY <1>2, <1>3, <1>7, StepKinds

\* A server that takes calls goes on doing so.
LEMMA ServingStays ==
  ASSUME IInv, [Next]_vars, pc[Main] = "serving"
  PROVE  pc'[Main] = "serving"
<1> USE MainIsAThread
<1>1. pc \in [Threads -> PCs]
  BY DEF IInv, TypeOK
<1>2. CASE Startup
  BY <1>2 DEF Startup, Construct, ConstructThrows, Prepare, PrepareRefused
<1>3. CASE DbDown \/ DbRestart \/ UNCHANGED vars
  BY <1>3 DEF DbDown, DbRestart, vars
<1>4. ASSUME NEW t \in Threads, Notify(t) PROVE pc'[Main] = "serving"
  <2>1. pc[t] = "notifying"
    BY <1>4 DEF Notify, NotifyWhen
  <2>2. \/ pc' = [pc EXCEPT ![t] = Resume(t)]
        \/ \E w \in Threads :
             pc[w] = "waiting" /\ pc' = [pc EXCEPT ![t] = Resume(t), ![w] = "woken"]
    BY <1>4 DEF Notify, NotifyWhen, Goto, Waiting, At
  <2>3. QED BY <1>1, <2>1, <2>2
<1>5. ASSUME NEW t \in Threads,
             \/ Push(t)
             \/ t \in Handlers /\ Timeout(t) /\ ~TakeFront(t)
             \/ TakeFront(t) /\ pc[t] \in {"acquiring", "woken", "waiting"}
             \/ Local(t) /\ ~Notify(t)
      PROVE  pc'[Main] = "serving"
  <2>1. t # Main /\ \E l \in PCs : pc' = [pc EXCEPT ![t] = l]
    BY <1>5, PoolAssumption
    DEF Local, Push, PushInto, TakeFront, Take, Timeout, Wait, SpuriousWakeup, KeepOpen,
        Recreate, RecreateFails, NotRecreated, RunStatement, Call, Goto, PCs, PoolAssumption
  <2>2. QED BY <1>1, <2>1
<1>6. ASSUME NEW t \in Threads,
             \/ Push(t) \/ Local(t)
             \/ t \in Handlers /\ Timeout(t) /\ ~TakeFront(t)
             \/ TakeFront(t) /\ pc[t] \in {"acquiring", "woken", "waiting"}
      PROVE  pc'[Main] = "serving"
  BY <1>4, <1>5, <1>6
<1>7. QED BY <1>2, <1>3, <1>6, StepKinds

-------------------------------------------------------------------------------
(* The steps until the server takes calls.                                 *)

LEMMA Types ==
  ASSUME IInv
  PROVE  /\ TypeOK /\ Located /\ Conservation
         /\ Len(queue) \in Nat /\ DOMAIN queue = 1 .. Len(queue)
         /\ \A i \in 1 .. Len(queue) : queue[i] \in Conns /\ queue[i] \in Queued
         /\ Cardinality(Conns) \in Nat /\ Cardinality(Conns) > 0
<1>1. queue \in Seq(Conns)
  BY DEF IInv, TypeOK
<1>2. Len(queue) \in Nat /\ DOMAIN queue = 1 .. Len(queue)
  BY <1>1, LenProperties
<1>3. \A i \in 1 .. Len(queue) : queue[i] \in Conns /\ queue[i] \in Queued
  BY <1>1, <1>2, ElementOfSeq DEF Queued, Range
<1>4. Cardinality(Conns) \in Nat /\ Cardinality(Conns) # 0
  BY PoolAssumption, FS_CardinalityType, FS_EmptySet DEF PoolAssumption
<1>5. QED BY <1>2, <1>3, <1>4 DEF IInv

\* The constructor opens connection after connection; its last one ends it.
LEMMA ConstructStep ==
  ASSUME IInv, StartupInv, NEW c \in Conns, Construct(c)
  PROVE  StartupInv'
<1> USE Types, MainIsAThread
<1> DEFINE Opened == {d \in Conns : link[d] # "none"}
<1>1. /\ pc[Main] = "construct" /\ link[c] = "none" /\ link' = [link EXCEPT ![c] = "open"]
      /\ queue' = Append(queue, c) /\ UNCHANGED <<held, prepared, recreated, refused, rounds, dbUp>>
      /\ pc' = IF \A d \in Conns \ {c} : link[d] # "none"
                 THEN [pc EXCEPT ![Main] = "acquiring"] ELSE pc
  BY DEF Construct, Goto
<1>2. /\ rounds = 0 /\ prepared = {} /\ recreated = {} /\ refused = {} /\ Len(queue) = Cardinality(Opened)
  BY <1>1 DEF StartupInv, Building
<1>3. Opened' = Opened \cup {c} /\ c \notin Opened
  BY <1>1 DEF TypeOK
<1>4. IsFiniteSet(Opened)
  BY PoolAssumption, FS_Subset DEF PoolAssumption
<1>5. Len(queue') = Cardinality(Opened')
  <2>1. Len(queue') = Len(queue) + 1
    BY <1>1, AppendProperties DEF TypeOK
  <2>2. QED BY <1>2, <1>3, <1>4, <2>1, FS_AddElement
<1>6. held[Main] = NoConn
  BY <1>1 DEF Located
<1>7. CASE \A d \in Conns \ {c} : link[d] # "none"
  <2>1. pc'[Main] = "acquiring" /\ \A d \in Conns : link'[d] # "none"
    BY <1>1, <1>7 DEF TypeOK
  <2>2. Opened' = Conns
    BY <2>1
  <2>3. \A d \in Conns : Fresh(d)'
    BY <1>1, <1>2 DEF Fresh
  <2>4. IInv'
    BY <1>1, StartupIInv DEF Startup
  <2>5. \A i \in 1 .. Len(queue') : queue'[i] \in Conns
    BY <2>4, ElementOfSeq DEF IInv, TypeOK
  <2>6. Len(queue') = Cardinality(Conns) /\ Finished' = 0 /\ rounds' = 0
    BY <1>1, <1>2, <1>5, <2>1, <2>2 DEF Finished
  <2>7. (\A i \in 1 .. Len(queue) :
           /\ i <= Len(queue) - Finished => Fresh(queue[i])
           /\ i > Len(queue) - Finished => Ready(queue[i]))'
    BY <2>3, <2>5, <2>6 DEF Fresh
  <2>8. Ordered'
    BY <1>1, <1>6, <2>1, <2>6, <2>7 DEF Ordered
  <2>9. QED BY <2>1, <2>8 DEF StartupInv, Building, EveryConnectionTried
<1>8. CASE ~\A d \in Conns \ {c} : link[d] # "none"
  <2>1. pc'[Main] = "construct"
    BY <1>1, <1>8
  <2>2. Building'
    BY <1>1, <1>2, <1>5 DEF Building
  <2>3. QED BY <2>1, <2>2 DEF StartupInv, Ordered, Preparing, EveryConnectionTried
<1>9. QED BY <1>7, <1>8

\* It opens none, throws, or waits for Postgres.
LEMMA BuildingStep ==
  ASSUME IInv, StartupInv, [Next]_vars, pc[Main] \in {"construct", "exited"}
  PROVE  StartupInv'
<1> USE Types, MainIsAThread
<1>1. ~MainMoves
  BY DEF MainMoves, Wait, SpuriousWakeup, KeepOpen, Recreate, RecreateFails, NotRecreated,
         Push, PushInto, Notify, NotifyWhen
<1>2. CASE ConstructThrows
  <2>1. pc'[Main] = "exited"
    BY <1>2 DEF ConstructThrows, Goto, TypeOK
  <2>2. QED BY <2>1 DEF StartupInv, Building, Ordered, Preparing, EveryConnectionTried
<1>3. CASE DbDown \/ DbRestart \/ UNCHANGED vars
  <2>1. UNCHANGED <<queue, pc, held, prepared, recreated, refused, rounds>>
    BY <1>3 DEF DbDown, DbRestart, vars
  <2>2. \A c \in Conns : link'[c] = "none" <=> link[c] = "none"
    BY <1>3 DEF DbDown, DbRestart, vars
  <2>3. {c \in Conns : link[c] # "none"}' = {c \in Conns : link[c] # "none"}
    BY <2>2
  <2>4. Building'
    BY <2>1, <2>3 DEF StartupInv, Building
  <2>5. QED BY <2>1, <2>4 DEF StartupInv, Ordered, Preparing, EveryConnectionTried
<1>4. CASE \E c \in Conns : Construct(c)
  BY <1>4, ConstructStep
<1>5. ~Prepare /\ ~PrepareRefused
  BY DEF Prepare, PrepareRefused
<1>6. QED BY <1>1, <1>2, <1>3, <1>4, <1>5, OnlyMain DEF Startup

\* What a step of the loop keeps that moves no connection.
QueueOrdered ==
  \A i \in 1 .. Len(queue) :
    /\ i <= Len(queue) - Finished => Fresh(queue[i])
    /\ i > Len(queue) - Finished => Ready(queue[i])

LEMMA QueueKept ==
  ASSUME IInv, Ordered, [Next]_vars, Preparing, queue' = queue, Finished' = Finished,
         prepared' \cup recreated' \cup refused'
           \subseteq prepared \cup recreated \cup refused \cup {held[Main]}
  PROVE  QueueOrdered'
<1> USE Types
<1>1. \A i \in 1 .. Len(queue) :
        /\ i <= Len(queue) - Finished => Fresh(queue[i])
        /\ i > Len(queue) - Finished => Ready(queue[i])
  BY DEF Ordered
<1>2. \A c \in Conns : Ready(c) => Ready(c)'
  BY ReadyStable DEF Preparing
<1>3. held[Main] \notin Queued
  BY MainIsAThread DEF Conservation
<1>4. \A c \in Queued : Fresh(c) => Fresh(c)'
  BY <1>3 DEF Fresh
<1>5. ASSUME NEW i \in 1 .. Len(queue), NEW c \in Conns, c = queue[i]
      PROVE  /\ i <= Len(queue) - Finished => Fresh(c)'
             /\ i > Len(queue) - Finished => Ready(c)'
  <2>1. c \in Queued
    BY <1>5
  <2>2. /\ i <= Len(queue) - Finished => Fresh(c)
        /\ i > Len(queue) - Finished => Ready(c)
    BY <1>1, <1>5 DEF Fresh, Ready
  <2>3. QED BY <1>2, <1>4, <2>1, <2>2
<1>6. QED BY <1>5 DEF QueueOrdered, Fresh, Ready

\* One that leaves Main where its handle and the rounds are what they were.
LEMMA StillPreparing ==
  ASSUME IInv, Ordered, [Next]_vars, Preparing, QueueOrdered',
         pc'[Main] \in {"acquiring", "using", "returning", "pushing", "notifying"},
         \A c \in Conns : link'[c] # "none",
         Len(queue') = IF held'[Main] = NoConn THEN Cardinality(Conns)
                                              ELSE Cardinality(Conns) - 1,
         rounds' < Cardinality(Conns),
         pc'[Main] = "using" => Fresh(held[Main])',
         pc'[Main] \in {"returning", "pushing"} => Ready(held[Main])'
  PROVE  StartupInv'
<1>1. Ordered'
  BY DEF Ordered, QueueOrdered
<1>2. QED BY <1>1 DEF StartupInv, Building, EveryConnectionTried

\* Outages and what Main does between taking a connection and putting it back.
LEMMA HoldingStep ==
  ASSUME IInv, StartupInv, [Next]_vars, Preparing,
         \/ Prepare \/ PrepareRefused \/ DbDown \/ DbRestart \/ UNCHANGED vars
         \/ KeepOpen(Main) \/ Recreate(Main) \/ RecreateFails(Main)
  PROVE  StartupInv'
<1> USE Types, MainIsAThread
<1>1. Ordered
  BY DEF StartupInv
<1>2. /\ queue' = queue /\ held' = held /\ rounds' = rounds
      /\ pc[Main] = "notifying" <=> pc'[Main] = "notifying"
      /\ prepared' \cup recreated' \cup refused'
           \subseteq prepared \cup recreated \cup refused \cup {held[Main]}
  BY DEF Prepare, PrepareRefused, DbDown, DbRestart, vars, KeepOpen, Recreate, RecreateFails, NotRecreated,
         Goto, TypeOK
<1>3. QueueOrdered'
  BY <1>1, <1>2, QueueKept DEF Finished
<1>4. \A c \in Conns : link'[c] # "none"
  <2>1. \A c \in Conns : link[c] # "none"
    BY <1>1 DEF Ordered
  <2>2. QED
    BY <2>1 DEF Prepare, PrepareRefused, DbDown, DbRestart, vars, KeepOpen, Recreate, RecreateFails,
                NotRecreated, TypeOK
<1>5. \/ (Prepare \/ PrepareRefused) /\ pc[Main] = "using" /\ pc'[Main] = "returning"
      \/ /\ KeepOpen(Main) \/ Recreate(Main) \/ RecreateFails(Main)
         /\ pc[Main] = "returning" /\ pc'[Main] = "pushing"
      \/ UNCHANGED <<pc, prepared, recreated, refused>>
  BY DEF Prepare, PrepareRefused, DbDown, DbRestart, vars, KeepOpen, Recreate, RecreateFails, NotRecreated,
         Goto, TypeOK
<1>6. pc'[Main] \in {"acquiring", "using", "returning", "pushing", "notifying"}
  BY <1>1, <1>5 DEF Ordered
<1>7. pc'[Main] = "using" => Fresh(held[Main])'
  BY <1>1, <1>2, <1>5 DEF Ordered, Fresh
<1>8. pc'[Main] \in {"returning", "pushing"} => Ready(held[Main])'
  <2>1. CASE Prepare \/ PrepareRefused
    <3>1. held[Main] \in Conns
      BY <2>1 DEF Prepare, PrepareRefused, Located, TypeOK
    <3>2. QED BY <1>2, <2>1, <3>1 DEF Prepare, PrepareRefused, Ready, TypeOK
  <2>2. CASE pc[Main] \in {"returning", "pushing"}
    <3>1. held[Main] \in Conns /\ Ready(held[Main])
      BY <1>1, <2>2 DEF Ordered, Located, TypeOK
    <3>2. \A c \in Conns : Ready(c) => Ready(c)'
      BY ReadyStable DEF Preparing
    <3>3. QED BY <1>2, <3>1, <3>2 DEF Ready
  <2>3. QED BY <1>5, <2>1, <2>2
<1>9. QED BY <1>1, <1>2, <1>3, <1>4, <1>6, <1>7, <1>8, StillPreparing DEF Ordered

\* Main takes the front, which is fresh: it has rounds left.
LEMMA TakeStep ==
  ASSUME IInv, StartupInv, [Next]_vars, Preparing, TakeFront(Main), pc[Main] = "acquiring"
  PROVE  StartupInv'
<1> USE Types, MainIsAThread
<1>1. Ordered
  BY DEF StartupInv
<1>2. /\ queue # <<>> /\ queue' = Tail(queue) /\ held'[Main] = Head(queue)
      /\ pc'[Main] = "using" /\ UNCHANGED <<link, prepared, recreated, refused, rounds, dbUp>>
  BY DEF TakeFront, Take, Goto, TypeOK
<1>3. /\ Len(queue') = Len(queue) - 1 /\ Head(queue) = queue[1] /\ Len(queue) > 0
      /\ \A i \in 1 .. Len(queue') : queue'[i] = queue[i + 1]
  BY <1>2, HeadTailProperties, EmptySeq DEF TypeOK
<1>4. held[Main] = NoConn /\ Finished = rounds /\ Finished' = rounds /\ rounds \in Nat
  BY <1>2 DEF Located, Finished, TypeOK
<1>5. Len(queue) = Cardinality(Conns) /\ rounds < Len(queue)
  BY <1>1, <1>4 DEF Ordered
<1>6. Fresh(held[Main])'
  <2>1. Fresh(queue[1])
    BY <1>1, <1>4, <1>5 DEF Ordered
  <2>2. QED BY <1>2, <1>3, <2>1 DEF Fresh
<1>7. QueueOrdered'
  <2>1. ASSUME NEW i \in 1 .. Len(queue')
        PROVE  /\ i <= Len(queue') - rounds => Fresh(queue[i + 1])
               /\ i > Len(queue') - rounds => Ready(queue[i + 1])
    <3>1. i + 1 \in 1 .. Len(queue)
      BY <1>3
    <3>2. /\ i <= Len(queue') - rounds => i + 1 <= Len(queue) - rounds
          /\ i > Len(queue') - rounds => i + 1 > Len(queue) - rounds
      BY <1>3, <1>4
    <3>3. QED BY <1>1, <1>4, <3>1, <3>2 DEF Ordered
  <2>2. QED BY <1>2, <1>3, <1>4, <2>1 DEF QueueOrdered, Fresh, Ready
<1>8. held'[Main] # NoConn
  BY <1>2, <1>3, PoolAssumption DEF PoolAssumption
<1>9. QED BY <1>1, <1>2, <1>3, <1>5, <1>6, <1>7, <1>8, StillPreparing DEF Ordered

\* Main puts its connection, which is ready, behind the others.
LEMMA PushStep ==
  ASSUME IInv, StartupInv, [Next]_vars, Preparing, Push(Main)
  PROVE  StartupInv'
<1> USE Types, MainIsAThread
<1>1. Ordered
  BY DEF StartupInv
<1>2. /\ pc[Main] = "pushing" /\ queue' = Append(queue, held[Main]) /\ held'[Main] = NoConn
      /\ pc'[Main] = "notifying" /\ UNCHANGED <<link, prepared, recreated, refused, rounds, dbUp>>
  BY DEF Push, PushInto, Goto, TypeOK
<1>3. held[Main] \in Conns /\ held[Main] # NoConn /\ Ready(held[Main])
  BY <1>1, <1>2 DEF Located, Ordered, TypeOK
<1>4. /\ Len(queue') = Len(queue) + 1 /\ queue'[Len(queue) + 1] = held[Main]
      /\ \A i \in 1 .. Len(queue) : queue'[i] = queue[i]
  BY <1>2, <1>3, AppendProperties DEF TypeOK
<1>5. Finished = rounds /\ Finished' = rounds + 1 /\ rounds \in Nat
  BY <1>2 DEF Finished, TypeOK
<1>6. QueueOrdered'
  <2>1. ASSUME NEW i \in 1 .. Len(queue)
        PROVE  /\ i <= Len(queue') - Finished' => Fresh(queue[i])
               /\ i > Len(queue') - Finished' => Ready(queue[i])
    <3>1. Len(queue') - Finished' = Len(queue) - Finished
      BY <1>4, <1>5
    <3>2. QED BY <1>1, <3>1 DEF Ordered
  <2>2. ~(Len(queue) + 1 <= Len(queue') - Finished')
    BY <1>4, <1>5
  <2>3. \A i \in 1 .. Len(queue') : i \in 1 .. Len(queue) \/ i = Len(queue) + 1
    BY <1>4
  <2>4. QED BY <1>2, <1>3, <1>4, <2>1, <2>2, <2>3 DEF QueueOrdered, Fresh, Ready
<1>7. Len(queue') = Cardinality(Conns) /\ rounds' < Cardinality(Conns)
  BY <1>1, <1>2, <1>3, <1>4 DEF Ordered
<1>8. \A c \in Conns : link'[c] # "none"
  BY <1>1, <1>2 DEF Ordered
<1>9. QED BY <1>1, <1>2, <1>6, <1>7, <1>8, StillPreparing

\* The next round, or the last one: then the whole queue is ready.
LEMMA NotifyStep ==
  ASSUME IInv, StartupInv, [Next]_vars, Preparing, Notify(Main)
  PROVE  StartupInv'
<1> USE Types, MainIsAThread
<1>1. Ordered
  BY DEF StartupInv
<1>2. /\ pc[Main] = "notifying" /\ rounds' = rounds + 1 /\ rounds \in Nat
      /\ UNCHANGED <<queue, held, link, prepared, recreated, refused, dbUp>>
  BY DEF Notify, NotifyWhen, TypeOK
<1>3. pc'[Main] = IF rounds + 1 = Cardinality(Conns) THEN "serving" ELSE "acquiring"
  <2>1. \/ pc' = [pc EXCEPT ![Main] = Resume(Main)]
        \/ \E w \in Threads :
             pc[w] = "waiting" /\ pc' = [pc EXCEPT ![Main] = Resume(Main), ![w] = "woken"]
    BY DEF Notify, NotifyWhen, Goto, Waiting, At
  <2>2. QED BY <1>2, <2>1 DEF Resume, TypeOK
<1>4. /\ held[Main] = NoConn /\ Len(queue) = Cardinality(Conns)
      /\ Finished = rounds + 1 /\ rounds < Cardinality(Conns)
  BY <1>1, <1>2 DEF Located, Ordered, Finished
<1>5. CASE rounds + 1 = Cardinality(Conns)
  <2>1. pc'[Main] = "serving"
    BY <1>3, <1>5
  <2>2. \A i \in 1 .. Len(queue) : Ready(queue[i])
    <3>1. \A i \in 1 .. Len(queue) : i > Len(queue) - Finished
      BY <1>4, <1>5
    <3>2. QED BY <1>1, <3>1 DEF Ordered
  <2>3. ASSUME NEW c \in Conns PROVE c \in Queued
    <3>1. \A t \in Threads : held[t] = NoConn
      BY <1>2, <1>4 DEF Located, Threads
    <3>2. link[c] # "none" /\ c # NoConn
      BY <1>1, PoolAssumption DEF Ordered, PoolAssumption
    <3>3. QED BY <3>1, <3>2 DEF Conservation
  <2>4. \A c \in Conns : Ready(c)
    BY <2>2, <2>3 DEF Queued, Range
  <2>5. EveryConnectionTried'
    BY <1>2, <2>4 DEF EveryConnectionTried, Ready
  <2>6. QED BY <2>1, <2>5 DEF StartupInv, Building, Ordered, Preparing
<1>6. CASE rounds + 1 # Cardinality(Conns)
  <2>1. pc'[Main] = "acquiring" /\ rounds' < Cardinality(Conns)
    BY <1>2, <1>3, <1>4, <1>6
  <2>2. Finished' = Finished
    BY <1>2, <1>4, <2>1 DEF Finished
  <2>3. QueueOrdered'
    BY <1>1, <1>2, <2>2, QueueKept
  <2>4. \A c \in Conns : link'[c] # "none"
    BY <1>1, <1>2 DEF Ordered
  <2>5. QED BY <1>1, <1>2, <1>4, <2>1, <2>3, <2>4, StillPreparing
<1>7. QED BY <1>5, <1>6

-------------------------------------------------------------------------------
(* All steps together.                                                     *)

LEMMA NextStartupInv ==
  ASSUME IInv, StartupInv, [Next]_vars
  PROVE  StartupInv'
<1>1. CASE pc[Main] \in {"construct", "exited"}
  BY <1>1, BuildingStep
<1>2. CASE pc[Main] = "serving"
  <2>1. pc'[Main] = "serving" /\ \A c \in Conns : Ready(c)'
    BY <1>2, ServingStays, ReadyStable DEF StartupInv, EveryConnectionTried, Ready
  <2>2. QED
    BY <2>1
    DEF StartupInv, Building, Ordered, Preparing, EveryConnectionTried, Ready
<1>3. CASE Preparing
  <2>1. /\ pc[Main] \in {"acquiring", "using", "returning", "pushing", "notifying"}
        /\ pc[Main] = "acquiring" => queue # <<>>
    BY <1>3, Types, MainIsAThread, EmptySeq DEF StartupInv, Ordered, Located, TypeOK
  <2>2. CASE Startup
    <3>1. Prepare \/ PrepareRefused
      BY <2>1, <2>2 DEF Startup, Construct, ConstructThrows
    <3>2. QED BY <1>3, <3>1, HoldingStep
  <2>3. CASE DbDown \/ DbRestart \/ UNCHANGED vars
    BY <1>3, <2>3, HoldingStep
  <2>4. CASE MainMoves
    <3>1. ~Wait(Main) /\ ~SpuriousWakeup(Main)
      BY <2>1 DEF Wait, SpuriousWakeup
    <3>2. QED
      BY <1>3, <2>1, <2>4, <3>1, TakeStep, HoldingStep, PushStep, NotifyStep DEF MainMoves
  <2>5. QED BY <1>3, <2>2, <2>3, <2>4, OnlyMain DEF Preparing
<1>4. QED BY <1>1, <1>2, <1>3 DEF Preparing

LEMMA StartupInvHolds == Spec => [](IInv /\ StartupInv)
<1>1. Init => StartupInv
  BY InitStartupInv
<1>2. IInv /\ StartupInv /\ [Next]_vars => StartupInv'
  BY NextStartupInv
<1>3. QED BY <1>1, <1>2, InvariantHolds, PTL DEF Spec

\* CreatePreparedPool gets to every connection the constructor opened: when the
\* server starts, each that lacks the statements was found closed, was replaced,
\* or had the preparer throw on it, for every pool size, outage and refusal.
THEOREM EveryoneTried == Spec => []EveryConnectionTried
<1>1. StartupInv => EveryConnectionTried
  BY DEF StartupInv
<1>2. QED BY <1>1, StartupInvHolds, PTL

\* Its loop never blocks in Acquire and never prepares a session twice.
THEOREM StartupRuns == Spec => []StartupNeverBlocks
<1>1. IInv /\ StartupInv => StartupNeverBlocks
  BY DEF StartupInv, Ordered, Preparing, Fresh, StartupNeverBlocks
<1>2. QED BY <1>1, StartupInvHolds, PTL
===============================================================================
