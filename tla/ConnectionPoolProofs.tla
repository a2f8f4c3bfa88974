------------------------- MODULE ConnectionPoolProofs -------------------------
(***************************************************************************)
(* Proofs about ConnectionPool, for every set of connections and threads.  *)
(***************************************************************************)
EXTENDS ConnectionPool, SequenceTheorems, FiniteSetTheorems, TLAPS

\* Taking the front of a FIFO without repetitions.
LEMMA PopFront ==
  ASSUME NEW S, NEW s \in Seq(S), s # <<>>, IsInjective(s)
  PROVE  /\ Tail(s) \in Seq(S) /\ Head(s) \in S
         /\ Len(Tail(s)) = Len(s) - 1
         /\ IsInjective(Tail(s))
         /\ Range(Tail(s)) = Range(s) \ {Head(s)}
         /\ Head(s) \in Range(s)
<1>1. /\ Head(s) \in S /\ Tail(s) \in Seq(S) /\ Len(Tail(s)) = Len(s) - 1
      /\ \A i \in 1 .. Len(Tail(s)) : Tail(s)[i] = s[i + 1]
  BY HeadTailProperties
<1>2. /\ Len(s) \in Nat /\ Len(s) > 0 /\ DOMAIN s = 1 .. Len(s)
      /\ DOMAIN Tail(s) = 1 .. (Len(s) - 1) /\ Head(s) = s[1]
  BY <1>1, LenProperties, EmptySeq
<1>3. IsInjective(Tail(s))
  BY <1>1, <1>2 DEF IsInjective
<1>4. Range(Tail(s)) \subseteq Range(s) \ {Head(s)}
  BY <1>1, <1>2 DEF IsInjective, Range
<1>5. ASSUME NEW x \in Range(s) \ {Head(s)} PROVE x \in Range(Tail(s))
  <2>1. PICK i \in 1 .. Len(s) : x = s[i] /\ i # 1
    BY <1>2, <1>5 DEF Range
  <2>2. i - 1 \in 1 .. (Len(s) - 1) /\ Tail(s)[i - 1] = x
    BY <2>1, <1>1, <1>2
  <2>3. QED BY <2>2, <1>2 DEF Range
<1>6. Head(s) \in Range(s)
  BY <1>2 DEF Range
<1>7. QED BY <1>1, <1>3, <1>4, <1>5, <1>6

\* Appending a new element to one.
LEMMA PushBack ==
  ASSUME NEW S, NEW s \in Seq(S), NEW e \in S, IsInjective(s), e \notin Range(s)
  PROVE  /\ Append(s, e) \in Seq(S)
         /\ Len(Append(s, e)) = Len(s) + 1
         /\ IsInjective(Append(s, e))
         /\ Range(Append(s, e)) = Range(s) \cup {e}
<1>1. /\ Append(s, e) \in Seq(S) /\ Len(Append(s, e)) = Len(s) + 1
      /\ \A i \in 1 .. Len(s) : Append(s, e)[i] = s[i]
      /\ Append(s, e)[Len(s) + 1] = e
  BY AppendProperties
<1>2. /\ Len(s) \in Nat /\ DOMAIN s = 1 .. Len(s)
      /\ DOMAIN Append(s, e) = 1 .. (Len(s) + 1)
  BY <1>1, LenProperties
<1>3. \A i \in 1 .. Len(s) : s[i] # e
  BY <1>2 DEF Range
<1>4. \A i \in 1 .. (Len(s) + 1) : i \in 1 .. Len(s) \/ i = Len(s) + 1
  BY <1>2
<1>5. IsInjective(Append(s, e))
  BY <1>1, <1>2, <1>3, <1>4 DEF IsInjective
<1>6. Range(Append(s, e)) = Range(s) \cup {e}
  BY <1>1, <1>2, <1>4 DEF Range
<1>7. QED BY <1>1, <1>5, <1>6

-------------------------------------------------------------------------------
(* What the program counter says of the other variables.                   *)

Located ==
  /\ \A t \in Threads :
       held[t] # NoConn <=> pc[t] \in {"using", "returning", "pushing"}
  /\ \A h \in Handlers :
       /\ pc[h] \notin {"construct", "exited", "serving"}
       /\ pc[Main] # "serving" => pc[h] = "idle"
  /\ pc[Main] # "idle"

IInv == TypeOK /\ Located /\ Conservation

LEMMA MainIsAThread == Main \in Threads /\ Handlers \subseteq Threads /\ IsFiniteSet(Threads)
  BY PoolAssumption, FS_AddElement DEF Threads

\* Type correctness and the location invariant hold at start.
LEMMA InitIInv == Init => IInv
<1> SUFFICES ASSUME Init PROVE IInv
  OBVIOUS
<1> USE PoolAssumption, MainIsAThread
<1>1. TypeOK
  BY DEF Init, TypeOK, PCs, Links
<1>2. Located
  BY DEF Init, Located, Threads
<1>3. queue = <<>> /\ Queued = {} /\ IsInjective(queue)
  BY DEF Init, Queued, Range, IsInjective
<1>4. Conservation
  BY <1>3 DEF Init, Conservation
<1>5. QED BY <1>1, <1>2, <1>4 DEF IInv

\* An action that moves no connection keeps Conservation.
LEMMA ConservationStable ==
  ASSUME Conservation, UNCHANGED <<queue, held>>,
         \A c \in Conns : link'[c] = "none" <=> link[c] = "none"
  PROVE  Conservation'
  BY DEF Conservation, Queued

\* Taking the front of the queue keeps the invariant.
LEMMA TakeIInv ==
  ASSUME IInv, NEW t \in Threads, TakeFront(t),
         pc[t] \in {"acquiring", "woken", "waiting"}
  PROVE  IInv'
<1> USE MainIsAThread, PoolAssumption
<1> DEFINE c == Head(queue)
<1>1. /\ queue \in Seq(Conns) /\ queue # <<>> /\ IsInjective(queue)
      /\ held' = [held EXCEPT ![t] = c] /\ queue' = Tail(queue)
      /\ pc' = [pc EXCEPT ![t] = "using"]
      /\ UNCHANGED <<link, prepared, recreated, refused, rounds, dbUp>>
  BY DEF IInv, TypeOK, Conservation, TakeFront, Take, Goto
<1>2. /\ queue' \in Seq(Conns) /\ c \in Conns /\ IsInjective(queue')
      /\ Queued' = Queued \ {c} /\ c \in Queued
  BY <1>1, PopFront DEF Queued
<1>3. TypeOK'
  BY <1>1, <1>2 DEF IInv, TypeOK, PCs
<1>4. Located'
  <2>1. Located /\ TypeOK BY DEF IInv
  <2>2. QED BY <2>1, <1>1, <1>2 DEF Located, TypeOK
<1>5. Conservation'
  <2> USE <1>1, <1>2 DEF IInv, TypeOK
  <2>1. held[t] = NoConn /\ \A s \in Threads : held[s] # c
    BY DEF Located, Conservation
  <2>2. \A s \in Threads : held'[s] = IF s = t THEN c ELSE held[s]
    OBVIOUS
  <2>3. \A s, u \in Threads : held'[s] = held'[u] /\ held'[s] # NoConn => s = u
    BY <2>1, <2>2 DEF Conservation
  <2>4. \A s \in Threads : held'[s] \notin Queued'
    BY <2>1, <2>2 DEF Conservation
  <2>5. \A d \in Conns :
          (d \in Queued' \/ \E s \in Threads : held'[s] = d)
            <=> (d \in Queued \/ \E s \in Threads : held[s] = d)
    BY <2>1, <2>2
  <2>6. QED BY <2>3, <2>4, <2>5 DEF Conservation
<1>6. QED BY <1>3, <1>4, <1>5 DEF IInv

\* Giving the held connection back keeps the invariant.
LEMMA PushIInv ==
  ASSUME IInv, NEW t \in Threads, Push(t)
  PROVE  IInv'
<1> USE MainIsAThread, PoolAssumption
<1> DEFINE c == held[t]
<1>1. /\ pc[t] = "pushing" /\ queue' = Append(queue, c)
      /\ held' = [held EXCEPT ![t] = NoConn]
      /\ pc' = [pc EXCEPT ![t] = "notifying"]
      /\ UNCHANGED <<link, prepared, recreated, refused, rounds, dbUp>>
  BY DEF Push, PushInto, Goto
<1>2. c \in Conns /\ c \notin Queued
  BY <1>1 DEF IInv, TypeOK, Located, Conservation
<1>3. /\ queue' \in Seq(Conns) /\ IsInjective(queue')
      /\ Queued' = Queued \cup {c}
  BY <1>1, <1>2, PushBack DEF IInv, TypeOK, Conservation, Queued
<1>4. TypeOK'
  BY <1>1, <1>3 DEF IInv, TypeOK, PCs
<1>5. Located'
  BY <1>1 DEF IInv, TypeOK, Located
<1>6. Conservation'
  <2> USE <1>1, <1>2, <1>3 DEF IInv, TypeOK
  <2>1. \A s \in Threads : held'[s] = IF s = t THEN NoConn ELSE held[s]
    OBVIOUS
  <2>2. \A s, u \in Threads : held'[s] = held'[u] /\ held'[s] # NoConn => s = u
    BY <2>1 DEF Conservation
  <2>3. \A s \in Threads : held'[s] \notin Queued'
    <3>1. NoConn \notin Queued'
      BY DEF Queued, Range
    <3>2. QED BY <2>1, <3>1 DEF Conservation
  <2>4. \A d \in Conns :
          (d \in Queued' \/ \E s \in Threads : held'[s] = d)
            <=> (d \in Queued \/ \E s \in Threads : held[s] = d)
    BY <2>1
  <2>5. QED BY <2>2, <2>3, <2>4 DEF Conservation
<1>7. QED BY <1>4, <1>5, <1>6 DEF IInv

\* Start-up keeps the invariant.
LEMMA StartupIInv ==
  ASSUME IInv, Startup
  PROVE  IInv'
<1> USE MainIsAThread, PoolAssumption
<1>1. ASSUME NEW c \in Conns, Construct(c) PROVE IInv'
  <2>1. /\ pc[Main] = "construct" /\ link[c] = "none"
        /\ link' = [link EXCEPT ![c] = "open"] /\ queue' = Append(queue, c)
        /\ UNCHANGED <<held, prepared, recreated, refused, rounds, dbUp>>
        /\ pc' = [pc EXCEPT ![Main] = "acquiring"] \/ pc' = pc
    BY <1>1 DEF Construct, Goto
  <2>2. c \notin Queued /\ \A s \in Threads : held[s] # c
    BY <2>1 DEF IInv, Conservation
  <2>3. /\ queue' \in Seq(Conns) /\ IsInjective(queue')
        /\ Queued' = Queued \cup {c}
    BY <2>1, <2>2, PushBack DEF IInv, TypeOK, Conservation, Queued
  <2>4. TypeOK'
    BY <2>1, <2>3 DEF IInv, TypeOK, PCs, Links
  <2>5. Located'
    BY <2>1 DEF IInv, TypeOK, Located
  <2>6. Conservation'
    BY <2>1, <2>2, <2>3 DEF IInv, TypeOK, Conservation
  <2>7. QED BY <2>4, <2>5, <2>6 DEF IInv
<1>2. CASE ConstructThrows
  <2>1. /\ pc[Main] = "construct" /\ queue' = <<>>
        /\ link' = [c \in Conns |-> "none"]
        /\ pc' = [pc EXCEPT ![Main] = "exited"]
        /\ UNCHANGED <<held, prepared, recreated, refused, rounds, dbUp>>
    BY <1>2 DEF ConstructThrows, Goto
  <2>2. TypeOK'
    BY <2>1 DEF IInv, TypeOK, PCs, Links
  <2>3. Located'
    BY <2>1 DEF IInv, TypeOK, Located
  <2>4. Queued' = {} /\ IsInjective(queue')
    BY <2>1 DEF Queued, Range, IsInjective
  <2>5. \A t \in Threads : held[t] = NoConn
    BY <2>1 DEF IInv, TypeOK, Located, Threads
  <2>6. Conservation'
    BY <2>1, <2>4, <2>5 DEF Conservation
  <2>7. QED BY <2>2, <2>3, <2>6 DEF IInv
<1>3. CASE Prepare \/ PrepareRefused
  <2>1. held[Main] \in Conns /\ link[held[Main]] # "none"
    BY <1>3 DEF Prepare, PrepareRefused, IInv, TypeOK, Located, Conservation
  <2>2. TypeOK'
    BY <1>3, <2>1 DEF Prepare, PrepareRefused, Goto, IInv, TypeOK, PCs, Links
  <2>3. Located'
    BY <1>3 DEF Prepare, PrepareRefused, Goto, IInv, TypeOK, Located
  <2>4. \A c \in Conns : link'[c] = "none" <=> link[c] = "none"
    BY <1>3, <2>1 DEF Prepare, PrepareRefused, IInv, TypeOK
  <2>5. Conservation'
    BY <1>3, <2>4, ConservationStable DEF Prepare, PrepareRefused, IInv
  <2>6. QED BY <2>2, <2>3, <2>5 DEF IInv
<1>4. QED BY <1>1, <1>2, <1>3 DEF Startup

\* The steps that move no connection keep the invariant.
Local(t) ==
  \/ Wait(t) \/ SpuriousWakeup(t) \/ KeepOpen(t) \/ Recreate(t)
  \/ RecreateFails(t) \/ Notify(t)
  \/ t \in Handlers /\ (RunStatement(t) \/ Call(t))

LEMMA LocalIInv ==
  ASSUME IInv, NEW t \in Threads, Local(t)
  PROVE  IInv'
<1> USE MainIsAThread, PoolAssumption
<1>1. CASE Wait(t) \/ SpuriousWakeup(t) \/ KeepOpen(t) \/ (t \in Handlers /\ Call(t))
  <2>1. TypeOK'
    BY <1>1 DEF Wait, SpuriousWakeup, KeepOpen, Call, Goto, IInv, TypeOK, PCs
  <2>2. Located'
    BY <1>1 DEF Wait, SpuriousWakeup, KeepOpen, Call, Goto, IInv, TypeOK, Located
  <2>3. Conservation'
    BY <1>1, ConservationStable DEF Wait, SpuriousWakeup, KeepOpen, Call, IInv
  <2>4. QED BY <2>1, <2>2, <2>3 DEF IInv
<1>2. CASE Recreate(t)
  <2>1. held[t] \in Conns
    BY <1>2 DEF Recreate, IInv, TypeOK, Located
  <2>2. TypeOK'
    BY <1>2, <2>1 DEF Recreate, Goto, IInv, TypeOK, PCs, Links
  <2>3. Located'
    BY <1>2 DEF Recreate, Goto, IInv, TypeOK, Located
  <2>4. Conservation'
    BY <1>2, <2>1, ConservationStable DEF Recreate, IInv, TypeOK
  <2>5. QED BY <2>2, <2>3, <2>4 DEF IInv
<1>3. CASE RecreateFails(t)
  <2>1. TypeOK'
    BY <1>3 DEF RecreateFails, NotRecreated, Goto, IInv, TypeOK, PCs
  <2>2. Located'
    BY <1>3 DEF RecreateFails, NotRecreated, Goto, IInv, TypeOK, Located
  <2>3. Conservation'
    BY <1>3, ConservationStable DEF RecreateFails, NotRecreated, IInv
  <2>4. QED BY <2>1, <2>2, <2>3 DEF IInv
<1>4. CASE Notify(t)
  <2>1. /\ pc[t] = "notifying" /\ UNCHANGED <<queue, held, link, prepared, recreated, refused, dbUp>>
        /\ rounds' \in Nat
    BY <1>4 DEF Notify, NotifyWhen, IInv, TypeOK
  <2>2. Resume(t) \in {"idle", "serving", "acquiring"} /\ (Resume(t) = "serving" => t = Main)
        /\ (Resume(t) = "idle" => t # Main)
    BY DEF Resume
  <2>3. \/ pc' = [pc EXCEPT ![t] = Resume(t)]
        \/ \E w \in Threads :
             pc[w] = "waiting" /\ pc' = [pc EXCEPT ![t] = Resume(t), ![w] = "woken"]
    BY <1>4 DEF Notify, NotifyWhen, Goto, Waiting, At
  <2>4. TypeOK'
    BY <2>1, <2>2, <2>3 DEF IInv, TypeOK, PCs
  <2>5. Located'
    BY <2>1, <2>2, <2>3 DEF IInv, TypeOK, Located
  <2>6. Conservation'
    BY <2>1, ConservationStable DEF IInv
  <2>7. QED BY <2>4, <2>5, <2>6 DEF IInv
<1>5. CASE t \in Handlers /\ RunStatement(t)
  <2>1. held[t] \in Conns
    BY <1>5 DEF RunStatement, IInv, TypeOK, Located
  <2>2. TypeOK'
    BY <1>5, <2>1 DEF RunStatement, Goto, IInv, TypeOK, PCs, Links
  <2>3. Located'
    BY <1>5 DEF RunStatement, Goto, IInv, TypeOK, Located
  <2>4. Conservation'
    BY <1>5, <2>1, ConservationStable DEF RunStatement, IInv, TypeOK
  <2>5. QED BY <2>2, <2>3, <2>4 DEF IInv
<1>6. QED BY <1>1, <1>2, <1>3, <1>4, <1>5 DEF Local

\* Postgres going away and coming back keeps the invariant.
LEMMA DbIInv ==
  ASSUME IInv, DbDown \/ DbRestart
  PROVE  IInv'
<1> USE PoolAssumption
<1>1. UNCHANGED <<queue, pc, held, prepared, recreated, refused, rounds>> /\ dbUp' \in BOOLEAN
  BY DEF DbDown, DbRestart
<1>2. /\ link' \in [Conns -> Links]
      /\ \A c \in Conns : link'[c] = "none" <=> link[c] = "none"
  BY DEF DbDown, DbRestart, IInv, TypeOK, Links
<1>3. TypeOK' /\ Located'
  BY <1>1, <1>2 DEF IInv, TypeOK, Located
<1>4. Conservation'
  BY <1>1, <1>2, ConservationStable DEF IInv
<1>5. QED BY <1>3, <1>4 DEF IInv

\* What a step of the pool can be, for the case splits below.
LEMMA StepKinds ==
  ASSUME [Next]_vars
  PROVE  \/ Startup \/ DbDown \/ DbRestart \/ UNCHANGED vars
         \/ \E t \in Threads :
              \/ Push(t) \/ Local(t)
              \/ TakeFront(t) /\ pc[t] \in {"acquiring", "woken", "waiting"}
              \/ t \in Handlers /\ Timeout(t) /\ ~TakeFront(t)
  BY MainIsAThread DEF Next, Step, Local, Acquire, Timeout

\* Timing out without a connection keeps the invariant.
LEMMA TimeoutIInv ==
  ASSUME IInv, NEW t \in Handlers, Timeout(t), ~TakeFront(t)
  PROVE  IInv'
<1> USE MainIsAThread, PoolAssumption
<1>1. /\ pc[t] \in {"waiting", "woken"} /\ pc' = [pc EXCEPT ![t] = "idle"]
      /\ UNCHANGED <<queue, held, link, prepared, recreated, refused, rounds, dbUp>>
  BY DEF Timeout, Goto
<1>2. TypeOK'
  BY <1>1 DEF IInv, TypeOK, PCs
<1>3. Located'
  BY <1>1 DEF IInv, TypeOK, Located
<1>4. Conservation'
  BY <1>1, ConservationStable DEF IInv
<1>5. QED BY <1>2, <1>3, <1>4 DEF IInv

LEMMA NextIInv == IInv /\ [Next]_vars => IInv'
<1> SUFFICES ASSUME IInv, [Next]_vars PROVE IInv'
  OBVIOUS
<1>1. CASE Startup
  BY <1>1, StartupIInv
<1>2. CASE DbDown \/ DbRestart
  BY <1>2, DbIInv
<1>3. ASSUME NEW t \in Threads, Push(t) \/ Local(t) PROVE IInv'
  BY <1>3, PushIInv, LocalIInv
<1>4. ASSUME NEW t \in Threads, TakeFront(t),
             pc[t] \in {"acquiring", "woken", "waiting"}
      PROVE IInv'
  BY <1>4, TakeIInv
<1>5. ASSUME NEW t \in Handlers, Timeout(t), ~TakeFront(t) PROVE IInv'
  BY <1>5, TimeoutIInv
<1>6. CASE UNCHANGED vars
  BY <1>6 DEF vars, IInv, TypeOK, Located, Conservation, Queued
<1>7. QED BY <1>1, <1>2, <1>3, <1>4, <1>5, <1>6, StepKinds

LEMMA InvariantHolds == Spec => []IInv
  BY InitIInv, NextIInv, PTL DEF Spec

\* Every variable of the pool keeps its type.
THEOREM TypeCorrect == Spec => []TypeOK
<1>1. IInv => TypeOK
  BY DEF IInv
<1>2. QED BY <1>1, InvariantHolds, PTL

\* Whatever the numbers of connections and threads and wherever Postgres goes
\* away, no connection is shared, leaked or handed out before it exists.
THEOREM ConnectionsConserved == Spec => []Conservation
<1>1. IInv => Conservation
  BY DEF IInv
<1>2. QED BY <1>1, InvariantHolds, PTL

-------------------------------------------------------------------------------
(* No wake-up is lost.                                                     *)

\* Counting the threads that are on their way to a connection.
LEMMA InFlightFinite ==
  /\ IsFiniteSet(InFlight) /\ Cardinality(InFlight) \in Nat
  /\ IsFiniteSet(InFlight') /\ Cardinality(InFlight') \in Nat
<1>1. InFlight \subseteq Threads /\ InFlight' \subseteq Threads
  BY DEF InFlight, At
<1>2. QED BY <1>1, MainIsAThread, FS_Subset, FS_CardinalityType

\* A step that leaves the queue, the sleepers and the threads in flight alone.
LEMMA WakeupStable ==
  ASSUME NoLostWakeup, queue' = queue, Waiting' = Waiting, InFlight' = InFlight
  PROVE  NoLostWakeup'
  BY DEF NoLostWakeup

LEMMA TakeWakeup ==
  ASSUME IInv, NoLostWakeup, NEW t \in Threads, TakeFront(t),
         pc[t] \in {"acquiring", "woken", "waiting"}
  PROVE  NoLostWakeup'
<1>1. /\ queue \in Seq(Conns) /\ queue # <<>> /\ queue' = Tail(queue)
      /\ pc \in [Threads -> PCs] /\ pc' = [pc EXCEPT ![t] = "using"]
  BY DEF IInv, TypeOK, TakeFront, Take, Goto
<1>2. Len(queue') = Len(queue) - 1 /\ Len(queue) \in Nat
  BY <1>1, PopFront DEF IInv, Conservation
<1>3. Waiting' \subseteq Waiting
  BY <1>1 DEF Waiting, At
<1>4. CASE pc[t] = "woken"
  <2>1. t \in InFlight /\ InFlight' = InFlight \ {t}
    BY <1>1, <1>4 DEF InFlight, At
  <2>2. Cardinality(InFlight') = Cardinality(InFlight) - 1
    BY <2>1, InFlightFinite, FS_RemoveElement
  <2>3. QED BY <1>2, <1>3, <2>2, InFlightFinite DEF NoLostWakeup
<1>5. CASE pc[t] # "woken"
  <2>1. InFlight' = InFlight
    BY <1>1, <1>5 DEF InFlight, At
  <2>2. QED BY <1>2, <1>3, <2>1, InFlightFinite DEF NoLostWakeup
<1>6. QED BY <1>4, <1>5

LEMMA PushWakeup ==
  ASSUME IInv, NoLostWakeup, NEW t \in Threads, Push(t)
  PROVE  NoLostWakeup'
<1>1. /\ queue \in Seq(Conns) /\ queue' = Append(queue, held[t])
      /\ pc \in [Threads -> PCs] /\ pc[t] = "pushing"
      /\ pc' = [pc EXCEPT ![t] = "notifying"]
  BY DEF IInv, TypeOK, Push, PushInto, Goto
<1>2. held[t] \in Conns /\ held[t] \notin Range(queue) /\ IsInjective(queue)
  BY <1>1 DEF IInv, TypeOK, Located, Conservation, Queued
<1>3. Len(queue') = Len(queue) + 1 /\ Len(queue) \in Nat
  BY <1>1, <1>2, PushBack, LenProperties
<1>4. Waiting' = Waiting /\ t \notin InFlight /\ InFlight' = InFlight \cup {t}
  BY <1>1 DEF Waiting, InFlight, At
<1>5. Cardinality(InFlight') = Cardinality(InFlight) + 1
  BY <1>4, InFlightFinite, FS_AddElement
<1>6. QED BY <1>3, <1>4, <1>5, InFlightFinite DEF NoLostWakeup

LEMMA NotifyWakeup ==
  ASSUME IInv, NoLostWakeup, NEW t \in Threads, Notify(t)
  PROVE  NoLostWakeup'
<1>1. pc \in [Threads -> PCs] /\ pc[t] = "notifying" /\ queue' = queue
  BY DEF IInv, TypeOK, Notify, NotifyWhen
<1>2. Resume(t) \in {"idle", "serving", "acquiring"}
  BY DEF Resume
<1>3. CASE Waiting = {}
  <2>1. pc' = [pc EXCEPT ![t] = Resume(t)]
    BY <1>3 DEF Notify, NotifyWhen, Goto
  <2>2. Waiting' = {}
    BY <1>1, <1>2, <1>3, <2>1 DEF Waiting, At
  <2>3. QED BY <2>2 DEF NoLostWakeup
<1>4. CASE Waiting # {}
  <2>1. PICK w \in Waiting : pc' = [pc EXCEPT ![t] = Resume(t), ![w] = "woken"]
    BY <1>4 DEF Notify, NotifyWhen
  <2>2. w \in Threads /\ pc[w] = "waiting" /\ w # t
    BY <1>1, <2>1 DEF Waiting, At
  <2>3. /\ t \in InFlight /\ w \notin InFlight
        /\ InFlight' = (InFlight \ {t}) \cup {w}
    BY <1>1, <1>2, <2>1, <2>2 DEF InFlight, At
  <2>4. Cardinality(InFlight') = Cardinality(InFlight)
    <3>1. /\ IsFiniteSet(InFlight \ {t})
          /\ Cardinality(InFlight \ {t}) = Cardinality(InFlight) - 1
      BY <2>3, InFlightFinite, FS_RemoveElement
    <3>2. Cardinality(InFlight') = Cardinality(InFlight \ {t}) + 1
      BY <2>3, <3>1, FS_AddElement
    <3>3. QED BY <3>1, <3>2, InFlightFinite
  <2>5. QED BY <1>1, <1>4, <2>4 DEF NoLostWakeup
<1>5. QED BY <1>3, <1>4

LEMMA LocalWakeup ==
  ASSUME IInv, NoLostWakeup, NEW t \in Threads, Local(t)
  PROVE  NoLostWakeup'
<1>1. pc \in [Threads -> PCs] /\ queue \in Seq(Conns)
  BY DEF IInv, TypeOK
<1>2. CASE Wait(t)
  <2>1. Len(queue') = 0
    BY <1>2 DEF Wait
  <2>2. QED BY <2>1, InFlightFinite DEF NoLostWakeup
<1>3. CASE SpuriousWakeup(t)
  <2>1. t \in Waiting /\ t \notin InFlight /\ InFlight' = InFlight \cup {t} /\ queue' = queue
    BY <1>1, <1>3 DEF SpuriousWakeup, Goto, Waiting, InFlight, At
  <2>2. Cardinality(InFlight') = Cardinality(InFlight) + 1
    BY <2>1, InFlightFinite, FS_AddElement
  <2>3. Len(queue) \in Nat
    BY <1>1, LenProperties
  <2>4. QED BY <2>1, <2>2, <2>3, InFlightFinite DEF NoLostWakeup
<1>4. CASE Notify(t)
  BY <1>4, NotifyWakeup
<1>5. CASE \/ KeepOpen(t) \/ Recreate(t) \/ RecreateFails(t)
           \/ t \in Handlers /\ (RunStatement(t) \/ Call(t))
  <2>1. /\ queue' = queue /\ pc[t] \in {"returning", "using", "idle"}
        /\ \E l \in {"pushing", "returning", "acquiring"} : pc' = [pc EXCEPT ![t] = l]
    BY <1>5 DEF KeepOpen, Recreate, RecreateFails, NotRecreated, RunStatement, Call, Goto
  <2>2. Waiting' = Waiting /\ InFlight' = InFlight
    BY <1>1, <2>1 DEF Waiting, InFlight, At
  <2>3. QED BY <2>1, <2>2, WakeupStable
<1>6. QED BY <1>2, <1>3, <1>4, <1>5 DEF Local

LEMMA StartupWakeup ==
  ASSUME IInv, NoLostWakeup, Startup
  PROVE  NoLostWakeup'
<1> USE MainIsAThread
<1>1. pc \in [Threads -> PCs]
  BY DEF IInv, TypeOK
<1>2. CASE Prepare \/ PrepareRefused
  <2>1. queue' = queue /\ pc[Main] = "using" /\ pc' = [pc EXCEPT ![Main] = "returning"]
    BY <1>2 DEF Prepare, PrepareRefused, Goto
  <2>2. Waiting' = Waiting /\ InFlight' = InFlight
    BY <1>1, <2>1 DEF Waiting, InFlight, At
  <2>3. QED BY <2>1, <2>2, WakeupStable
<1>3. CASE ConstructThrows \/ \E c \in Conns : Construct(c)
  <2>1. /\ pc[Main] = "construct"
        /\ \E l \in {"construct", "acquiring", "exited"} : pc' = [pc EXCEPT ![Main] = l]
    BY <1>1, <1>3 DEF ConstructThrows, Construct, Goto
  <2>2. \A t \in Threads : pc'[t] # "waiting"
    BY <1>1, <2>1 DEF IInv, Located, Threads
  <2>3. QED BY <2>2 DEF NoLostWakeup, Waiting, At
<1>4. QED BY <1>2, <1>3 DEF Startup

\* No execution strands a returned connection in the queue while a thread sleeps
\* in Acquire, although notify_one runs outside the mutex.
THEOREM WakeupsNotLost == Spec => []NoLostWakeup
<1>1. Init => NoLostWakeup
  <2> SUFFICES ASSUME Init PROVE Waiting = {}
    BY DEF NoLostWakeup
  <2>1. QED BY DEF Init, Waiting, At
<1>2. IInv /\ NoLostWakeup /\ [Next]_vars => NoLostWakeup'
  <2> SUFFICES ASSUME IInv, NoLostWakeup, [Next]_vars PROVE NoLostWakeup'
    OBVIOUS
  <2>1. CASE DbDown \/ DbRestart \/ UNCHANGED vars
    <3>1. queue' = queue /\ pc' = pc
      BY <2>1 DEF DbDown, DbRestart, vars
    <3>2. QED BY <3>1, WakeupStable DEF Waiting, InFlight, At
  <2>2. ASSUME NEW t \in Handlers, Timeout(t), ~TakeFront(t) PROVE NoLostWakeup'
    <3>1. Len(queue') = 0
      BY <2>2 DEF Timeout
    <3>2. QED BY <3>1, InFlightFinite DEF NoLostWakeup
  <2>3. QED BY <2>1, <2>2, StartupWakeup, PushWakeup, LocalWakeup, TakeWakeup, StepKinds
<1>3. QED BY <1>1, <1>2, InvariantHolds, PTL DEF Spec

-------------------------------------------------------------------------------
(* The pool implements ConnLease.                                          *)

Closed == pc[Main] \in {"construct", "exited"}
Free == IF Closed THEN {} ELSE Queued

\* A step that moves no connection is a stuttering step of the lease table.
LEMMA StutterLease ==
  ASSUME UNCHANGED <<queue, held>>, Closed' = Closed
  PROVE  UNCHANGED <<Free, held>>
  BY DEF Free, Queued

\* Whoever is inside Acquire, a transaction or ReturnConnection, the pool is open.
LEMMA OpenWhenBusy ==
  ASSUME IInv, NEW t \in Threads, pc[t] \notin {"idle", "construct", "exited"}
  PROVE  ~Closed
  BY MainIsAThread DEF IInv, Located, Threads, Closed

LEMMA TakeLease ==
  ASSUME IInv, NEW t \in Threads, TakeFront(t),
         pc[t] \in {"acquiring", "woken", "waiting"}
  PROVE  \E c \in Conns : Lease!Grant(t, c)
<1> DEFINE c == Head(queue)
<1>1. /\ queue \in Seq(Conns) /\ queue # <<>> /\ IsInjective(queue)
      /\ held' = [held EXCEPT ![t] = c] /\ queue' = Tail(queue)
      /\ pc \in [Threads -> PCs] /\ pc' = [pc EXCEPT ![t] = "using"]
  BY DEF IInv, TypeOK, Conservation, TakeFront, Take, Goto
<1>2. c \in Conns /\ Queued' = Queued \ {c} /\ c \in Queued
  BY <1>1, PopFront DEF Queued
<1>3. ~Closed /\ ~Closed'
  BY <1>1, OpenWhenBusy, MainIsAThread DEF Closed
<1>4. held[t] = NoConn
  BY DEF IInv, Located
<1>5. Lease!Grant(t, c)
  BY <1>1, <1>2, <1>3, <1>4 DEF Lease!Grant, Closed
<1>6. QED BY <1>2, <1>5

LEMMA PushLease ==
  ASSUME IInv, NEW t \in Threads, Push(t)
  PROVE  Lease!GiveBack(t)
<1>1. /\ queue \in Seq(Conns) /\ queue' = Append(queue, held[t])
      /\ held' = [held EXCEPT ![t] = NoConn]
      /\ pc \in [Threads -> PCs] /\ pc[t] = "pushing"
      /\ pc' = [pc EXCEPT ![t] = "notifying"]
  BY DEF IInv, TypeOK, Push, PushInto, Goto
<1>2. /\ held[t] \in Conns /\ held[t] # NoConn
      /\ held[t] \notin Range(queue) /\ IsInjective(queue)
  BY <1>1 DEF IInv, TypeOK, Located, Conservation, Queued
<1>3. Queued' = Queued \cup {held[t]}
  BY <1>1, <1>2, PushBack DEF Queued
<1>4. ~Closed /\ ~Closed'
  BY <1>1, OpenWhenBusy, MainIsAThread DEF Closed
<1>5. QED BY <1>1, <1>2, <1>3, <1>4 DEF Lease!GiveBack, Closed

\* The constructor's last connection publishes the queue: all are free at once.
LEMMA ConstructLease ==
  ASSUME IInv, NEW c \in Conns, Construct(c)
  PROVE  Lease!Fill \/ UNCHANGED <<Free, held>>
<1> USE MainIsAThread
<1>1. /\ queue \in Seq(Conns) /\ queue' = Append(queue, c) /\ link[c] = "none"
      /\ pc \in [Threads -> PCs] /\ pc[Main] = "construct" /\ held' = held
  BY DEF IInv, TypeOK, Construct
<1>2. \A t \in Threads : held[t] = NoConn
  BY <1>1 DEF IInv, Located, Threads
<1>3. CASE pc' = pc
  BY <1>1, <1>3 DEF Free, Closed
<1>4. CASE /\ pc' = [pc EXCEPT ![Main] = "acquiring"]
           /\ \A d \in Conns \ {c} : link[d] # "none"
  <2>1. c \notin Range(queue) /\ IsInjective(queue)
    BY <1>1 DEF IInv, Conservation, Queued
  <2>2. Queued' = Queued \cup {c}
    BY <1>1, <2>1, PushBack DEF Queued
  <2>3. \A d \in Conns \ {c} : d \in Queued
    BY <1>2, <1>4, PoolAssumption DEF IInv, Conservation
  <2>4. Queued' \subseteq Conns
    BY <1>1, <2>2 DEF Queued, Range
  <2>5. Queued' = Conns
    BY <2>2, <2>3, <2>4
  <2>6. Closed /\ ~Closed'
    BY <1>1, <1>4 DEF Closed
  <2>7. QED BY <1>1, <1>2, <2>5, <2>6 DEF Lease!Fill, Closed
<1>5. QED BY <1>3, <1>4 DEF Construct, Goto

LEMMA StartupLease ==
  ASSUME IInv, Startup
  PROVE  Lease!Fill \/ UNCHANGED <<Free, held>>
<1> USE MainIsAThread
<1>1. pc \in [Threads -> PCs]
  BY DEF IInv, TypeOK
<1>2. CASE ConstructThrows
  BY <1>1, <1>2 DEF ConstructThrows, Goto, Free, Closed
<1>3. CASE Prepare \/ PrepareRefused
  BY <1>1, <1>3, StutterLease DEF Prepare, PrepareRefused, Goto, Closed
<1>4. QED BY <1>2, <1>3, ConstructLease DEF Startup

LEMMA LocalLease ==
  ASSUME IInv, NEW t \in Threads, Local(t)
  PROVE  UNCHANGED <<Free, held>>
<1>1. pc \in [Threads -> PCs] /\ UNCHANGED <<queue, held>>
  BY DEF IInv, TypeOK, Local, Wait, SpuriousWakeup, KeepOpen, Recreate,
         RecreateFails, NotRecreated, Notify, NotifyWhen, RunStatement, Call
<1>2. Resume(t) \notin {"construct", "exited"}
  BY DEF Resume
<1>3. pc[t] \notin {"construct", "exited"} /\ (pc[t] = "idle" => t \in Handlers)
  BY DEF IInv, Located, Local, Wait, SpuriousWakeup, KeepOpen, Recreate,
         RecreateFails, NotRecreated, Notify, NotifyWhen, RunStatement, Call
<1>4. \A s \in Threads :
        \/ pc'[s] = pc[s]
        \/ pc[s] \notin {"construct", "exited"} /\ pc'[s] \notin {"construct", "exited"}
  BY <1>1, <1>2, <1>3
     DEF Local, Wait, SpuriousWakeup, KeepOpen, Recreate, RecreateFails,
         NotRecreated, Notify, NotifyWhen, RunStatement, Call, Goto, Waiting, At
<1>5. Closed' = Closed
  BY <1>4, MainIsAThread DEF Closed
<1>6. QED BY <1>1, <1>5, StutterLease

\* Every behaviour of the pool is one of the lease table: handles, queue, mutex,
\* condition variable and reconnection together never grant a connection twice.
THEOREM PoolImplementsLease == Spec => ImplementsLease
<1>1. Init => Lease!LeaseInit
  BY MainIsAThread DEF Init, Lease!LeaseInit
<1>2. IInv /\ [Next]_vars => [Lease!LeaseNext]_(Lease!leaseVars)
  <2> SUFFICES ASSUME IInv, [Next]_vars
               PROVE  Lease!LeaseNext \/ UNCHANGED <<Free, held>>
    BY DEF Lease!leaseVars, Free, Closed
  <2>1. CASE DbDown \/ DbRestart \/ UNCHANGED vars
    BY <2>1, StutterLease DEF DbDown, DbRestart, vars, Closed
  <2>2. ASSUME NEW t \in Handlers, Timeout(t), ~TakeFront(t)
        PROVE  UNCHANGED <<Free, held>>
    <3>1. /\ UNCHANGED <<queue, held>> /\ pc \in [Threads -> PCs]
          /\ pc' = [pc EXCEPT ![t] = "idle"]
      BY <2>2 DEF Timeout, Goto, IInv, TypeOK
    <3>2. Closed' = Closed
      BY <2>2, <3>1, PoolAssumption, MainIsAThread DEF Closed
    <3>3. QED BY <3>1, <3>2, StutterLease
  <2>3. ASSUME NEW t \in Threads, Push(t) PROVE Lease!LeaseNext
    BY <2>3, PushLease DEF Lease!LeaseNext
  <2>4. ASSUME NEW t \in Threads, TakeFront(t),
               pc[t] \in {"acquiring", "woken", "waiting"}
        PROVE  Lease!LeaseNext
    BY <2>4, TakeLease DEF Lease!LeaseNext
  <2>5. CASE Startup
    BY <2>5, StartupLease DEF Lease!LeaseNext
  <2>6. QED BY <2>1, <2>2, <2>3, <2>4, <2>5, LocalLease, StepKinds
<1>3. QED BY <1>1, <1>2, InvariantHolds, PTL DEF Spec, ImplementsLease, Lease!LeaseSpec
===============================================================================
