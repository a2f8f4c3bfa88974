--------------------------- MODULE TwoServicesProofs ---------------------------
(***************************************************************************)
(* Proofs about TwoServices, for every number of clients, commands,        *)
(* attempts and batches: a save has its effect at most once and in full    *)
(* when it reports success, and reads see what was saved.                  *)
(***************************************************************************)
EXTENDS TwoServices, TLAPS

\* c runs a command.
Busy(c) == pc[c] \in {"waiting", "sent"}

\* What the place of a client says of its command.
Located(c) ==
  /\ ~Busy(c) => attempt[c] = 0
  /\ Busy(c) =>
       /\ num[c] >= 1 /\ kind[c] \in Kinds
       /\ told[Current(c)] = IF kind[c] = "save" THEN "asked" ELSE "none"
  /\ pc[c] = "waiting" => attempt[c] < MaxAttempts
  /\ pc[c] = "waiting" /\ kind[c] = "save" => attempt[c] = 0 /\ stored[Current(c)] = 0
  /\ \A x \in known[c] : stored[x] = Parts
  /\ \A x \in Commands : seen[c][x] <= stored[x]

ClientsSound == \A c \in Clients : Located(c)

\* What a user was told is true of the database.
Truthful ==
  \A x \in Commands :
    /\ stored[x] <= Parts
    /\ x[2] > num[x[1]] => told[x] = "none"
    /\ told[x] = "none" => stored[x] = 0
    /\ told[x] = "saved" => stored[x] = Parts

\* What a call has done to the database or seen of it.
Effect(call) ==
  /\ call.for[2] <= num[call.for[1]]
  /\ call.kind = "save" =>
       /\ told[call.for] \in {"asked", "failed"}
       /\ call.res = "none" => stored[call.for] = call.part /\ call.part < Parts
       /\ call.res = "ok" => stored[call.for] = Parts
  /\ call.kind = "read" /\ call.res = "ok" =>
       \A x \in Commands : call.view[x] <= stored[x]

\* What a call, awaited or given up, is to the client whose command it serves.
Serves(call, c) ==
  Busy(c) /\ call.for = Current(c) =>
    /\ call.attempt <= attempt[c] /\ call.kind = kind[c]
    /\ call.kind = "read" /\ call.res = "ok" =>
         /\ \A x \in known[c] : call.view[x] = Parts
         /\ \A x \in Commands : seen[c][x] <= call.view[x]

CallsSound == \A call \in calls : Effect(call) /\ \A c \in Clients : Serves(call, c)

\* A save is never at work twice.
OneCallPerSave ==
  \A a, b \in calls : a.kind = "save" /\ b.kind = "save" /\ a.for = b.for => a = b

IInv == TypeOK /\ ClientsSound /\ Truthful /\ CallsSound /\ OneCallPerSave

-------------------------------------------------------------------------------
(* Commands and calls.                                                     *)

Call == [for : Commands, attempt : 1 .. MaxAttempts, kind : Kinds, part : 0 .. Parts,
         res : {"none", "ok", "notok"}, view : [Commands -> Nat]]

\* A command is a client and a number.
LEMMA CommandsArePairs ==
  /\ \A c \in Clients : \A n \in 1 .. MaxCommands[c] : <<c, n>> \in Commands
  /\ \A x \in Commands :
       /\ x = <<x[1], x[2]>> /\ x[1] \in Clients /\ x[2] \in 1 .. MaxCommands[x[1]]
       /\ x[2] \in Nat
  /\ \A c \in Clients : MaxCommands[c] \in Nat
  /\ MaxAttempts \in Nat \ {0} /\ Parts \in Nat \ {0}
<1>1. \A c \in Clients : \A n \in 1 .. MaxCommands[c] : <<c, n>> \in Commands
  BY DEF Commands
<1>2. ASSUME NEW x \in Commands
      PROVE  x = <<x[1], x[2]>> /\ x[1] \in Clients /\ x[2] \in 1 .. MaxCommands[x[1]]
  <2>1. PICK c \in Clients : x \in {c} \X (1 .. MaxCommands[c])
    BY DEF Commands
  <2>2. x = <<x[1], x[2]>> /\ x[1] = c /\ x[2] \in 1 .. MaxCommands[c]
    BY <2>1
  <2>3. QED BY <2>2
<1>3. \A c \in Clients : MaxCommands[c] \in Nat
  BY ServicesAssumption DEF ServicesAssumption
<1>4. \A x \in Commands : x[2] \in Nat
  BY <1>2, <1>3
<1>5. QED BY <1>1, <1>2, <1>3, <1>4, ServicesAssumption DEF ServicesAssumption

\* The types of the parts of a call, and of the command a client runs.
LEMMA Types ==
  ASSUME IInv
  PROVE  /\ calls \subseteq Call
         /\ \A call \in calls :
              /\ call.for \in Commands /\ call.attempt \in 1 .. MaxAttempts
              /\ call.kind \in Kinds /\ call.part \in 0 .. Parts
              /\ call.res \in {"none", "ok", "notok"} /\ call.view \in [Commands -> Nat]
         /\ \A c \in Clients : num[c] \in Nat
         /\ \A c \in Clients : Busy(c) => Current(c) \in Commands
         /\ \A c \in Clients : attempt[c] \in Nat
         /\ stored \in [Commands -> Nat] /\ told \in [Commands -> {"none", "asked", "saved", "failed"}]
<1>1. calls \subseteq Call
  BY DEF IInv, TypeOK, Call
<1>2. \A call \in calls :
              /\ call.for \in Commands /\ call.attempt \in 1 .. MaxAttempts
              /\ call.kind \in Kinds /\ call.part \in 0 .. Parts
              /\ call.res \in {"none", "ok", "notok"} /\ call.view \in [Commands -> Nat]
  BY <1>1 DEF Call
<1>3. \A c \in Clients : num[c] \in Nat /\ attempt[c] \in Nat
  BY CommandsArePairs DEF IInv, TypeOK
<1>4. \A c \in Clients : Busy(c) => Current(c) \in Commands
  BY CommandsArePairs DEF IInv, TypeOK, ClientsSound, Located, Current
<1>5. QED BY <1>1, <1>2, <1>3, <1>4 DEF IInv, TypeOK

LEMMA InitIInv == Init => IInv
<1> SUFFICES ASSUME Init PROVE IInv
  OBVIOUS
<1> USE CommandsArePairs DEF Init
<1>1. Unseen \in [Commands -> Nat] /\ \A x \in Commands : Unseen[x] = 0
  BY DEF Unseen
<1>2. TypeOK
  BY <1>1 DEF TypeOK
<1>3. ClientsSound
  BY <1>1 DEF ClientsSound, Located, Busy
<1>4. Truthful
  BY <1>1 DEF Truthful
<1>5. CallsSound /\ OneCallPerSave
  BY DEF CallsSound, OneCallPerSave
<1>6. QED BY <1>2, <1>3, <1>4, <1>5 DEF IInv

-------------------------------------------------------------------------------
(* The client keeps the invariant.                                         *)

\* Connecting, giving up, and losing the connection on a read that is retried.
LEMMA MoveIInv ==
  ASSUME IInv, NEW c \in Clients, NEW l \in {"idle", "exited", "waiting"}, Go(c, l),
         IF l = "waiting" THEN pc[c] = "sent" /\ attempt[c] < MaxAttempts /\ kind[c] = "read"
                          ELSE ~Busy(c),
         UNCHANGED <<up, stored, calls, kind, num, attempt, told, seen, known>>
  PROVE  IInv'
<1> USE Types DEF IInv
<1>1. pc' = [pc EXCEPT ![c] = l] /\ TypeOK'
  BY DEF Go, TypeOK
<1>2. \A d \in Clients : Busy(d)' <=> Busy(d)
  BY <1>1 DEF Busy, TypeOK
<1>3. ClientsSound'
  BY <1>1, <1>2 DEF ClientsSound, Located, Current, TypeOK
<1>4. Truthful' /\ OneCallPerSave'
  BY DEF Truthful, OneCallPerSave
<1>5. CallsSound'
  BY <1>2 DEF CallsSound, Effect, Serves, Current
<1>6. QED BY <1>1, <1>3, <1>4, <1>5

LEMMA CommandIInv ==
  ASSUME IInv, NEW c \in Clients, NEW k \in Kinds, Command(c, k)
  PROVE  IInv'
<1> USE Types, CommandsArePairs DEF IInv
<1> DEFINE x == <<c, num[c] + 1>>
<1>1. /\ pc[c] = "idle" /\ num[c] < MaxCommands[c] /\ pc' = [pc EXCEPT ![c] = "waiting"]
      /\ kind' = [kind EXCEPT ![c] = k] /\ num' = [num EXCEPT ![c] = @ + 1]
      /\ told' = IF k = "save" THEN [told EXCEPT ![x] = "asked"] ELSE told
      /\ known' = IF k = "save" THEN known
                  ELSE [known EXCEPT ![c] = {y \in Commands : told[y] = "saved"}]
      /\ UNCHANGED <<up, stored, calls, attempt, seen>>
  BY DEF Command, Go, Kinds
<1>2. /\ x \in Commands /\ x[1] = c /\ x[2] = num[c] + 1 /\ x[2] > num[c]
      /\ told[x] = "none" /\ stored[x] = 0
  BY <1>1 DEF Truthful
<1>3. TypeOK'
  BY <1>1, <1>2 DEF TypeOK
<1>4. /\ \A d \in Clients \ {c} : (Busy(d)' <=> Busy(d)) /\ Current(d)' = Current(d)
      /\ Busy(c)' /\ Current(c)' = x /\ ~Busy(c)
  BY <1>1 DEF Busy, Current, TypeOK
<1>5. \A d \in Clients \ {c} : Current(d) # x
  BY DEF Current
<1>6. ClientsSound'
  <2>1. \A y \in known'[c] : stored[y] = Parts
    BY <1>1 DEF ClientsSound, Located, Truthful, TypeOK
  <2>2. ASSUME NEW d \in Clients \ {c}
        PROVE  Busy(d) => told'[Current(d)] = told[Current(d)]
    BY <1>1, <1>2, <1>5 DEF TypeOK
  <2>3. k = "save" \/ k = "read"
    BY DEF Kinds
  <2>4. told'[x] = IF k = "save" THEN "asked" ELSE "none"
    BY <1>1, <1>2, <2>3
  <2>5. Located(c)'
    BY <1>1, <1>2, <1>4, <2>1, <2>4 DEF ClientsSound, Located, TypeOK
  <2>6. ASSUME NEW d \in Clients \ {c} PROVE Located(d)'
    <3>1. /\ UNCHANGED <<pc[d], kind[d], num[d], attempt[d], seen[d], known[d], stored>>
          /\ (Busy(d)' <=> Busy(d)) /\ Current(d)' = Current(d)
      BY <1>1, <1>4 DEF TypeOK
    <3>2. QED BY <2>2, <3>1 DEF ClientsSound, Located
  <2>7. QED BY <2>5, <2>6 DEF ClientsSound
<1>7. Truthful'
  BY <1>1, <1>2 DEF Truthful, TypeOK
<1>8. \A call \in calls : call.for # x
  BY <1>2 DEF CallsSound, Effect
<1>9. CallsSound'
  <2> SUFFICES ASSUME NEW call \in calls
               PROVE  Effect(call)' /\ \A d \in Clients : Serves(call, d)'
    BY <1>1 DEF CallsSound
  <2>1. call \in calls /\ call.for \in Commands /\ call.for # x
    BY <1>8
  <2>2. Effect(call)'
    <3>1. num'[call.for[1]] >= num[call.for[1]]
      BY <1>1, <2>1 DEF TypeOK
    <3>2. told'[call.for] = told[call.for]
      BY <1>1, <1>2, <1>8, <2>1
    <3>3. QED BY <1>1, <2>1, <3>1, <3>2 DEF CallsSound, Effect, TypeOK
  <2>3. ASSUME NEW d \in Clients PROVE Serves(call, d)'
    BY <1>1, <1>4, <1>8, <2>1 DEF CallsSound, Serves, TypeOK
  <2>4. QED BY <2>2, <2>3
<1>10. OneCallPerSave'
  BY <1>1 DEF OneCallPerSave
<1>11. QED BY <1>3, <1>6, <1>7, <1>9, <1>10

LEMMA SendIInv ==
  ASSUME IInv, NEW c \in Clients, Send(c)
  PROVE  IInv'
<1> USE Types, CommandsArePairs DEF IInv
<1>1. /\ pc[c] = "waiting" /\ pc' = [pc EXCEPT ![c] = "sent"]
      /\ attempt' = [attempt EXCEPT ![c] = @ + 1]
      /\ UNCHANGED <<up, stored, kind, num, told, seen, known>>
  BY DEF Send, Go
<1>2. /\ Busy(c) /\ Current(c) \in Commands /\ kind[c] \in Kinds
      /\ attempt[c] + 1 \in 1 .. MaxAttempts
      /\ kind[c] = "save" => told[Current(c)] = "asked" /\ attempt[c] = 0
                             /\ stored[Current(c)] = 0
      /\ Current(c)[1] = c /\ Current(c)[2] = num[c]
  BY <1>1 DEF Busy, ClientsSound, Located, Current
<1>3. Unseen \in [Commands -> Nat]
  BY DEF Unseen
<1>4. PICK new \in Call :
        /\ calls' = calls \cup {new}
        /\ new.for = Current(c) /\ new.attempt = attempt[c] + 1 /\ new.kind = kind[c]
        /\ new.part = 0 /\ new.res = "none"
  <2> DEFINE r == [for |-> Current(c), attempt |-> attempt[c] + 1, kind |-> kind[c],
                   part |-> 0, res |-> "none", view |-> Unseen]
  <2>1. r \in Call
    BY <1>2, <1>3, CommandsArePairs DEF Call
  <2>2. calls' = calls \cup {r}
    BY DEF Send
  <2>3. QED BY <2>1, <2>2
<1>5. TypeOK'
  BY <1>1, <1>2, <1>4 DEF TypeOK, Call
<1>6. /\ \A d \in Clients : (Busy(d)' <=> Busy(d)) /\ Current(d)' = Current(d)
      /\ \A d \in Clients : attempt'[d] >= attempt[d]
  BY <1>1 DEF Busy, Current, TypeOK
<1>7. ClientsSound'
  <2>1. ASSUME NEW d \in Clients \ {c} PROVE Located(d)'
    <3>1. /\ UNCHANGED <<pc[d], kind[d], num[d], attempt[d], seen[d], known[d], stored, told>>
          /\ (Busy(d)' <=> Busy(d)) /\ Current(d)' = Current(d)
      BY <1>1, <1>6 DEF TypeOK
    <3>2. QED BY <3>1 DEF ClientsSound, Located
  <2>2. Located(c)'
    BY <1>1, <1>2, <1>6 DEF ClientsSound, Located, TypeOK
  <2>3. QED BY <2>1, <2>2 DEF ClientsSound
<1>8. Truthful'
  BY <1>1 DEF Truthful
<1>9. CallsSound'
  <2>1. ASSUME NEW call \in calls PROVE Effect(call)' /\ \A d \in Clients : Serves(call, d)'
    <3>1. Effect(call)'
      BY <1>1 DEF CallsSound, Effect
    <3>2. ASSUME NEW d \in Clients PROVE Serves(call, d)'
      <4>1. attempt'[d] \in Nat /\ attempt'[d] >= attempt[d] /\ call.attempt \in Nat
        BY <1>1, <1>6 DEF TypeOK
      <4>2. QED BY <1>1, <1>6, <4>1 DEF CallsSound, Serves
    <3>3. QED BY <3>1, <3>2
  <2>2. Effect(new)'
    BY <1>1, <1>2, <1>4 DEF Effect, TypeOK
  <2>3. ASSUME NEW d \in Clients, Current(d) = Current(c) PROVE Serves(new, d)'
    <3>1. d = c
      BY <2>3 DEF Current
    <3>2. attempt'[c] = attempt[c] + 1
      BY <1>1 DEF TypeOK
    <3>3. QED BY <1>1, <1>4, <1>6, <3>1, <3>2 DEF Serves
  <2>4. \A d \in Clients : Serves(new, d)'
    BY <1>4, <1>6, <2>3 DEF Serves
  <2>5. QED BY <1>4, <2>1, <2>2, <2>4 DEF CallsSound
<1>10. OneCallPerSave'
  <2>1. \A call \in calls : ~(kind[c] = "save" /\ call.for = Current(c))
    BY <1>2 DEF CallsSound, Serves
  <2>2. QED BY <1>1, <1>4, <2>1 DEF OneCallPerSave
<1>11. QED BY <1>5, <1>7, <1>8, <1>9, <1>10

\* A command ends: its save is reported, or its read shown.
LEMMA EndIInv ==
  ASSUME IInv, NEW c \in Clients, Busy(c), Ends(c), UNCHANGED <<up, stored>>,
         calls' \subseteq calls,
         NEW t \in {"saved", "failed"},
         told' = told \/ (kind[c] = "save" /\ told' = [told EXCEPT ![Current(c)] = t]),
         kind[c] = "save" => told' # told,
         t = "saved" =>
           /\ stored[Current(c)] = Parts
           /\ \A call \in calls' : call.kind = "save" => call.for # Current(c),
         NEW v \in [Commands -> Nat], seen' = [seen EXCEPT ![c] = v],
         \A x \in Commands : v[x] <= stored[x]
  PROVE  IInv'
<1> USE Types, CommandsArePairs DEF IInv
<1>1. /\ pc' = [pc EXCEPT ![c] = "idle"] /\ kind' = [kind EXCEPT ![c] = "none"]
      /\ attempt' = [attempt EXCEPT ![c] = 0] /\ known' = [known EXCEPT ![c] = {}]
      /\ num' = num
  BY DEF Ends, Go
<1>2. TypeOK'
  BY <1>1 DEF TypeOK
<1>3. /\ \A d \in Clients \ {c} : (Busy(d)' <=> Busy(d))
      /\ \A d \in Clients : Current(d)' = Current(d)
      /\ ~Busy(c)'
  BY <1>1 DEF Busy, Current, TypeOK
<1>4. \A x \in Commands : x # Current(c) => told'[x] = told[x]
  BY DEF TypeOK
<1>5. ClientsSound'
  <2>1. ASSUME NEW d \in Clients \ {c} PROVE Located(d)'
    <3>1. UNCHANGED <<pc[d], kind[d], num[d], attempt[d], seen[d], known[d], stored>>
      BY <1>1 DEF TypeOK
    <3>2. Current(d) # Current(c)
      BY DEF Current
    <3>3. Busy(d) => told'[Current(d)] = told[Current(d)]
      BY <1>4, <3>2
    <3>4. QED BY <1>3, <3>1, <3>3 DEF ClientsSound, Located
  <2>2. Located(c)'
    BY <1>1, <1>3 DEF Located, TypeOK
  <2>3. QED BY <2>1, <2>2 DEF ClientsSound
<1>6. /\ told[Current(c)] = "asked" \/ told' = told
      /\ Current(c)[1] = c /\ Current(c)[2] = num[c] /\ num[c] \in Nat
  BY DEF ClientsSound, Located, Current
<1>7. Truthful'
  <2>1. ASSUME NEW x \in Commands, x # Current(c) \/ told' = told
        PROVE  told'[x] = told[x]
    BY <1>4, <2>1
  <2>2. ASSUME told' # told PROVE told'[Current(c)] = t
    BY <2>2 DEF TypeOK
  <2>3. QED BY <1>1, <1>6, <2>1, <2>2 DEF Truthful
<1>8. CallsSound'
  <2> SUFFICES ASSUME NEW call \in calls, call \in calls'
               PROVE  Effect(call)' /\ \A d \in Clients : Serves(call, d)'
    BY DEF CallsSound
  <2>1. call.kind = "save" => told'[call.for] \in {"asked", "failed"}
    BY <1>4 DEF CallsSound, Effect, TypeOK
  <2>2. Effect(call)'
    BY <1>1, <2>1 DEF CallsSound, Effect
  <2>3. ASSUME NEW d \in Clients PROVE Serves(call, d)'
    <3>1. CASE d = c
      BY <1>3, <3>1 DEF Serves
    <3>2. CASE d # c
      <4>1. UNCHANGED <<kind[d], attempt[d], seen[d], known[d]>>
        BY <1>1, <3>2 DEF TypeOK
      <4>2. QED BY <1>3, <3>2, <4>1 DEF CallsSound, Serves
    <3>3. QED BY <3>1, <3>2
  <2>4. QED BY <2>2, <2>3
<1>9. OneCallPerSave'
  BY DEF OneCallPerSave
<1>10. QED BY <1>2, <1>5, <1>7, <1>8, <1>9

LEMMA FailIInv ==
  ASSUME IInv, NEW c \in Clients, Busy(c), Fail(c)
  PROVE  IInv'
<1>1. /\ Ends(c) /\ UNCHANGED <<up, stored, calls, seen>>
      /\ told' = IF kind[c] = "save" THEN [told EXCEPT ![Current(c)] = "failed"] ELSE told
  BY DEF Fail
<1>2. kind[c] = "save" => told' # told
  <2>1. ASSUME kind[c] = "save" PROVE told[Current(c)] = "asked" /\ told'[Current(c)] = "failed"
    BY <1>1, <2>1, Types DEF IInv, ClientsSound, Located
  <2>2. QED BY <2>1
<1>3. seen[c] \in [Commands -> Nat] /\ seen' = [seen EXCEPT ![c] = seen[c]]
  BY <1>1 DEF IInv, TypeOK
<1>4. \A x \in Commands : seen[c][x] <= stored[x]
  BY DEF IInv, ClientsSound, Located
<1>5. QED BY <1>1, <1>2, <1>3, <1>4, EndIInv

LEMMA ReceiveIInv ==
  ASSUME IInv, NEW c \in Clients, NEW call \in calls, Receive(c, call)
  PROVE  IInv'
<1> USE Types
<1>1. /\ Busy(c) /\ call.for = Current(c) /\ call.kind = kind[c] /\ Effect(call)
      /\ call.res \in {"ok", "notok"} /\ calls' = calls \ {call} /\ Ends(c)
      /\ UNCHANGED <<up, stored>>
  BY DEF Receive, Awaits, Busy, IInv, CallsSound, Serves
<1>2. seen[c] \in [Commands -> Nat] /\ \A x \in Commands : seen[c][x] <= stored[x]
  BY DEF IInv, TypeOK, ClientsSound, Located
<1>3. CASE call.kind = "save"
  <2> DEFINE t == IF call.res = "ok" THEN "saved" ELSE "failed"
  <2>1. told' = [told EXCEPT ![Current(c)] = t] /\ seen' = seen
    BY <1>3 DEF Receive
  <2>2. told[Current(c)] = "asked" /\ told'[Current(c)] = t
    BY <1>1, <1>3, <2>1 DEF IInv, ClientsSound, Located
  <2>3. told' # told
    BY <2>2
  <2>4. t = "saved" => stored[Current(c)] = Parts
    BY <1>1, <1>3 DEF Effect
  <2>5. \A other \in calls' : other.kind = "save" => other.for # Current(c)
    BY <1>1, <1>3 DEF IInv, OneCallPerSave
  <2>6. seen' = [seen EXCEPT ![c] = seen[c]]
    BY <2>1 DEF IInv, TypeOK
  <2>7. t \in {"saved", "failed"}
    OBVIOUS
  <2> HIDE DEF t
  <2>8. QED BY <1>1, <1>2, <1>3, <2>1, <2>3, <2>4, <2>5, <2>6, <2>7, EndIInv
<1>4. CASE call.kind # "save"
  <2> DEFINE v == IF call.res = "ok" THEN call.view ELSE seen[c]
  <2>1. told' = told /\ seen' = [seen EXCEPT ![c] = v] /\ call.kind = "read"
    BY <1>4 DEF Receive, IInv, TypeOK, Kinds
  <2>2. v \in [Commands -> Nat] /\ \A x \in Commands : v[x] <= stored[x]
    BY <1>1, <1>2, <2>1 DEF Effect
  <2> HIDE DEF v
  <2>3. QED BY <1>1, <1>4, <2>1, <2>2, EndIInv
<1>5. QED BY <1>3, <1>4

-------------------------------------------------------------------------------
(* The service keeps the invariant.                                        *)

LEMMA StepIInv ==
  ASSUME IInv, NEW call \in calls, NEW next \in Call, Step(call, next),
         next.for = call.for, next.attempt = call.attempt, next.kind = call.kind,
         stored' = stored \/ (call.kind = "save" /\ Inserted(call)),
         call.kind = "save" =>
           /\ next.res = "none" => stored'[call.for] = next.part /\ next.part < Parts
           /\ next.res = "ok" => stored'[call.for] = Parts,
         call.kind = "read" /\ next.res = "ok" => next.view = stored
  PROVE  IInv'
<1> USE Types, CommandsArePairs DEF IInv
<1>1. /\ call.res = "none" /\ calls' = (calls \ {call}) \cup {next}
      /\ UNCHANGED <<up, pc, kind, num, attempt, told, seen, known>>
      /\ Effect(call) /\ \A c \in Clients : Serves(call, c)
      /\ call.for \in Commands
  BY DEF Step, clientVars, CallsSound
<1>2. \A c \in Clients : (Busy(c)' <=> Busy(c)) /\ Current(c)' = Current(c)
  BY <1>1 DEF Busy, Current
<1>3. /\ stored' \in [Commands -> Nat]
      /\ \A x \in Commands :
           /\ stored'[x] >= stored[x] /\ stored'[x] <= Parts
           /\ stored[x] = Parts => stored'[x] = Parts
           /\ stored'[x] = stored[x] \/ (x = call.for /\ call.kind = "save")
  <2>1. CASE stored' = stored
    BY <2>1 DEF Truthful
  <2>2. CASE call.kind = "save" /\ Inserted(call)
    <3>1. stored' = [stored EXCEPT ![call.for] = @ + 1] /\ stored[call.for] < Parts
      BY <1>1, <2>2 DEF Inserted, Effect
    <3>2. QED BY <1>1, <2>2, <3>1 DEF Truthful
  <2>3. QED BY <2>1, <2>2
<1>4. TypeOK'
  BY <1>1, <1>3 DEF TypeOK, Call
<1>5. ClientsSound'
  <2> SUFFICES ASSUME NEW c \in Clients PROVE Located(c)'
    BY DEF ClientsSound
  <2>1. Located(c)
    BY DEF ClientsSound
  <2>2. ASSUME pc[c] = "waiting", kind[c] = "save"
        PROVE  attempt[c] = 0 /\ stored'[Current(c)] = 0
    <3>1. Busy(c) /\ attempt[c] = 0 /\ stored[Current(c)] = 0
      BY <2>1, <2>2 DEF Located, Busy
    <3>2. call.for # Current(c)
      BY <1>1, <3>1 DEF Serves
    <3>3. QED BY <1>3, <3>1, <3>2
  <2>3. \A x \in known[c] : stored'[x] = Parts
    BY <1>3, <2>1 DEF Located, TypeOK
  <2>4. \A x \in Commands : seen[c][x] <= stored'[x]
    <3>1. \A x \in Commands : seen[c][x] \in Nat
      BY DEF TypeOK
    <3>2. QED BY <1>3, <2>1, <3>1 DEF Located
  <2>5. QED BY <1>1, <1>2, <2>1, <2>2, <2>3, <2>4 DEF Located
<1>6. Truthful'
  BY <1>1, <1>3 DEF Truthful, Effect
<1>7. ASSUME NEW other \in calls \ {call}
      PROVE  Effect(other)' /\ \A c \in Clients : Serves(other, c)'
  <2>1. Effect(other) /\ \A c \in Clients : Serves(other, c)
    BY DEF CallsSound
  <2>2. other.kind = "save" => stored'[other.for] = stored[other.for]
    BY <1>3 DEF OneCallPerSave
  <2>3. ASSUME NEW x \in Commands, other.view[x] <= stored[x]
        PROVE  other.view[x] <= stored'[x]
    <3>1. other.view[x] \in Nat
      OBVIOUS
    <3>2. QED BY <1>3, <2>3, <3>1
  <2>4. Effect(other)'
    BY <1>1, <2>1, <2>2, <2>3 DEF Effect
  <2>5. ASSUME NEW c \in Clients PROVE Serves(other, c)'
    BY <1>1, <1>2, <2>1 DEF Serves
  <2>6. QED BY <2>4, <2>5
<1>8. Effect(next)'
  <2>1. next.kind = "read" /\ next.res = "ok" => \A x \in Commands : next.view[x] <= stored'[x]
    BY <1>3
  <2>2. QED BY <1>1, <2>1 DEF Effect
<1>9. ASSUME NEW c \in Clients PROVE Serves(next, c)'
  BY <1>1, <1>2 DEF Serves, ClientsSound, Located
<1>10. CallsSound'
  BY <1>1, <1>7, <1>8, <1>9 DEF CallsSound
<1>11. OneCallPerSave'
  BY <1>1 DEF OneCallPerSave
<1>12. QED BY <1>4, <1>5, <1>6, <1>10, <1>11

LEMMA HandlerIInv ==
  ASSUME IInv, NEW call \in calls, HandleRead(call) \/ SaveBatch(call) \/ SaveFails(call)
  PROVE  IInv'
<1> USE Types, CommandsArePairs
<1>1. call \in Call /\ call.res = "none" /\ Effect(call)
  BY DEF HandleRead, SaveBatch, SaveFails, Step, IInv, CallsSound
<1>2. CASE HandleRead(call)
  <2>1. PICK next \in Call :
          /\ Step(call, next)
          /\ next.for = call.for /\ next.attempt = call.attempt /\ next.kind = call.kind
          /\ next.res = "notok" \/ (next.res = "ok" /\ next.view = stored)
    <3>1. CASE Step(call, [call EXCEPT !.res = "ok", !.view = stored])
      <4> DEFINE r == [call EXCEPT !.res = "ok", !.view = stored]
      <4>1. /\ r \in Call /\ r.for = call.for /\ r.attempt = call.attempt
            /\ r.kind = call.kind /\ r.res = "ok" /\ r.view = stored
        BY <1>1 DEF Call
      <4>2. QED BY <3>1, <4>1
    <3>2. CASE Step(call, [call EXCEPT !.res = "notok"])
      <4> DEFINE r == [call EXCEPT !.res = "notok"]
      <4>1. /\ r \in Call /\ r.for = call.for /\ r.attempt = call.attempt
            /\ r.kind = call.kind /\ r.res = "notok"
        BY <1>1 DEF Call
      <4>2. QED BY <3>2, <4>1
    <3>3. QED BY <1>2, <3>1, <3>2 DEF HandleRead
  <2>2. stored' = stored /\ call.kind = "read"
    BY <1>2 DEF HandleRead
  <2>3. QED BY <2>1, <2>2, StepIInv
<1>3. CASE SaveBatch(call)
  <2>1. call.kind = "save" /\ Inserted(call) /\ stored[call.for] = call.part
        /\ call.part < Parts /\ call.part \in Nat
    BY <1>1, <1>3 DEF SaveBatch, Effect
  <2>2. stored'[call.for] = call.part + 1
    BY <2>1 DEF Inserted
  <2>3. PICK next \in Call :
          /\ Step(call, next)
          /\ next.for = call.for /\ next.attempt = call.attempt /\ next.kind = call.kind
          /\ next.part = call.part + 1
          /\ next.res = IF call.part + 1 = Parts THEN "ok" ELSE "none"
    <3> DEFINE n == call.part + 1
               a == IF n = Parts THEN "ok" ELSE "none"
               r == [call EXCEPT !.part = n, !.res = a]
    <3>1. n \in 0 .. Parts /\ a \in {"none", "ok", "notok"}
      BY <2>1
    <3>2. Step(call, r)
      BY <1>3 DEF SaveBatch
    <3> HIDE DEF n, a
    <3>3. /\ r \in Call /\ r.for = call.for /\ r.attempt = call.attempt
          /\ r.kind = call.kind /\ r.part = n /\ r.res = a
      BY <1>1, <3>1 DEF Call
    <3>4. r.part = call.part + 1 /\ r.res = IF call.part + 1 = Parts THEN "ok" ELSE "none"
      BY <3>3 DEF n, a
    <3> HIDE DEF r
    <3>5. QED BY <3>2, <3>3, <3>4
  <2>4. /\ next.res = "none" => stored'[call.for] = next.part /\ next.part < Parts
        /\ next.res = "ok" => stored'[call.for] = Parts
    BY <2>1, <2>2, <2>3
  <2>5. QED BY <2>1, <2>3, <2>4, StepIInv
<1>4. CASE SaveFails(call)
  <2>1. call.kind = "save" /\ (stored' = stored \/ Inserted(call))
    BY <1>4 DEF SaveFails
  <2>2. PICK next \in Call :
          /\ Step(call, next) /\ next.res = "notok"
          /\ next.for = call.for /\ next.attempt = call.attempt /\ next.kind = call.kind
    <3> DEFINE r == [call EXCEPT !.res = "notok"]
    <3>1. /\ r \in Call /\ r.for = call.for /\ r.attempt = call.attempt
          /\ r.kind = call.kind /\ r.res = "notok"
      BY <1>1 DEF Call
    <3>2. Step(call, r)
      BY <1>4 DEF SaveFails
    <3>3. QED BY <3>1, <3>2
  <2>3. QED BY <2>1, <2>2, StepIInv
<1>5. QED BY <1>2, <1>3, <1>4

\* Calls that vanish take nothing with them.
LEMMA DropIInv ==
  ASSUME IInv, calls' \subseteq calls, up' \in BOOLEAN, UNCHANGED <<stored, clientVars>>
  PROVE  IInv'
<1> USE DEF IInv, clientVars
<1>1. TypeOK'
  BY DEF TypeOK
<1>2. \A c \in Clients : (Busy(c)' <=> Busy(c)) /\ Current(c)' = Current(c)
  BY DEF Busy, Current
<1>3. ClientsSound' /\ Truthful' /\ OneCallPerSave'
  BY <1>2 DEF ClientsSound, Located, Truthful, OneCallPerSave
<1>4. CallsSound'
  BY <1>2 DEF CallsSound, Effect, Serves
<1>5. QED BY <1>1, <1>3, <1>4

LEMMA NextIInv == IInv /\ [Next]_vars => IInv'
<1> SUFFICES ASSUME IInv, [Next]_vars PROVE IInv'
  OBVIOUS
<1>1. ASSUME NEW c \in Clients, Connect(c) \/ GiveUp(c) PROVE IInv'
  BY <1>1, MoveIInv DEF Connect, GiveUp, Busy
<1>2. ASSUME NEW c \in Clients, Fail(c), Busy(c) PROVE IInv'
  BY <1>2, FailIInv
<1>3. ASSUME NEW c \in Clients, Break(c) PROVE IInv'
  <2>1. CASE kind[c] = "read" /\ attempt[c] < MaxAttempts
    BY <1>3, <2>1, MoveIInv DEF Break, Unavailable
  <2>2. CASE ~(kind[c] = "read" /\ attempt[c] < MaxAttempts)
    BY <1>2, <1>3, <2>2 DEF Break, Unavailable, Busy
  <2>3. QED BY <2>1, <2>2
<1>4. ASSUME NEW c \in Clients, FailFast(c) \/ Deadline(c) PROVE IInv'
  BY <1>2, <1>4 DEF FailFast, Deadline, Busy
<1>5. ASSUME NEW c \in Clients, Client(c) PROVE IInv'
  BY <1>1, <1>4, <1>5, SendIInv, ReceiveIInv DEF Client
<1>6. ASSUME NEW call \in calls, Handler(call) PROVE IInv'
  <2>1. CASE Stop(call)
    BY <2>1, DropIInv DEF Stop, IInv, TypeOK
  <2>2. QED BY <1>6, <2>1, HandlerIInv DEF Handler
<1>7. CASE Crash \/ Restart
  BY <1>7, DropIInv DEF Crash, Restart
<1>8. CASE UNCHANGED vars
  BY <1>8, DropIInv DEF vars, IInv, TypeOK
<1>9. QED
  BY <1>3, <1>4, <1>5, <1>6, <1>7, <1>8, CommandIInv DEF Next

LEMMA InvariantHolds == Spec => []IInv
  BY InitIInv, NextIInv, PTL DEF Spec

\* Every variable keeps its type; in particular no call is made more often than
\* the retry policy allows.
THEOREM TypeCorrect == Spec => []TypeOK
<1>1. IInv => TypeOK
  BY DEF IInv
<1>2. QED BY <1>1, InvariantHolds, PTL

-------------------------------------------------------------------------------
(* TwoServices implements SaveLedger.                                      *)

LEMMA InitLedger == Init => Ledger!LedgerInit
  BY DEF Init, Unseen, Ledger!LedgerInit

\* A save command is a request to the ledger.
LEMMA CommandLedger ==
  ASSUME IInv, NEW c \in Clients, NEW k \in Kinds, Command(c, k)
  PROVE  [Ledger!LedgerNext]_(Ledger!ledgerVars)
<1> DEFINE x == <<c, num[c] + 1>>
<1>1. num[c] + 1 \in 1 .. MaxCommands[c] /\ stored' = stored
  BY CommandsArePairs DEF Command, IInv, TypeOK
<1>2. x \in Commands /\ told[x] = "none"
  BY <1>1, CommandsArePairs, Types DEF IInv, Truthful
<1>3. CASE k = "save"
  <2>1. Ledger!Ask(x)
    BY <1>1, <1>2, <1>3 DEF Command, Ledger!Ask
  <2>2. QED BY <1>2, <2>1 DEF Ledger!LedgerNext
<1>4. CASE k # "save"
  BY <1>1, <1>4 DEF Command, Ledger!ledgerVars
<1>5. QED BY <1>3, <1>4

\* A command that ends tells the ledger's user, when it is a save.
LEMMA FailLedger ==
  ASSUME IInv, NEW c \in Clients, Busy(c), Fail(c)
  PROVE  [Ledger!LedgerNext]_(Ledger!ledgerVars)
<1>1. CASE kind[c] = "save"
  <2>1. Current(c) \in Commands /\ told[Current(c)] = "asked"
    BY <1>1, Types DEF IInv, ClientsSound, Located
  <2>2. Ledger!Tell(Current(c), "failed")
    BY <1>1, <2>1 DEF Fail, Ledger!Tell
  <2>3. QED BY <2>1, <2>2 DEF Ledger!LedgerNext
<1>2. CASE kind[c] # "save"
  BY <1>2 DEF Fail, Ledger!ledgerVars
<1>3. QED BY <1>1, <1>2

LEMMA ReceiveLedger ==
  ASSUME IInv, NEW c \in Clients, NEW call \in calls, Receive(c, call)
  PROVE  [Ledger!LedgerNext]_(Ledger!ledgerVars)
<1>1. /\ Busy(c) /\ call.for = Current(c) /\ call.kind = kind[c] /\ Effect(call)
      /\ Current(c) \in Commands /\ stored' = stored
  BY Types DEF Receive, Awaits, Busy, IInv, CallsSound, Serves
<1>2. CASE call.kind = "save"
  <2> DEFINE t == IF call.res = "ok" THEN "saved" ELSE "failed"
  <2>1. told[Current(c)] = "asked" /\ told' = [told EXCEPT ![Current(c)] = t]
    BY <1>1, <1>2 DEF Receive, IInv, ClientsSound, Located
  <2>2. t \in {"saved", "failed"} /\ (t = "saved" => stored[Current(c)] = Parts)
    BY <1>1, <1>2 DEF Effect
  <2> HIDE DEF t
  <2>3. Ledger!Tell(Current(c), t)
    BY <1>1, <2>1, <2>2 DEF Ledger!Tell
  <2>4. QED BY <1>1, <2>2, <2>3 DEF Ledger!LedgerNext
<1>3. CASE call.kind # "save"
  BY <1>1, <1>3 DEF Receive, Ledger!ledgerVars
<1>4. QED BY <1>2, <1>3

\* A batch of a save goes into the ledger, until it is full.
LEMMA InsertLedger ==
  ASSUME IInv, NEW call \in calls, call.kind = "save", call.res = "none",
         Inserted(call), told' = told
  PROVE  Ledger!LedgerNext
<1>1. /\ told[call.for] \in {"asked", "failed"} /\ stored[call.for] < Parts
      /\ call.for \in Commands
  BY Types DEF IInv, CallsSound, Effect
<1>2. Ledger!Insert(call.for)
  BY <1>1 DEF Inserted, Ledger!Insert
<1>3. QED BY <1>1, <1>2 DEF Ledger!LedgerNext

\* Every step of clients and service is one of the ledger, or none.
LEMMA NextLedger ==
  ASSUME IInv, [Next]_vars
  PROVE  [Ledger!LedgerNext]_(Ledger!ledgerVars)
<1>1. ASSUME NEW c \in Clients, Connect(c) \/ GiveUp(c) \/ Send(c)
      PROVE  UNCHANGED Ledger!ledgerVars
  BY <1>1 DEF Connect, GiveUp, Send, Ledger!ledgerVars
<1>2. ASSUME NEW c \in Clients, FailFast(c) \/ Deadline(c) \/ Break(c)
      PROVE  [Ledger!LedgerNext]_(Ledger!ledgerVars)
  <2>1. Busy(c)
    BY <1>2 DEF FailFast, Deadline, Break, Unavailable, Busy
  <2>2. Fail(c) \/ UNCHANGED Ledger!ledgerVars
    BY <1>2 DEF FailFast, Deadline, Break, Unavailable, Ledger!ledgerVars
  <2>3. QED BY <2>1, <2>2, FailLedger
<1>3. ASSUME NEW call \in calls, Handler(call)
      PROVE  [Ledger!LedgerNext]_(Ledger!ledgerVars)
  <2>1. told' = told
    BY <1>3 DEF Handler, HandleRead, SaveBatch, SaveFails, Stop, Step, clientVars
  <2>2. CASE HandleRead(call) \/ Stop(call)
    BY <2>1, <2>2 DEF HandleRead, Stop, Ledger!ledgerVars
  <2>3. CASE SaveBatch(call) \/ SaveFails(call)
    <3>1. call.kind = "save" /\ call.res = "none" /\ (Inserted(call) \/ stored' = stored)
      BY <2>3 DEF SaveBatch, SaveFails, Step
    <3>2. QED BY <2>1, <3>1, InsertLedger DEF Ledger!ledgerVars
  <2>4. QED BY <1>3, <2>2, <2>3 DEF Handler
<1>4. CASE Crash \/ Restart \/ UNCHANGED vars
  BY <1>4 DEF Crash, Restart, vars, clientVars, Ledger!ledgerVars
<1>5. QED
  BY <1>1, <1>2, <1>3, <1>4, CommandLedger, ReceiveLedger DEF Next, Client

\* A save has its effect at most once per command and, when it reports success,
\* in full: through broken connections, deadlines, handlers that go on for nobody,
\* failures after the commit and restarts of the service.
THEOREM LedgerImplemented == Spec => ImplementsLedger
<1>1. IInv /\ [Next]_vars => [Ledger!LedgerNext]_(Ledger!ledgerVars)
  BY NextLedger
<1>2. QED
  BY <1>1, InitLedger, InvariantHolds, PTL DEF Spec, ImplementsLedger, Ledger!LedgerSpec

-------------------------------------------------------------------------------
(* What reads show.                                                        *)

\* Only a call that a client still awaits reaches its screen.
LEMMA SeenChanges ==
  ASSUME IInv, [Next]_vars, NEW c \in Clients, seen'[c] # seen[c]
  PROVE  \E call \in calls :
           /\ call.kind = "read" /\ call.res = "ok" /\ Busy(c) /\ call.for = Current(c)
           /\ Serves(call, c) /\ seen'[c] = call.view
<1>1. ASSUME NEW d \in Clients, NEW call \in calls, Receive(d, call)
      PROVE  /\ d = c /\ call.kind = "read" /\ call.res = "ok" /\ Busy(c)
             /\ call.for = Current(c) /\ Serves(call, c) /\ seen'[c] = call.view
  <2>1. call.kind # "save" /\ seen' # seen
    BY <1>1 DEF Receive
  <2>2. seen' = [seen EXCEPT ![d] = call.view] /\ call.res = "ok"
    BY <1>1, <2>1 DEF Receive
  <2>3. d = c /\ seen'[c] = call.view
    BY <2>2 DEF IInv, TypeOK
  <2>4. QED
    BY <1>1, <2>1, <2>2, <2>3, Types
    DEF Receive, Awaits, Busy, IInv, CallsSound, Kinds
<1>2. ASSUME NEW d \in Clients,
             \/ Connect(d) \/ GiveUp(d) \/ Send(d) \/ FailFast(d) \/ Break(d) \/ Deadline(d)
             \/ \E k \in Kinds : Command(d, k)
      PROVE  FALSE
  BY <1>2 DEF Connect, GiveUp, Send, FailFast, Break, Unavailable, Deadline,
              Fail, Command
<1>3. ASSUME NEW call \in calls, Handler(call) PROVE FALSE
  BY <1>3 DEF Handler, HandleRead, SaveBatch, SaveFails, Stop, Step, clientVars
<1>4. CASE Crash \/ Restart \/ UNCHANGED vars
  BY <1>4 DEF Crash, Restart, vars, clientVars
<1>5. QED BY <1>1, <1>2, <1>3, <1>4 DEF Next, Client

\* A read shows everything that any client had been told to be saved when the
\* command was typed, whichever attempt answers it.
THEOREM SavedIsSeen == Spec => ReadsSeeSaved
<1>1. ASSUME IInv, NEW c \in Clients, NEW call \in calls, Receive(c, call),
             call.kind = "read", call.res = "ok", NEW x \in known[c]
      PROVE  seen'[c][x] = Parts
  <2>1. seen' = [seen EXCEPT ![c] = call.view]
    BY <1>1 DEF Receive
  <2>2. seen'[c] = call.view
    BY <2>1, <1>1 DEF IInv, TypeOK
  <2>3. Busy(c) /\ call.for = Current(c) /\ Serves(call, c)
    BY <1>1 DEF Receive, Awaits, Busy, IInv, CallsSound
  <2>4. QED BY <1>1, <2>2, <2>3 DEF Serves
<1>2. IInv /\ [Next]_vars =>
        [\A c \in Clients : \A call \in calls :
           Receive(c, call) /\ call.kind = "read" /\ call.res = "ok" =>
             \A x \in known[c] : seen'[c][x] = Parts]_vars
  BY <1>1
<1>3. QED BY <1>2, InvariantHolds, PTL DEF Spec, ReadsSeeSaved

\* No read shows less than an earlier one of the same client did.
THEOREM ReadsOnlyGrow == Spec => ReadsNeverGoBack
<1>1. ASSUME IInv, [Next]_vars, NEW c \in Clients, NEW x \in Commands
      PROVE  seen'[c][x] >= seen[c][x]
  <2>1. CASE seen'[c] = seen[c]
    BY <1>1, <2>1 DEF IInv, TypeOK
  <2>2. CASE seen'[c] # seen[c]
    <3>1. PICK call \in calls :
            /\ call.kind = "read" /\ call.res = "ok" /\ Busy(c) /\ call.for = Current(c)
            /\ Serves(call, c) /\ seen'[c] = call.view
      BY <1>1, <2>2, SeenChanges
    <3>2. seen[c][x] <= call.view[x] /\ call.view[x] \in Nat /\ seen[c][x] \in Nat
      BY <1>1, <3>1, Types DEF Serves, IInv, TypeOK
    <3>3. QED BY <3>1, <3>2
  <2>3. QED BY <2>1, <2>2
<1>2. IInv /\ [Next]_vars =>
        [\A c \in Clients : \A x \in Commands : seen'[c][x] >= seen[c][x]]_vars
  BY <1>1
<1>3. QED BY <1>2, InvariantHolds, PTL DEF Spec, ReadsNeverGoBack
===============================================================================
