------------------------------ MODULE TwoServices ------------------------------
(***************************************************************************)
(* The clients and the history service over a network: the command loop of *)
(* services/ipv4_filter/main.cc, one command at a time, its calls with     *)
(* their deadlines and the retry policy of the channel, handlers that      *)
(* outlive their calls, and a service that is killed and started again. A  *)
(* handler saves batch by batch as EventUpload and EventsRepo allow.       *)
(***************************************************************************)
EXTENDS Naturals, FiniteSets

CONSTANTS Clients,
          MaxCommands,   \* bound on the commands of each client
          MaxAttempts,   \* maxAttempts of the retry policy
          Parts          \* batches that a Save inserts

ASSUME ServicesAssumption ==
  MaxCommands \in [Clients -> Nat] /\ MaxAttempts \in Nat \ {0} /\ Parts \in Nat \ {0}

Commands == UNION {{c} \X (1 .. MaxCommands[c]) : c \in Clients}

\* Get and Stats differ in nothing here: each reads one snapshot of the tables.
Kinds == {"save", "read"}
Unseen == [x \in Commands |-> 0]

VARIABLES
  up,        \* the service listens
  stored,    \* batches inserted by each command
  calls,     \* handlers at work, and replies on their way
  pc,        \* where each client is
  kind,      \* its command, if it runs one
  num,       \* the number of that command
  attempt,   \* the attempts made for it
  told,      \* what each Save printed
  seen,      \* what the last successful read of each client showed
  known      \* the commands known to be saved when its read was typed

clientVars == <<pc, kind, num, attempt, told, seen, known>>
vars == <<up, stored, calls, clientVars>>

Init ==
  /\ up = TRUE /\ stored = Unseen /\ calls = {}
  /\ pc = [c \in Clients |-> "connecting"]
  /\ kind = [c \in Clients |-> "none"]
  /\ num = [c \in Clients |-> 0] /\ attempt = [c \in Clients |-> 0]
  /\ told = [x \in Commands |-> "none"]
  /\ seen = [c \in Clients |-> Unseen] /\ known = [c \in Clients |-> {}]

Current(c) == <<c, num[c]>>

-------------------------------------------------------------------------------
(* The client.                                                             *)

Go(c, at) == pc' = [pc EXCEPT ![c] = at]

\* WaitForConnected, for five seconds.
Connect(c) ==
  /\ pc[c] = "connecting" /\ up
  /\ Go(c, "idle")
  /\ UNCHANGED <<up, stored, calls, kind, num, attempt, told, seen, known>>

GiveUp(c) ==
  /\ pc[c] = "connecting"
  /\ Go(c, "exited")
  /\ UNCHANGED <<up, stored, calls, kind, num, attempt, told, seen, known>>

Command(c, k) ==
  /\ pc[c] = "idle" /\ num[c] < MaxCommands[c]
  /\ Go(c, "waiting")
  /\ kind' = [kind EXCEPT ![c] = k]
  /\ num' = [num EXCEPT ![c] = @ + 1]
  /\ IF k = "save"
       THEN told' = [told EXCEPT ![<<c, num[c] + 1>>] = "asked"] /\ UNCHANGED known
       ELSE /\ known' = [known EXCEPT ![c] = {x \in Commands : told[x] = "saved"}]
            /\ UNCHANGED told
  /\ UNCHANGED <<up, stored, calls, attempt, seen>>

\* The request leaves: at once, or when the channel is ready again.
Send(c) ==
  /\ pc[c] = "waiting" /\ up
  /\ Go(c, "sent")
  /\ attempt' = [attempt EXCEPT ![c] = @ + 1]
  /\ calls' = calls \cup {[for |-> Current(c), attempt |-> attempt[c] + 1,
                           kind |-> kind[c], part |-> 0, res |-> "none", view |-> Unseen]}
  /\ UNCHANGED <<up, stored, kind, num, told, seen, known>>

\* Back to the prompt.
Ends(c) ==
  /\ Go(c, "idle")
  /\ kind' = [kind EXCEPT ![c] = "none"]
  /\ attempt' = [attempt EXCEPT ![c] = 0]
  /\ known' = [known EXCEPT ![c] = {}]
  /\ UNCHANGED num

\* HandleSaveEvent, HandleGetEvents and HandleGetStats print a failure.
Fail(c) ==
  /\ Ends(c)
  /\ told' = IF kind[c] = "save" THEN [told EXCEPT ![Current(c)] = "failed"] ELSE told
  /\ UNCHANGED <<up, stored, calls, seen>>

\* A save does not wait for a channel in backoff, even if the service is up again.
FailFast(c) == pc[c] = "waiting" /\ kind[c] = "save" /\ Fail(c)

\* The connection breaks, UNAVAILABLE.
Unavailable(c, retried) ==
  /\ pc[c] = "sent"
  /\ IF retried
       THEN /\ Go(c, "waiting")
            /\ UNCHANGED <<up, stored, calls, kind, num, attempt, told, seen, known>>
       ELSE Fail(c)

Bug_RetrySaves(c) == Unavailable(c, attempt[c] < MaxAttempts)
Bug_OneAttemptMore(c) == Unavailable(c, kind[c] = "read" /\ attempt[c] <= MaxAttempts)

\* Only idempotent methods are retried.
Break(c) == Unavailable(c, kind[c] = "read" /\ attempt[c] < MaxAttempts)

\* One deadline for all attempts and the waiting in between.
Deadline(c) == pc[c] \in {"waiting", "sent"} /\ Fail(c)

Bug_SharedContext(c, call) == pc[c] = "sent" /\ call.for[1] = c /\ call.kind = kind[c]

\* A ClientContext and a response per call: c waits for this one.
Awaits(c, call) ==
  pc[c] = "sent" /\ call.for = Current(c) /\ call.attempt = attempt[c]

Receive(c, call) ==
  /\ Awaits(c, call) /\ call.res # "none"
  /\ calls' = calls \ {call}
  /\ Ends(c)
  /\ IF call.kind = "save"
       THEN /\ told' = [told EXCEPT ![Current(c)] =
                          IF call.res = "ok" THEN "saved" ELSE "failed"]
            /\ UNCHANGED seen
       ELSE /\ seen' = IF call.res = "ok" THEN [seen EXCEPT ![c] = call.view] ELSE seen
            /\ UNCHANGED told
  /\ UNCHANGED <<up, stored>>

-------------------------------------------------------------------------------
(* The service. No handler knows how long its client waits.                *)

Step(call, next) ==
  /\ call.res = "none"
  /\ calls' = (calls \ {call}) \cup {next}
  /\ UNCHANGED <<up, clientVars>>

\* GetEvents and GetStats: one read-only transaction, which may throw.
HandleRead(call) ==
  /\ call.kind = "read"
  /\ \/ Step(call, [call EXCEPT !.res = "ok", !.view = stored])
     \/ Step(call, [call EXCEPT !.res = "notok"])
  /\ UNCHANGED stored

Inserted(call) == stored' = [stored EXCEPT ![call.for] = @ + 1]

\* Execute succeeds; after the last batch the reply says so.
SaveBatch(call) ==
  /\ call.kind = "save"
  /\ Inserted(call)
  /\ Step(call, [call EXCEPT !.part = @ + 1,
                             !.res = IF call.part + 1 = Parts THEN "ok" ELSE "none"])

\* It fails, perhaps after the commit.
SaveFails(call) ==
  /\ call.kind = "save"
  /\ Inserted(call) \/ UNCHANGED stored
  /\ Step(call, [call EXCEPT !.res = "notok"])

\* A stream that nobody awaits is found cancelled, and a reply that nobody awaits
\* is dropped.
Stop(call) ==
  /\ \A c \in Clients : ~Awaits(c, call)
  /\ calls' = calls \ {call}
  /\ UNCHANGED <<up, stored, clientVars>>

\* The service is killed. Replies that have left may still arrive.
Crash ==
  /\ up /\ up' = FALSE
  /\ calls' = {call \in calls : call.res # "none"}
  /\ UNCHANGED <<stored, clientVars>>

Restart == ~up /\ up' = TRUE /\ UNCHANGED <<stored, calls, clientVars>>

-------------------------------------------------------------------------------
Client(c) ==
  \/ Connect(c) \/ GiveUp(c) \/ Send(c) \/ FailFast(c)
  \/ \E call \in calls : Receive(c, call)

Handler(call) == HandleRead(call) \/ SaveBatch(call) \/ SaveFails(call) \/ Stop(call)

Next ==
  \/ Crash \/ Restart
  \/ \E c \in Clients : Client(c) \/ Break(c) \/ Deadline(c) \/ \E k \in Kinds : Command(c, k)
  \/ \E call \in calls : Handler(call)

Spec == Init /\ [][Next]_vars

-------------------------------------------------------------------------------
(* Properties.                                                             *)

TypeOK ==
  /\ up \in BOOLEAN
  /\ stored \in [Commands -> Nat]
  /\ calls \subseteq [for : Commands, attempt : 1 .. MaxAttempts, kind : Kinds,
                      part : 0 .. Parts, res : {"none", "ok", "notok"},
                      view : [Commands -> Nat]]
  /\ pc \in [Clients -> {"connecting", "idle", "waiting", "sent", "exited"}]
  /\ kind \in [Clients -> Kinds \cup {"none"}]
  /\ num \in [Clients -> Nat] /\ \A c \in Clients : num[c] <= MaxCommands[c]
  /\ attempt \in [Clients -> 0 .. MaxAttempts]
  /\ told \in [Commands -> {"none", "asked", "saved", "failed"}]
  /\ seen \in [Clients -> [Commands -> Nat]] /\ known \in [Clients -> SUBSET Commands]

\* A Save, with all its failures and those of the service, has its effect at most
\* once, and in full when it reports success. Retries never repeat one.
Ledger == INSTANCE SaveLedger
ImplementsLedger == Ledger!LedgerSpec

\* Get and Stats show everything that any client had been told to be saved when
\* the command was typed, whichever attempt answers it.
ReadsSeeSaved ==
  [][\A c \in Clients : \A call \in calls :
       Receive(c, call) /\ call.kind = "read" /\ call.res = "ok" =>
         \A x \in known[c] : seen'[c][x] = Parts]_vars

\* No read shows less than an earlier one of the same client did, across retries
\* and restarts.
ReadsNeverGoBack ==
  [][\A c \in Clients : \A x \in Commands : seen'[c][x] >= seen[c][x]]_vars
===============================================================================
