------------------------------ MODULE EventUpload ------------------------------
(***************************************************************************)
(* One "save" from end to end: GrpcService::SaveBatch of the client        *)
(* (services/ipv4_filter/network/grpc_service.cc), which sends a unary     *)
(* SaveEvent or streams event by event, and the handlers SaveEvent and     *)
(* SaveEventsStream of the history service, which save through             *)
(* SaveEventUseCase. A handler and the client run concurrently; the call   *)
(* can be cut at any moment and the service can die.                       *)
(***************************************************************************)
EXTENDS Naturals, Sequences

CONSTANTS Uploads,      \* the batches a client may want to save
          Threshold,    \* STREAM_THRESHOLD
          BatchSize,    \* BATCH_SIZE
          Window        \* messages that fit between a Write and its Read

\* What ValidateEvent makes of an event.
Kinds == {"valid", "invalid"}

ASSUME UploadAssumption ==
  /\ Uploads \subseteq Seq(Kinds)
  /\ Threshold \in Nat /\ BatchSize \in Nat \ {0} /\ Window \in Nat \ {0}

VARIABLES
  events,    \* the batch being saved
  client,    \* where the client is
  verdict,   \* what SaveBatch returns
  sent,      \* sent_count
  wire,      \* messages on their way, as positions in events
  half,      \* the client is done writing
  cut,       \* the call is cancelled: deadline, lost connection, dead service
  server,    \* where the handler is
  batch,     \* events read and not saved yet
  total,     \* total_events
  saved,     \* saved_events
  stored,    \* the events in the database, in the order they were inserted
  reply      \* what the handler returned: see Replies

clientVars == <<events, client, verdict, sent>>
serverVars == <<server, batch, total, saved, stored>>
vars == <<clientVars, wire, half, cut, serverVars, reply>>

\* "ok"/"refused": status OK with success true/false.
Replies == {"none", "ok", "refused", "INVALID_ARGUMENT"}

Indices == 1 .. Len(events)
Streamed == Len(events) >= Threshold

Init ==
  /\ events \in Uploads
  /\ client = "start" /\ verdict = "none" /\ sent = 0
  /\ wire = <<>> /\ half = FALSE /\ cut = FALSE
  /\ server = "off" /\ batch = <<>> /\ total = 0 /\ saved = 0
  /\ stored = <<>> /\ reply = "none"

-------------------------------------------------------------------------------
(* The client.                                                             *)

Return(v) == client' = "done" /\ verdict' = v

\* SaveBatch below the threshold: DoSaveRequest sends one message and blocks.
SaveUnary ==
  /\ client = "start" /\ ~Streamed
  /\ client' = "finish" /\ sent' = Len(events)
  /\ wire' = [i \in Indices |-> i] /\ half' = TRUE
  /\ server' = "unary"
  /\ UNCHANGED <<events, verdict, cut, batch, total, saved, stored, reply>>

\* SaveBatchStream; it has nothing to do for an empty batch.
OpenStream ==
  /\ client = "start" /\ Streamed
  /\ IF events = <<>>
       THEN Return("true") /\ UNCHANGED server
       ELSE client' = "write" /\ server' = "read" /\ UNCHANGED verdict
  /\ UNCHANGED <<events, sent, wire, half, cut, batch, total, saved, stored, reply>>

\* Write returns true: the message is on its way, or lost with a call that is
\* over and not yet known to be.
Write ==
  /\ client = "write" /\ sent < Len(events)
  /\ IF cut \/ reply # "none"
       THEN UNCHANGED wire
       ELSE Len(wire) < Window /\ wire' = Append(wire, sent + 1)
  /\ sent' = sent + 1
  /\ UNCHANGED <<events, client, verdict, half, cut, serverVars, reply>>

\* Write returns false once the call is over; the reply is not looked at.
WriteFails ==
  /\ client = "write" /\ sent < Len(events) /\ (cut \/ reply # "none")
  /\ Return("false")
  /\ UNCHANGED <<events, sent, wire, half, cut, serverVars, reply>>

WritesDone ==
  /\ client = "write" /\ sent = Len(events)
  /\ client' = "finish" /\ half' = TRUE
  /\ UNCHANGED <<events, verdict, sent, wire, cut, serverVars, reply>>

VerdictOn(v) ==
  /\ client = "finish" /\ reply # "none"
  /\ Return(v)
  /\ UNCHANGED <<events, sent, wire, half, cut, serverVars, reply>>

Bug_StatusOnly ==                              \* return status.ok()
  VerdictOn(IF reply \in {"ok", "refused"} THEN "true" ELSE "false")

\* Finish, or the unary call, returns with the reply ...
FinishReply == VerdictOn(IF reply = "ok" THEN "true" ELSE "false")

\* ... or with an error, the deadline's for instance, replied or not.
FinishCut ==
  /\ client = "finish" /\ cut
  /\ Return("false")
  /\ UNCHANGED <<events, sent, wire, half, cut, serverVars, reply>>

-------------------------------------------------------------------------------
(* The history service.                                                    *)

\* What the handler returns reaches the client unless the call was cut before.
Reply(r) == server' = "off" /\ reply' = IF cut THEN reply ELSE r

\* SaveEvent validates every event before it converts and saves any.
HandleUnary ==
  /\ server = "unary"
  /\ wire' = <<>>
  /\ IF events = <<>> \/ \E i \in Indices : events[i] = "invalid"
       THEN Reply("INVALID_ARGUMENT") /\ UNCHANGED batch
       ELSE server' = "save" /\ batch' = wire /\ UNCHANGED reply
  /\ UNCHANGED <<clientVars, half, cut, total, saved, stored>>

ReadNext(full) ==
  /\ server = "read" /\ wire # <<>>
  /\ wire' = Tail(wire)
  /\ IF events[Head(wire)] = "invalid"
       THEN Reply("refused") /\ UNCHANGED <<batch, total>>
       ELSE /\ batch' = Append(batch, Head(wire)) /\ total' = total + 1
            /\ server' = IF full THEN "save" ELSE "poll"
            /\ UNCHANGED reply
  /\ UNCHANGED <<clientVars, half, cut, saved, stored>>

Bug_FlushLate == ReadNext(Len(batch) + 1 > BatchSize)

\* Read returns true: validate, convert, and save once the batch is full.
Read == ReadNext(Len(batch) + 1 >= BatchSize)

\* context->IsCancelled(), after a Read that succeeded: it may not know of a cut
\* yet, and then the handler reads on.
PollCancelled ==
  /\ server = "poll"
  /\ \/ cut /\ Reply("none")
     \/ server' = "read" /\ UNCHANGED reply
  /\ UNCHANGED <<clientVars, wire, half, cut, batch, total, saved, stored>>

ReadEnds(rest) ==
  /\ server = "read" /\ (cut \/ (half /\ wire = <<>>))
  /\ IF rest THEN server' = "saveRest" /\ UNCHANGED reply ELSE Reply("ok")
  /\ UNCHANGED <<clientVars, wire, half, cut, batch, total, saved, stored>>

Bug_ForgetRest == ReadEnds(FALSE)              \* nothing after the loop

\* Read returns false, at the end of the stream as well as when the call is cut.
ReadFails == ReadEnds(batch # <<>>)

Inserted(rows) == stored' = stored \o rows

\* Where the handler goes on when the batch is saved.
Proceed ==
  /\ batch' = <<>>
  /\ IF server = "save" /\ Streamed
       THEN server' = "poll" /\ UNCHANGED reply
       ELSE Reply("ok")

\* Execute(batch), see EventsRepo: all of it stored ...
SaveOk ==
  /\ server \in {"save", "saveRest"}
  /\ Inserted(batch)
  /\ saved' = saved + Len(batch)
  /\ Proceed
  /\ UNCHANGED <<clientVars, wire, half, cut, total>>

SaveFailsAnd(then) ==
  /\ server \in {"save", "saveRest"}
  /\ \/ UNCHANGED stored
     \/ Inserted(batch)
  /\ then
  /\ UNCHANGED <<clientVars, wire, half, cut, total, saved>>

Bug_SkipFailed == SaveFailsAnd(Proceed)        \* log it and go on

\* ... or a failure, which leaves open whether it is (the COMMIT was in doubt).
SaveFails == SaveFailsAnd(Reply("refused") /\ UNCHANGED batch)

-------------------------------------------------------------------------------
(* Failures.                                                               *)

CutWhen(able) ==
  /\ able /\ ~cut
  /\ cut' = TRUE
  /\ UNCHANGED <<clientVars, wire, half, serverVars, reply>>

Bug_NoDeadline == CutWhen(client = "write")    \* DoSaveRequest sets none

\* The deadline passes or the connection breaks: set_deadline sees to it that a
\* call without an answer ends this way.
Cut == CutWhen(client \in {"write", "finish"})

\* The service is killed; what Execute was saving may be committed.
Crash ==
  /\ server # "off"
  /\ server' = "off" /\ cut' = TRUE
  /\ \/ UNCHANGED stored
     \/ server \in {"save", "saveRest"} /\ Inserted(batch)
  /\ UNCHANGED <<clientVars, wire, half, batch, total, saved, reply>>

-------------------------------------------------------------------------------
Client ==
  SaveUnary \/ OpenStream \/ Write \/ WriteFails \/ WritesDone \/ FinishReply \/ FinishCut

\* The handler between two saves, and in one.
Handle == HandleUnary \/ Read \/ PollCancelled \/ ReadFails
Save == SaveOk \/ SaveFails

Next == Client \/ Handle \/ Save \/ Cut \/ Crash

Spec == Init /\ [][Next]_vars

\* Both processes are scheduled and the clock runs, so the deadline passes.
\* Nothing is assumed of Execute: the pool or Postgres may never answer.
FairSpec == Spec /\ WF_vars(Client) /\ WF_vars(Handle) /\ WF_vars(Cut)

-------------------------------------------------------------------------------
(* Properties.                                                             *)

TypeOK ==
  /\ events \in Seq(Kinds) /\ sent \in 0 .. Len(events)
  /\ client \in {"start", "write", "finish", "done"}
  /\ server \in {"off", "unary", "read", "poll", "save", "saveRest"}
  /\ verdict \in {"none", "true", "false"} /\ reply \in Replies
  /\ {half, cut} \subseteq BOOLEAN
  /\ {wire, batch, stored} \subseteq Seq(Indices)
  /\ Streamed => Len(wire) <= Window /\ Len(batch) <= BatchSize
  /\ {total, saved} \subseteq 0 .. Len(events)

\* "Events saved successfully": every event of the file is in the database, once
\* and in its order, across the client's loop, the wire, the server's batches of
\* BATCH_SIZE and the remainder after the loop.
TrueMeansStored == verdict = "true" => stored = [i \in Indices |-> i]

\* However an upload ends, what it leaves in the database is its beginning,
\* without a gap or a duplicate and without an event that fails validation or
\* comes after one that does.
StoredIsValidPrefix ==
  /\ stored = [i \in 1 .. Len(stored) |-> i]
  /\ \A i \in DOMAIN stored : events[stored[i]] = "valid"

\* "Saved n/m events" tells the truth: n events are in the database and they are
\* the m that the handler received.
RepliedCounts ==
  reply = "ok" /\ Streamed => saved = Len(stored) /\ total = saved

\* SaveBatch returns, even when Execute never does.
SaveBatchReturns == <>(client = "done")
===============================================================================
