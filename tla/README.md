# Verification of two-services

`two-services` is an event history service and a client. The client
(`services/ipv4_filter`) reads log files, classifies every line by its IPv4
address and sends the resulting events over gRPC; the history service
(`services/history`) stores them in PostgreSQL and answers queries. This
directory holds TLA+ models of that code, TLC configurations that check them on
small instances, and TLAPS proofs of theorems that hold on every instance.

## The system

| component | state it keeps | operations | talks to |
|---|---|---|---|
| connection pool, `pg_conn_pool.h` | queue of connections, mutex, condition variable | constructor, `Acquire` (blocking, timed), `ReturnConnection`, `CreatePreparedPool` | PostgreSQL; leased to the repository |
| events repository, `postgres_events_repo.cc` | none of its own; tables `events`, `payloads` | `SaveEvents`, `GetEvents`, `GetStats` | pool, PostgreSQL |
| history use cases | none | pass-through | repository |
| gRPC service, `grpc_event_service_impl.cc` | per call: batch, counters | `SaveEvent`, `SaveEventsStream`, `GetEvents`, `GetStats`, `Validate` | use cases; called by the client |
| gRPC client, `grpc_service.cc` | per call: deadline, `sent_count` | `Save`, `SaveBatch` (unary or stream), `GetEventsImpl`, `GetStats` | gRPC service |
| event builder and client use cases | none | log entry to event | `net_logger` (a library), gRPC client |
| command line, `services/ipv4_filter/main.cc` | configuration, channel with a retry policy | Save, Get, Stats, Help | client use cases |
| shared conversions, `shared/` | none | DTO, protobuf and text forms | all |

A call goes from the command line through the gRPC client to a handler thread
of the service, which takes a connection from the pool for one transaction. The
handlers run concurrently and share the pool and the database; a client runs
one command at a time.

What is hard here: the pool's hand-over of connections between threads and its
behaviour when PostgreSQL goes away; the transaction of a batch with failing
statements and dying sessions; an upload whose two ends run concurrently while the
call may be cut, time out or lose the server, after parts of it were committed. The
conversions and the command line are sequential, and hard at their edges (widths,
missing values, malformed lines) and in their number: seven rewritings lie between a
log line and the screen. `PROJECT.json` lists the hazards one by one, at their
lines.

What makes each component correct:

- pool: a connection belongs to one thread or to the queue; none is lost; a
  waiting thread is woken; connections handed out are usable;
- repository: a batch is stored as a whole and once or not at all; "ok" means
  stored; readers see whole batches; the connection is always given back;
- upload: success means that every event is stored once; a failure leaves a
  prefix; the client always gets an answer in time;
- query: the events that match, in order, and pages that partition them;
- conversions and command line: what is printed is what was logged, for the
  options that were typed; no input stops the program.

## Modules

| module | models | checked by | proved in |
|---|---|---|---|
| `ConnLease` | abstract: a connection is free or leased to one thread | (refined below) | |
| `ConnectionPool` | `pg_conn_pool.h` | `pool*` | `ConnectionPoolProofs`, `PoolStartupProofs` |
| `EventStore` | abstract: what `SaveEvents` promises | (refined below) | |
| `EventsRepo` | `postgres_events_repo.cc`, `schema.sql` | `repo` | `EventsRepoProofs` |
| `EventUpload` | `SaveBatch`, `SaveEvent`, `SaveEventsStream` | `upload` | `EventUploadProofs` |
| `EventCodec` | operators: event builder, DTO, protobuf and row forms of an event, `ValidateEvent`, the schema's checks | `query_*`, `client*` | |
| `EventFilter` | operators: the filter's conversions, the `get_events` statement, the response | `query_*`, `client*` | lemmas in `EventFilterProofs` |
| `EventQuery` | Gets and pages over a table that grows | `query_*` | `EventQueryProofs` |
| `FilterCli` | `services/ipv4_filter/main.cc`, `SaveEventUseCase` | `client*` | `FilterCliProofs` |
| `SaveLedger` | abstract: what the user of a client may rely on when saving | (refined below) | |
| `TwoServices` | commands, deadlines, retry policy, read handlers, restarts | `services` | `TwoServicesProofs` |
| `MC*` | the instances for TLC | | |

The layers meet in abstract specifications. `ConnectionPool` implements
`ConnLease`; `EventsRepo` extends `ConnLease` and leases its connections by its
actions, so it relies on nothing about the pool but what the refinement shows.
`EventsRepo` implements `EventStore`; `EventUpload` saves a batch in the way
`EventStore` allows: all at once, with an answer "ok" only if it is stored, and
a failure that leaves it open. `TwoServices` puts the clients and the service
together at the granularity of batches, and implements `SaveLedger`. `EventQuery`
and `FilterCli` extend `EventFilter`, which extends `EventCodec`: both see one
definition of every conversion and of the statement.

`Bug_...` operators stand directly before the definition they vary. Each is a
slip that the code could contain; it takes the place of the correct definition
to show that a property notices it. The specifications never use one.

### ConnectionPool

`queue` is `connections_`, `held` the handle of each thread, `pc` where a thread
is in the code: `Acquire` blocked (`waiting`) or woken (`woken`, waiting for the
mutex), using the connection, in `ReturnConnection` before the mutex
(`returning`), at it (`pushing`) and after it (`notifying`). A section under the
mutex is one action. `link` is what each `pqxx::connection` knows of its
session: an outage makes it `stale`; the next statement fails and makes it
`closed`. `Main` runs the constructor and `CreatePreparedPool` before any
handler runs. A notification wakes any sleeper, sleepers may wake without one,
and a woken thread competes with newcomers for the mutex.

The preparer succeeds (`Prepare`), meets a dead session, which closes, or throws
on a live one (`PrepareRefused`: a table is missing, a privilege). The loop of
`CreatePreparedPool` swallows the exception (`pg_conn_pool.h:174-176`), so that an
open connection without statements enters the pool; `refused` remembers which. Hence
the start-up loop promises no more than that every connection was tried, which is
`EveryConnectionTried`.

When `make_unique` throws in `ReturnConnection`, the assignment to `conn` does
not happen and the closed connection is pushed back (`RecreateFails`); the branch
that says "Pool size reduced" cannot be reached. So the pool never shrinks, and
whoever gets the closed connection next fails but triggers another attempt.

### EventsRepo

Every handler thread runs `SaveEvents` or a read, one statement per action.
`openRows` are the rows of a transaction in progress, `rows` the committed ones of
both tables, `nextId` the sequence behind `events.id`. A session is `prepared`,
`bare` (re-created by the pool, or refused by the preparer at start-up: its
statements fail) or `dead`; it may die at any step, and its transaction with it.
`commit` and `committed` separate the moment Postgres commits from the moment
`commit()` returns: when the session dies in between the caller is told of a
failure. Events are of the kinds the statements distinguish. `Crash` kills the
service and starts it again. `known` (batches acknowledged before a read began)
serves `ReadsAreWhole` only. A read is one statement in one transaction; its filter
is not modelled here.

### EventUpload

One `SaveBatch` from the client's decision between unary and stream to its return
value, with the handler on the other side. An event is its position in the file plus
whether `ValidateEvent` accepts it; a mixed upload stands for other clients of the
service, since this one builds events that are all valid or, when configured with an
unknown service name, all invalid. `wire` holds the messages between `Write` and
`Read`, `cut` says that the call is over for the transport (deadline, lost
connection, killed service). A cut call drops messages, makes `Read` return false at
any point, and keeps a later reply from the client, whose `Write` may still return
true; the handler's `IsCancelled` may learn of it late or never (`PollCancelled`).
`SaveOk` and `SaveFails` are `Execute`, with the outcomes `EventStore` allows; a
crash during one leaves open whether it committed.

### EventCodec and EventFilter

One operator per function of `utils.cc`, `event.h` and `event_builder.cc`, and per
clause of the statement. The three enumerations are kept apart by their values:
a dto status is 0 to 2, a protobuf one `"SUCCESS"`, the database's `"success"`.
Optional fields are `Absent` or a value; an IPv4 address is a number and its text
four octets. `FormatTimestamp` uses `std::localtime`, so `timestamp_utc` holds the
client's local time, whose distance from UTC changes with daylight saving, where
the repository's README promises UTC: `TimestampsAreUtc` is the finding. `ToRow`
and `FromRow` keep the reading, because one session time zone applies to both ways.

A filter is a record whose options may be `Absent`; `Conveyed` takes it through
`Typed` (text and int to the dto's enumeration and `size_t`), `ToProtoEventFilter`
(`uint32`, enum) and `FromProtoEventFilter`, with the widths scaled down together,
by their modulus. `Ordered` is the set of row sequences that `ORDER BY
timestamp_utc` admits. `Selected` is `LIMIT` and `OFFSET` with their defaults and
types (`1e9`, here `MaxEvents`, makes the limit numeric, `0` makes the offset an
int4, which refuses what a negative one has become). `Received` is gRPC's default
limit of 4 MiB for a received message, which nothing in the code raises: the limit
of a billion events that the comment at `postgres_events_repo.cc:21` mentions is
never reached, which is what `FilterAssumption` says by `MaxMessage < MaxEvents`.

For three kinds of filter the documents promise something else than the code does:
negative limits, negative offsets and the status `unspecified`. `AnswerIsWindow`
leaves them out (`Documented`), `AnswerAsDocumented` states the promises, and the
run `query_docs` shows that they are not kept.

### EventQuery

`Get` picks one of the orders that `Ordered` admits: SQL leaves the order of ties
open. `Save` is the commit of any other client's `SaveEvents`, with any timestamp,
also one before those that are stored: clocks differ, and local time goes back when
daylight saving ends. The id of a row is any of `Ids` that is free: it was drawn at
the insert, so that rollbacks leave gaps and transactions commit in another order.
`seen`, `first` and `last` follow a list that is read page by page: what its pages
showed and the table at the first and the last of them; `appended` says whether all
that was saved between two of its pages came after what was there.

### FilterCli

The program from `WaitForConnected` to the end of its input, one action per command
and outcome. A line is a sequence of chunks: the characters that the tokenizer looks
at are chunks of their own, the others come as single characters (`Letters`),
`Pairs` of them, and longer pieces of words, as far as `substr(2)` tells them apart:
it throws for an argument of one character and takes any two for the dashes.
`Tokens` folds the loop over the characters (`in_quotes`, `curr_arg`), and
`ParseEventFilter` the loop over the arguments, where `option` is the argument that
waits for its value. `stoi`, `StrToStatus` and `substr(2)` throw; no handler exists
and the program is `aborted`. `Exit`, which the help text offers, is an unknown
command; the program ends with its input. `SaveEvents` is one call with the outcomes
that `EventUpload` shows: refused by `Validate`, stored and answered, or failed. A
unary call that failed has stored everything or nothing; from `Threshold` events on
the call is a stream and may leave any prefix. (Which prefixes it can leave is the
matter of `EventUpload`; all of them include those.) `service` is what `config.h`
reads from `POSTGRES_HOST` (sic): where that variable is set, every save is refused.
`Entries` are the log entries that `net_logger` can make of a line (the address has
four octets), `DtoEvents` what the builder makes of one. `logged` and `clock` record
what the properties compare the output with.

### TwoServices

`pc`, `kind`, `num` and `attempt` say where each client is in its command loop:
waiting for the channel or for the backoff, with a request sent, or at the
prompt. `calls` are the handlers at work and the replies on their way; a handler
outlives the attempt and the command it belongs to (`Break`, `Deadline`), and only
`Stop` lets a cancelled stream end early. `Break` is UNAVAILABLE: a read goes back to
waiting while it has attempts left, a save fails. A save is `Parts` batches,
inserted one at a time; a unary save is the case of one. `Get` and `Stats` differ
in what they print only, so both are a read of one snapshot. `told`, `seen` and
`known` record what users were shown.

## What the runs show

- `pool` (2 connections, 4 handlers, 3 of which may time out, outages and refused
  statements at any step): no connection is shared or lost (`Conservation`); no
  wake-up is lost although `notify_one` is called outside the mutex and waits may
  expire (`NoLostWakeup`); the start-up loop gets to every connection once
  (`EveryConnectionTried`, `StartupNeverBlocks`), so that without an outage or a
  refusal every connection handed out is prepared; somebody is served while anybody
  waits without a timeout (`AcquireProgress`); the pool implements `ConnLease`.
- `pool_outage` fails: after an outage a connection is handed out, open, without
  prepared statements. `ReturnConnection` replaces connections but does not prepare
  them, and nobody does later: the connection is useless until the service restarts.
- `pool_closed` fails: a connection that cannot be re-created is queued closed,
  where the comments announce a smaller pool.
- `repo` (2 threads, 2 connections, a batch of two, one whose payload is refused, an
  empty one): atomicity, the pairing of events and payloads, durability of what was
  acknowledged, whole batches for readers; every lease ends; the repository
  implements `EventStore`.
- `upload` (all uploads of up to 5 events, batches of 2, streams from 3 on, 2
  messages in flight): success means stored, exactly once and in order; anything
  else leaves a valid prefix; the counts in the reply are true; the client returns
  even when `Execute` never does.
- `query_safety` (tables of up to 3 events with equal and different timestamps,
  every option given and not given): where documents and code agree on what a filter
  means, the answer is the window of the wanted events that the options describe,
  and it is missing exactly when the window is too large for a message
  (`AnswerIsWindow`); pages show every event once as long as timestamps differ and
  new events are the latest (`StablePagesComplete`); and when new ones are not the
  latest, those that were there are still all shown, some of them twice
  (`OldRowsAreShown`).
- `query_ties` fails: with equal timestamps, and nothing saved in between, pages can
  repeat one event and miss another. Timestamps have a resolution of one second and
  a file is saved within a few, so ties are the rule.
- `query_docs` fails: TLC's counterexample is a Get with a negative offset, for
  which the statement's `GREATEST(..., 0)` comes too late. A negative limit, which
  selects everything, and the status `unspecified`, commented with ALL, which
  selects nothing, violate the property as well, each by itself.
- `client` (lines of every shape of quoting up to four chunks, `Get` with all pairs
  of 9 options and 7 malformed ones, three log files, two service names): the
  arguments of a line are its fields (`TokensSplitAtSpaces`, against a definition by
  counting quotes); a well-formed list of options is sent with the last value of
  each (`OptionsAreHonoured`); what `Get` and `Stats` print is, apart from the time,
  what the files said (`GetPrintsWhatWasLogged`, `StatsAgree`); the service refuses
  what this client builds only under a wrong service name or when nothing was built
  (`OnlyWrongNamesRefused`).
- `client_abort` fails: `Get --limit ten`, and the `Get --status <success>` of the
  help text, end the program, where other bad options are answered with "Invalid
  filter params.".
- `client_utc` fails: the timestamps that `Get` prints are the local time of the
  client that saved the events.
- `services` (a client with two commands and one with one, 2 attempts, 2 batches per
  save): a save takes effect at most once, whatever is retried, and completely when
  it reports success (`ImplementsLedger`); reads show what was reported as saved
  before they were typed, and never go back, across attempts and restarts
  (`ReadsSeeSaved`, `ReadsNeverGoBack`).

`CHECK_DEADLOCK FALSE` appears in the upload and client runs only: a behaviour there
is one call, or one session, and it ends. In the other models a state without a
successor is an error.

### Bounds

The pool needs two connections for a queue with an order; four handlers on two
connections make two wait while two give back, so that notifications, wake-ups
without one, expiring waits and newcomers meet. One handler waits without a timeout,
the others may; as they are interchangeable, this covers every mixture that keeps
one waiting. The two runs that are expected to fail use that symmetry. `rounds` is
bounded by the start-up loop. In `EventsRepo` every batch is saved once, so `nextId`
is bounded by the number of events; two concurrent transactions of two statements
per event already interleave in every order. An event that Postgres refuses leaves
`SaveEvents` by the same way as a payload; the proofs have both. The upload keeps
the relations of the constants in the code: the stream threshold (10000, here 3)
exceeds `BATCH_SIZE` (1000, here 2), uploads of 3, 4 and 5 events end inside and at
a batch boundary, and the window of 2 makes `Write` block. In `EventQuery` three
rows allow a tie next to a distinct row and pages of one and two; `Ids` has as many
ids as rows, in every order of commit. `IntMax = 3` keeps every limit and offset
used within it and the images of the negative ones outside it; `MaxMessage = 2` lets
an answer be too large; like in the code it is below `MaxEvents`. In `FilterCli` two
events of one file and two files give ties and an order between them, `AutumnZone`
lets daylight saving end between them, `Threshold = 2` makes one file a stream and
leaves the other unary, and the two addresses have octets that tell every order of
bytes apart. In `TwoServices` stale answers need one client to read twice while
another saves, an attempt after a failed one, and two batches to be caught between;
the code's four attempts repeat the step from the first to the second.

### Fairness

A thread that can run is eventually scheduled: weak fairness of a thread's next
step, of `Main`'s start-up and of client and handler. Calls, outages, spurious
wake-ups, timeouts of the pool and crashes are never assumed to happen. Neither
`notify_one` nor the mutex is fair, so nothing says that one particular waiter
is served, and `AcquireProgress` does not claim it. `HoldersRelease` assumes that
Postgres answers a statement or that the session is found dead. `SaveBatchReturns`
assumes that the clock runs (`WF(Cut)`: every call sets a deadline) and nothing of
`Execute`. `TwoServices` has no liveness property: that a call ends at its deadline is
a promise of gRPC, which the code only asks for.

## What is proved

The theorems hold for every value of the constants that the named assumptions
admit. Every invariant and action property that a passing run checks, and every
refinement, is one of them; in each module an inductive invariant `IInv` carries
the proofs (in the start-up module, a second one on top of it).

### The pool: `ConnectionPoolProofs`, `PoolStartupProofs`

For all finite sets of handlers and connections, from `PoolAssumption` (the pool is
not empty, names are distinct).

- `TypeCorrect`, `ConnectionsConserved`. `IInv` is `TypeOK`, `Conservation` and
  `Located`, which says what the program counter knows of the handle and that
  handlers run only once `Main` serves. `Conservation` alone is not inductive:
  `Push` needs that a thread at `pushing` holds something, `Construct` that nobody
  does. `PopFront` and `PushBack` carry the facts about a FIFO without repetitions.
- `WakeupsNotLost`. `NoLostWakeup` is inductive relative to `IInv`: a push adds
  one connection and one thread in flight; taking removes one connection and at
  most one; a notification replaces one thread in flight by another; a thread
  goes to sleep only while the queue is empty.
- `PoolImplementsLease`. Every step of the pool is a step of the lease table or
  changes neither the free connections nor the leases: the last `Construct` is
  `Fill`, `TakeFront` is `Grant`, `Push` is `GiveBack`.
- `EveryoneTried`, `StartupRuns`. While `Main` prepares, no handler moves, and the
  queue is ordered (`Ordered`): first the connections that the loop has yet to
  meet (`Fresh`), then the ones it has put back, as many as its counter says. So
  the front is fresh as long as the counter is below the size of the pool, and
  none is fresh when it gets there. `Building` counts the queue during the
  constructor. That every connection was tried at the end says nothing of the
  order and is not inductive. The theorem does not say that the connections are
  prepared: an outage or an exception of the preparer leaves them without
  statements, and the code goes on.

### The repository: `EventsRepoProofs`

For all sets of threads, connections and requests and batches of every length,
from `RepoAssumption` (batches are sequences of kinds, `NoReq` and `NoConn` name
nothing).

- `SavesAreAtomic`, `OkIsStored`, `PayloadsMatch`, `ReadersSeeWholeBatches`,
  `TypeCorrect`. The invariant follows a transaction through the loop of
  `SaveEvents`. `Numbered`: in all rows, committed or open, an id is below `nextId`
  and stands for one event, and an event has one id; this is what makes the pairing
  of payloads with events survive concurrent inserts. `Open`: an open transaction
  holds the rows of the events before `pos`, and at `payload` the event whose `id`
  was returned; a dead session holds none. `Committed`: a batch is complete in
  `rows` or absent, and complete once its call succeeded; a row of an unfinished
  call means that its thread is past the commit. `OneSaver`: no two threads save the
  same batch. `Reader`: what was acknowledged before a read began is still stored
  when it is answered.
- `StoreImplemented`. The call is `Submit`, the commit is the step of `EventStore`
  that stores the batch, the release of the connection the one that answers, and a
  batch that was committed and is answered with a failure is what `EventStore`
  allows. Everything else is a stutter. `Crash` is a step of every call at once.

### The upload: `EventUploadProofs`

For uploads of every length and every threshold, batch size and window, from
`UploadAssumption` (uploads are sequences; batch size and window are positive).

- `TrueStores`, `PrefixStored`, `CountsTrue`, `TypeCorrect`. `Consecutive` is the
  core: the database, the handler's batch and the wire hold stretches of the file
  that follow one another, and reach to `sent` unless the call is cut.
  `Validated`: what was taken off the wire was valid, which is why a prefix is
  valid that was inserted before the invalid event was read. `Complete` says where
  the handler may conclude from the end of the stream that the whole file has
  arrived: only while the call is not cut, and a reply that the client receives is
  one of those. `Counted` ties `saved` and `total` to the lengths of the stretches.

### Both services: `TwoServicesProofs`

For every number of clients, commands, attempts and batches, from
`ServicesAssumption` (attempts and batches are positive).

- `LedgerImplemented`, `SavedIsSeen`, `ReadsOnlyGrow`, `TypeCorrect`. Handlers
  outlive their attempts, so that the invariant speaks of every call, awaited or
  not: `Effect`, a save at work has inserted exactly what `stored` says, a
  finished one everything, and a view is a past of `stored`; `Serves`, a call of a
  command that still runs shows at least what its user saw and knew before it was
  typed, whichever attempt made it. `OneCallPerSave` is why a save takes effect
  once: there is at most one call for it, because the retry policy does not cover
  saves. `Truthful` says that `stored` is still what the user was told.

### Queries: `EventFilterProofs`, `EventQueryProofs`

For every table, filter and page size, for all widths of an int, from
`FilterAssumption` (`MaxEvents` is an int above `MaxMessage`; `Absent` is no option's
value) and `QueryAssumption` (ids are numbers, events rows of the schema, filters
records of options; `Absent` and `Error` are no answers).

- `EventFilterProofs` has the lemmas on the filter: what five conversions leave of
  an int (`Images`, `ConveyedFilter`: a negative one comes out as the number plus
  the size of a uint32, then too large for a limit or refused as an offset), that
  the rows which match the converted filter are the wanted ones
  (`MatchingIsWanted`), and that an order lists every matching row once
  (`ListsAll`). Both users share them.
- `AnswersAreWindows`, `TypeCorrect`. The table holds rows of the schema with
  whatever ids the sequence drew, and an answer shows rows of the table it was read
  from, no more than a message holds. `Answered` keeps the order that the statement
  chose: an answer is received from some order of `last`, the table it was read
  from.
- `StablePagesAddUp`. `Paged` says that the pages so far are, as a set, the earliest
  wanted rows of `last` (`Bottom`), each once, and as many as the offset and the
  last answer count. This survives a save because rows that come later are later
  (`Grown`): the next page is cut out of an order whose beginning has the same
  elements, although it is another order of a larger table. `Part`, `SizeOfList` and
  the lemmas on ascending sequences carry it.
- `OldRowsAreNotLost`. New rows may come anywhere. `Unlost` says of each row of the
  first table that has not been shown that the pages so far are no longer than the
  rows that now come before it (`Earlier`): a new row only adds to those
  (`StillToCome`), and the page that passes them has the row.

### The command line: `FilterCliProofs`

For lines, lists of options and log files of every length, every threshold and every
course of the time zone, from `CliAssumption` (quote, space, letters and pairs differ;
numbers are ints; files are sequences of `Entries`; the zone is a function of the
time; `Absent` is none of the values) and `FilterAssumption`.

- `TokensSplit`. `TokensAreFields` proves by induction over the characters that the
  loop with `in_quotes` and `curr_arg` returns the fields that the definition by
  counting quotes finds.
- `OptionsHonoured`. `OptionsRead` proves the same of the loop over the arguments:
  when every option is followed by a value that can be read, the filter holds for
  each the value given last.
- `GetPrintsTheLog`, `StatsCountTheLog`. `EventSurvives` takes one event through
  `Build`, the dto, protobuf and row forms to the table; `RowIs` and `BatchIs` do so
  for a row and for every prefix of the rows of a file, `LogGrows` adds them to what
  was logged. `LineDescribes` follows a row back to the screen, and `WholeAnswer`
  says that without limit and offset an answer has every matching row. The theorem
  leaves open what a line says of the time (it is not what the documents promise),
  and the status `unspecified`. The invariant needs `Logged` (the table is the image
  of the log, row by row), `Requested` (a Get that could be read is sent as it was),
  `Answered` and `Totalled` (what stands on the screen is computed from the table)
  and `Quiet` (nothing does at the prompt, so that it cannot be out of date).
- `RefusalsHaveReasons`. What the builder makes of an entry passes `Validate`
  whenever the name of the service does.

Induction over a line or a list of options is made without the library's
induction theorems, which take an operator: `Induction` shows that a set of numbers
contains an interval because the set of those it lacks has no least element
(`LessWellFounded`), and `Recursion` that a fold's state after each round is given
by the body of its loop.

### What is checked by TLC only

The liveness properties `AcquireProgress`, `HoldersRelease` and `SaveBatchReturns`
rest on fairness, that is on ENABLED, which the prover does not support. The six
runs that are expected to fail show counterexamples, for which an instance is
enough. `net_logger` is an assumption of the proofs (`Files[path] \in
Seq(Entries)`), as it is of the runs.

## What is not modelled

`net_logger` is a library outside the repository; `FilterCli` takes the entries
it makes of a file as given. Connection settings, container and build files
carry no behaviour the models tell apart. Memory exhaustion, the server's thread
limit and the size of a request are left out (a unary save of close to 10000
long lines could exceed the 4 MiB that the server receives; it would be refused
like an invalid one). A restart of the service is one step, and a COMMIT that is
under way when the process is killed takes effect before the kill or never. A
port that is taken (`services/history/main.cc:79`, where `BuildAndStart` returns
nullptr) is one sequential step of start-up. Timestamps that other users of
`GrpcService` could pass malformed in `from` and `to` throw in
`ToTimestampFromStr`; `EventFilter` has the well-formed ones. A missing file, an
unknown command or a misspelt option never reaches the network, so `TwoServices`
leaves them to `FilterCli`.

## Plan

Done: all modules in the table above, and theorems for every safety property,
action property and refinement that the passing runs check.

What is left: the filter of `GetEvents` inside `EventsRepo`, where a read is one
snapshot of all rows (`EventQuery` has the statement on a table that is always
whole, which `ReadersSeeWholeBatches` justifies); and, over lemmas that exist
already, a statement of how little a failed upload leaves after each way to fail
(a prefix whose length is a multiple of the batch size, up to the remainder that
is saved after the loop), proved in `EventUploadProofs`.
