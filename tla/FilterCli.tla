------------------------------ MODULE FilterCli ------------------------------
(***************************************************************************)
(* The client program, services/ipv4_filter/main.cc: it connects, splits   *)
(* each line it reads into arguments and runs the command they name. Save  *)
(* turns the lines of a log file into events, Get parses its options, and  *)
(* what comes back is printed. The history service is here what            *)
(* EventUpload and EventFilter show of it: a batch is refused, stored or   *)
(* not stored, and the answer of a Get is what the statement selects.      *)
(*                                                                         *)
(* A line is a sequence of chunks: Quote, Space, single letters and longer *)
(* pieces of words. "--limit" is the two chunks "--" and "limit".          *)
(***************************************************************************)
EXTENDS EventFilter, FiniteSets, FiniteSetsExt

CONSTANTS Quote, Space,  \* the chunks '"' and ' '
          Letters,       \* all other chunks of one character
          Pairs,         \* the chunks of two characters
          Lines,         \* the lines that may be typed
          Lower,         \* tolower, on the words that it changes
          Number,        \* std::stoi, on the words it does not throw for
          Files,         \* the files that can be opened, by path, as net_logger reads them
          Services,      \* the names config.h may take for the service
          Zone,          \* how far the client's time zone is ahead of UTC, at each time
          Threshold,     \* STREAM_THRESHOLD
          Other,         \* a text that is not a single word, and the name of nothing
          MaxRows,       \* bound on the table
          MaxTime        \* bound on the clock

\* What net_logger makes of a line.
Entries == [raw_line : STRING, parsed_ip : {Absent} \cup {a \in Nat : a \div 256^3 < 256},
            reason : {"None", "InvalidFormat", "InvalidIPAddress", "FilterRejected"}]

\* What the builder makes of one that is not empty.
DtoEvents ==
  [source_service : Services, timestamp_utc : Int, status : {1, 2},
   payload : [raw_line : STRING, parsed_ip : {Absent} \cup Seq(Nat),
              filter_decision : {"accepted", "rejected"},
              reject_reason : {Absent, "Invalid Format", "InvalidIPAddress", "FilterRejected"}]]

ASSUME CliAssumption ==
  /\ Quote # Space /\ {Quote, Space} \cap (Letters \cup Pairs) = {} /\ Letters \cap Pairs = {}
  /\ \A l \in Lines : l \in Seq(ToSet(l))
  /\ \A w \in DOMAIN Number : Number[w] \in -(IntMax + 1) .. IntMax
  /\ \A path \in DOMAIN Files : Files[path] \in Seq(Entries)
  /\ Absent \notin Seq(Nat) \cup {"Invalid Format", "InvalidIPAddress", "FilterRejected"}
                   \cup {"source_service", "status", "limit", "from", "to", "offset"}
  /\ Other \notin {"source_service", "status", "limit", "from", "to", "offset"}
  /\ Absent \notin DtoEvents
  /\ MaxRows \in Nat /\ MaxTime \in Nat \ {0} /\ Threshold \in Nat \ {0}
  /\ Zone \in [1 .. MaxTime -> Int]

\* The elements of s at the positions I, in their order.
Extract(s, I) ==
  LET At(p) == CHOOSE i \in I : Cardinality({j \in I : j <= i}) = p
  IN  [p \in 1 .. Cardinality(I) |-> s[At(p)]]

VARIABLES
  client,   \* "starting", at the "prompt", "printed" the output of a command,
            \* "ended", or "aborted" by an exception
  service,  \* cfg.service_name
  line,     \* the line read last
  request,  \* the filter of the last command, if it was a Get that was sent
  printed,  \* what that command printed, [says, what]
  table,    \* events JOIN payloads
  logged,   \* the log entries behind its rows and when they were read
  clock     \* system_clock

vars == <<client, service, line, request, printed, table, logged, clock>>

Output(says, what) == [says |-> says, what |-> what]

Init ==
  /\ client = "starting" /\ service \in Services
  /\ line = <<>> /\ request = Absent /\ printed = Output("", Absent)
  /\ table = {} /\ logged = {} /\ clock = 1

-------------------------------------------------------------------------------
(* The tokenizer.                                                          *)

EndArg(t) ==
  IF t.curr_arg = <<>> THEN t
  ELSE [args |-> Append(t.args, t.curr_arg), curr_arg |-> <<>>, in_quotes |-> t.in_quotes]

Bug_QuoteEndsArg(t, c) ==
  IF c = Quote THEN EndArg([t EXCEPT !.in_quotes = ~@])
  ELSE IF c = Space /\ ~t.in_quotes THEN EndArg(t)
  ELSE [t EXCEPT !.curr_arg = Append(@, c)]

ReadChunk(t, c) ==
  CASE c = Quote                    -> [t EXCEPT !.in_quotes = ~@]
    [] c = Space /\ ~t.in_quotes    -> EndArg(t)
    [] OTHER                        -> [t EXCEPT !.curr_arg = Append(@, c)]

\* The variables of the loop after i chunks of l.
Reading(l) ==
  LET t[i \in 0 .. Len(l)] ==
        IF i = 0 THEN [args |-> <<>>, curr_arg |-> <<>>, in_quotes |-> FALSE]
        ELSE ReadChunk(t[i - 1], l[i])
  IN  t

\* An argument is a non-empty sequence of chunks.
Tokens(l) == EndArg(Reading(l)[Len(l)]).args

Text(arg) == IF arg = <<>> THEN "" ELSE IF Len(arg) = 1 THEN Head(arg) ELSE Other

Command(l) ==
  LET word == Text(Head(Tokens(l)))
  IN  IF Tokens(l) = <<>> THEN "" ELSE IF word \in DOMAIN Lower THEN Lower[word] ELSE word

-------------------------------------------------------------------------------
(* ParseEventFilter.                                                       *)

NoFilter == [source_service |-> Absent, status |-> Absent, limit |-> Absent,
             from |-> Absent, to |-> Absent, offset |-> Absent]

\* The options of kMap.
Types == DOMAIN NoFilter

\* substr(2) throws when there is no second character, and takes any two for "--".
\* What is left of a longer chunk is no option, as "mit" of "limit".
HasPrefix(arg) == ~(Len(arg) = 1 /\ Head(arg) \in Letters \cup {Space})

AfterDashes(arg) ==
  CASE Head(arg) \in Pairs -> Text(Tail(arg))
    [] Len(arg) > 1 /\ {arg[1], arg[2]} \subseteq Letters \cup {Space} -> Text(Tail(Tail(arg)))
    [] OTHER -> Other

ParseOption(p, arg) ==
  CASE ~HasPrefix(arg) -> [p EXCEPT !.outcome = "throws"]
    [] HasPrefix(arg) /\ AfterDashes(arg) \notin Types ->
         [p EXCEPT !.outcome = "invalid"]
    [] OTHER -> [p EXCEPT !.option = AfterDashes(arg)]

Bug_LimitForOffset(p, type, v) ==
  [filter |-> [p.filter EXCEPT ![IF type = "offset" THEN "limit" ELSE type] = v],
   option |-> Absent, outcome |-> p.outcome]

SetOption(p, type, v) ==
  [filter |-> [p.filter EXCEPT ![type] = v], option |-> Absent, outcome |-> p.outcome]

\* stoi and StrToStatus throw for what they cannot read.
ParseValue(p, arg) ==
  CASE p.option \in {"from", "to"} -> [p EXCEPT !.outcome = "invalid"]
    [] p.option \in {"limit", "offset"} /\ Text(arg) \in DOMAIN Number ->
         SetOption(p, p.option, Number[Text(arg)])
    [] p.option = "status" /\ Text(arg) \in DOMAIN StrToStatus -> SetOption(p, "status", Text(arg))
    [] p.option = "source_service" -> SetOption(p, "source_service", Text(arg))
    [] OTHER -> [p EXCEPT !.outcome = "throws"]

ParseArg(p, arg) ==
  IF p.outcome # "ok" THEN p
  ELSE IF p.option = Absent THEN ParseOption(p, arg) ELSE ParseValue(p, arg)

\* The state of the loop after argument i; the first one is the command.
Parsing(args) ==
  LET p[i \in 1 .. Len(args)] ==
        IF i = 1 THEN [filter |-> NoFilter, option |-> Absent, outcome |-> "ok"]
        ELSE ParseArg(p[i - 1], args[i])
  IN  p

\* An option without a value at the end is reported and passed over.
ParseEventFilter(args) == Parsing(args)[Len(args)]

-------------------------------------------------------------------------------
(* The program.                                                            *)

Show(says, what) == printed' = Output(says, what) /\ client' = "printed"

\* WaitForConnected, five seconds.
Connect ==
  /\ client = "starting" /\ client' = "prompt"
  /\ UNCHANGED <<service, line, request, printed, table, logged, clock>>

ConnectFails ==
  /\ client = "starting" /\ client' = "ended"
  /\ UNCHANGED <<service, line, request, printed, table, logged, clock>>

EndOfInput ==
  /\ client = "prompt" /\ client' = "ended"
  /\ UNCHANGED <<service, line, request, printed, table, logged, clock>>

\* The loop starts again; what the last command was and printed is past.
Prompt ==
  /\ client = "printed" /\ client' = "prompt"
  /\ line' = <<>> /\ request' = Absent /\ printed' = Output("", Absent)
  /\ UNCHANGED <<service, table, logged, clock>>

\* The line l is read and names the command.
Reads(l, command) == client = "prompt" /\ Command(l) = command /\ line' = l

\* Nothing, Help, and a command that is unknown, which Exit is.
Talk(l) ==
  /\ client = "prompt" /\ Command(l) \notin {"save", "get", "stats"} /\ line' = l
  /\ Show(CASE Command(l) = "" -> "" [] Command(l) = "help" -> "help" [] OTHER -> "unknown",
           Absent)
  /\ UNCHANGED <<service, request, table, logged, clock>>

Path(l) == IF Len(Tokens(l)) < 2 THEN Absent ELSE Tokens(l)[2]

SaveWithoutFile(l) ==
  /\ Reads(l, "save") /\ Path(l) \notin DOMAIN Files
  /\ Show(IF Path(l) = Absent THEN "missing file path" ELSE "can't open file", Absent)
  /\ UNCHANGED <<service, request, table, logged, clock>>

\* Entry i of a file is read, and its event built, at times[i].
BuiltAt(entries, times) ==
  [i \in DOMAIN entries |-> Build(service, entries[i], FormatTimestamp(times[i], Zone[times[i]]))]

Bug_DropFirst(entries, times) ==
  LET built == BuiltAt(entries, times)
  IN  Extract(built, {i \in DOMAIN built : built[i] # Absent /\ i > 1})

\* SaveEventUseCase.
Events(entries, times) ==
  LET built == BuiltAt(entries, times)
  IN  Extract(built, {i \in DOMAIN built : built[i] # Absent})

Times(entries) ==
  {times \in [DOMAIN entries -> clock .. MaxTime] :
     \A i, j \in DOMAIN entries : i < j => times[i] <= times[j]}

\* The lines of a file that are not empty, and what is logged of the first n.
LinesOf(entries, times) ==
  Extract([i \in DOMAIN entries |-> [entry |-> entries[i], time |-> times[i]]],
          {i \in DOMAIN entries : entries[i].raw_line # ""})

LogOf(lines, n) ==
  {[id |-> Cardinality(table) + i, entry |-> lines[i].entry, time |-> lines[i].time] :
     i \in 1 .. n}

\* One call, SaveEvent or, from the threshold on, SaveEventsStream: refused by
\* Validate, stored and answered in time, or failed. A SaveEvent that failed has
\* stored everything or nothing, a stream any number of its events. Everything is
\* every line that is not empty, whatever became of it here.
SaveEvents(entries, times) ==
  LET lines == LinesOf(entries, times)
      events == Events(entries, times)
      sent == [i \in DOMAIN events |-> ToProtoEvent(events[i])]
      Row(i) == ToRow(ToDtoEvent(sent[i]), Cardinality(table) + i)
      valid == sent # <<>> /\ \A i \in DOMAIN sent : ValidateEvent(sent[i])
      Stores(n) == /\ \A i \in 1 .. n : SatisfiesSchema(Row(i))
                   /\ table' = table \cup {Row(i) : i \in 1 .. n}
                   /\ logged' = logged \cup LogOf(lines, IF n = Len(sent) THEN Len(lines) ELSE n)
  IN  \/ ~valid /\ Show("refused", Absent) /\ Stores(0)
      \/ valid /\ Show("saved", Absent) /\ Stores(Len(sent))
      \/ \E n \in 0 .. Len(sent) :
           /\ n > 0 => valid
           /\ n \notin {0, Len(sent)} => Len(sent) >= Threshold
           /\ Show("failed", Absent) /\ Stores(n)

Save(l) ==
  /\ Reads(l, "save") /\ Path(l) \in DOMAIN Files
  /\ LET entries == Files[Path(l)] IN
     /\ Cardinality(table) + Len(entries) <= MaxRows
     /\ \E times \in Times(entries) :
          SaveEvents(entries, times) /\ clock' = Max({clock} \cup ToSet(times))
  /\ UNCHANGED <<service, request>>

\* "Invalid filter params."
GetRefused(l) ==
  /\ Reads(l, "get") /\ ParseEventFilter(Tokens(l)).outcome = "invalid"
  /\ Show("invalid", Absent)
  /\ UNCHANGED <<service, request, table, logged, clock>>

\* Nobody catches the exception: std::terminate.
GetThrows(l) ==
  /\ Reads(l, "get") /\ ParseEventFilter(Tokens(l)).outcome = "throws"
  /\ client' = "aborted" /\ UNCHANGED <<service, request, printed, table, logged, clock>>

\* The event of a row as the client receives it and lays it out in one line, where
\* Absent is printed as None.
Shown(row) == [ToDtoEvent(ToProtoEvent(FromRow(row))) EXCEPT !.status = StatusToStr(@)]

Get(l) ==
  /\ Reads(l, "get") /\ ParseEventFilter(Tokens(l)).outcome = "ok"
  /\ request' = ParseEventFilter(Tokens(l)).filter
  /\ \E s \in Ordered(table, Conveyed(request')) :
       LET answer == Received(GetEvents(Conveyed(request'), s)) IN
       \/ answer # Error /\ Show("events", [i \in DOMAIN answer |-> Shown(answer[i])])
       \/ Show("failed", Absent)
  /\ UNCHANGED <<service, table, logged, clock>>

\* The get_stats statement.
Counted(rows) ==
  LET Count(status) == Cardinality({row \in rows : row.status = status})
  IN  [events_total |-> Cardinality(rows),
       events_success |-> Count("success"), events_error |-> Count("error")]

Stats(l) ==
  /\ Reads(l, "stats")
  /\ \/ Show("stats", ToDtoStats(ToProtoStats(Counted(table))))
     \/ Show("failed", Absent)
  /\ UNCHANGED <<service, request, table, logged, clock>>

Next == \/ Connect \/ ConnectFails \/ Prompt \/ EndOfInput
        \/ \E l \in Lines : \/ Talk(l) \/ SaveWithoutFile(l) \/ Save(l)
                            \/ GetRefused(l) \/ GetThrows(l) \/ Get(l) \/ Stats(l)

Spec == Init /\ [][Next]_vars

-------------------------------------------------------------------------------
(* Properties.                                                             *)

TypeOK ==
  /\ client \in {"starting", "prompt", "printed", "ended", "aborted"}
  /\ service \in Services /\ line \in Lines \cup {<<>>} /\ clock \in 1 .. MaxTime
  /\ request = Absent \/ DOMAIN request = Types
  /\ Cardinality(table) <= MaxRows
  /\ {row.id : row \in table} = {x.id : x \in logged}
  /\ \A row \in table : SatisfiesSchema(row)

\* The places of the k-th field of a line between spaces outside quotes, whose
\* number of quotes before them is even.
QuotesBefore(l, i) == Cardinality({j \in 1 .. i - 1 : l[j] = Quote})
Separators(l) == {i \in DOMAIN l : l[i] = Space /\ QuotesBefore(l, i) % 2 = 0}
Own(l, k) == {i \in DOMAIN l \ Separators(l) :
                /\ l[i] # Quote
                /\ Cardinality({j \in Separators(l) : j < i}) = k}
NonEmpty(l) == {k \in 0 .. Len(l) : Own(l, k) # {}}

\* The arguments of a line are its fields that are not empty: spaces in quotes
\* belong to a field, quotes do not, an unmatched one reaches to the end of the
\* line, and "" is no argument.
TokensSplitAtSpaces ==
  Tokens(line) =
    Extract([k \in 0 .. Len(line) |-> Extract(line, Own(line, k))], NonEmpty(line))

-------------------------------------------------------------------------------
\* The positions of the options that have a value, and what the values mean.
Options(args) == {i \in DOMAIN args : i % 2 = 0 /\ i < Len(args)}
Means(type, arg) == IF type \in {"limit", "offset"} THEN Number[Text(arg)] ELSE Text(arg)
IsReadable(type, arg) ==
  CASE type \in {"limit", "offset"} -> Text(arg) \in DOMAIN Number
    [] type = "status" -> Text(arg) \in DOMAIN StrToStatus
    [] type = "source_service" -> TRUE
    [] OTHER -> FALSE

\* A Get whose options are all known and have readable values is sent, with the
\* value that was given last for each option, whatever their number and order.
OptionsAreHonoured ==
  LET args == Tokens(line)
      Given(type) == {i \in Options(args) : AfterDashes(args[i]) = type}
  IN  /\ Command(line) = "get"
      /\ Len(args) % 2 = 1
      /\ \A i \in Options(args) : /\ HasPrefix(args[i])
                                  /\ IsReadable(AfterDashes(args[i]), args[i + 1])
      => request = [type \in Types |->
                      IF Given(type) = {} THEN Absent ELSE Means(type, args[Max(Given(type)) + 1])]

-------------------------------------------------------------------------------
Quad(o) == ((o[1] * 256 + o[2]) * 256 + o[3]) * 256 + o[4]
Reason(text) == IF text = Absent THEN "None"
                ELSE IF text = "Invalid Format" THEN "InvalidFormat" ELSE text

\* p is, but for its timestamp, the line that a reader of the log expects for x.
Describes(p, x) ==
  /\ p.payload.raw_line = x.entry.raw_line
  /\ p.source_service = service
  /\ p.status = "success" <=> x.entry.parsed_ip # Absent
  /\ p.payload.filter_decision = "accepted" <=> x.entry.reason = "None"
  /\ Reason(p.payload.reject_reason) = x.entry.reason
  /\ Map(p.payload.parsed_ip, Quad) = x.entry.parsed_ip

Alike(p, q) ==
  p.source_service = q.source_service /\ p.status = q.status /\ p.payload = q.payload

\* The lines of a Get without limit and offset are, one to one and whatever their
\* timestamps, the log entries that its source and status select, through the
\* builder, two messages, two validations, the rows and the layout. It says nothing
\* of the status "unspecified".
GetPrintsWhatWasLogged ==
  /\ printed.says = "events" /\ request.limit = Absent /\ request.offset = Absent
  /\ request.status # "unspecified"
  => LET Selects(x) ==
           /\ request.source_service \in {Absent, service}
           /\ request.status = Absent \/ \E b \in {x.entry.parsed_ip # Absent} :
                request.status = IF b THEN "success" ELSE "error"
         shown == printed.what
         wanted == {x \in logged : Selects(x)}
     IN  /\ Len(shown) = Cardinality(wanted)
         /\ \A i \in DOMAIN shown :
              Cardinality({j \in DOMAIN shown : Alike(shown[j], shown[i])})
                = Cardinality({x \in wanted : Describes(shown[i], x)})

\* "ISO-8601 UTC timestamp" (README.md:15), in the column TIMESTAMP_UTC: a line that
\* is printed tells when its entry was read, in UTC.
TimestampsAreUtc ==
  printed.says = "events" =>
    \A p \in ToSet(printed.what) :
      \E x \in logged : Describes(p, x) /\ p.timestamp_utc = x.time

\* What Stats prints adds up, and counts the entries of the logs.
StatsAgree ==
  printed.says = "stats" =>
    /\ printed.what.events_total = printed.what.events_success + printed.what.events_error
    /\ printed.what.events_success = Cardinality({x \in logged : x.entry.parsed_ip # Absent})
    /\ printed.what.events_total = Cardinality(logged)

\* The service refuses what this client builds only if the client goes by another
\* name or the file has no line that is not empty.
OnlyWrongNamesRefused ==
  printed.says = "refused" =>
    \/ service # "ipv4_filter"
    \/ \A entry \in ToSet(Files[Path(line)]) : entry.raw_line = ""

\* "Invalid filter params." (services/ipv4_filter/main.cc:156) is the answer to
\* options that cannot be read; the prompt stays.
BadOptionIsReported == client # "aborted"
===============================================================================
