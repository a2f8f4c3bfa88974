------------------------------ MODULE MCFilterCli ------------------------------
(***************************************************************************)
(* Small instances of FilterCli: lines that quote and misquote, options in *)
(* every order and twice, options without value, without dashes, unknown   *)
(* and unreadable, and log files of every kind of entry.                   *)
(***************************************************************************)
EXTENDS FilterCli, TLC

\* Every line of up to four chunks, for the tokenizer.
ShortLines == UNION {[1 .. n -> {Quote, Space, "a"}] : n \in 0 .. 4}

SomeLower == "Help" :> "help" @@ "Exit" :> "exit" @@ "Save" :> "save"
               @@ "GET" :> "get" @@ "Get" :> "get" @@ "Stats" :> "stats"

SomeNumber == "1" :> 1 @@ "2" :> 2 @@ "-1" :> -1

Option(name, value) == <<Space, "--", name, Space, value>>

SomeOptions ==
  {<<>>, Option("limit", "1"), Option("limit", "2"), Option("offset", "1"),
   Option("limit", "-1"), Option("status", "success"), Option("status", "unspecified"),
   <<Space, Quote, "--", "source_service", Quote, Space, Space, "ipv4_filter">>,
   <<Space, "xx", "status", Space, Quote, "error", Quote>>}

BadOptions ==
  {Option("limit", "ten"), Option("status", "<success>"), Option("from", "1"),
   Option("verbose", "1"), <<Space, "x">>, <<Space, "--", "status">>, <<Space, "limit">>}

SomeLines ==
  ShortLines \cup
  {<<"Help">>, <<"Exit">>, <<"Stats", Space>>, <<"Save">>,
   <<"Save", Space, "log">>, <<"Save", Space, Quote, "my", Space, "log", Quote>>,
   <<"Save", Space, Quote, "my", Space, "log">>, <<"Save", Space, "my", Space, "log">>,
   <<"Save", Space, "blank">>, <<Quote, "GET", Quote>>}
  \cup {<<"Get">> \o o \o p : o \in SomeOptions, p \in SomeOptions \cup BadOptions}
  \cup {<<"Get">> \o o \o p : o \in BadOptions, p \in {Option("limit", "1")}}

\* Daylight saving time ends.
AutumnZone == [time \in 1 .. MaxTime |-> IF time = 1 THEN 3 ELSE 1]

\* 10.0.0.5 and 10.5.0.0
SomeFiles ==
  <<"log">> :>
     <<[raw_line |-> "x 10.0.0.5", parsed_ip |-> 167772165, reason |-> "None"],
       [raw_line |-> "x 10.5.0.0", parsed_ip |-> 168099840, reason |-> "FilterRejected"]>>
  @@ <<"my", Space, "log">> :>
     <<[raw_line |-> "", parsed_ip |-> Absent, reason |-> "InvalidFormat"],
       [raw_line |-> "x 10.0.0.500", parsed_ip |-> Absent, reason |-> "InvalidIPAddress"]>>
  @@ <<"blank">> :>
     <<[raw_line |-> "", parsed_ip |-> Absent, reason |-> "InvalidFormat"]>>
===============================================================================
