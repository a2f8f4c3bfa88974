------------------------------ MODULE EventQuery ------------------------------
(***************************************************************************)
(* GetEvents as its users see it: a table that grows, filters with every   *)
(* option given and not given (from and to come from users of GrpcService  *)
(* other than the command line), and lists that are read page by page.     *)
(***************************************************************************)
EXTENDS EventFilter, FiniteSets

CONSTANTS Events,      \* the events that may be saved
          Ids,         \* the ids that the sequence of events.id may draw: bounds the table
          Filters      \* the filters that may be asked for

\* What the columns hold, of schema.sql, and what may be typed for an option.
Rows == [id : Nat, timestamp_utc : Int, status : {"success", "error"},
         source_service : {"calculator", "ipv4_filter"}]

Optional(S) == S \cup {Absent}
Options == [source_service : Optional(STRING), status : Optional(DOMAIN StrToStatus),
            limit : Optional(-(IntMax + 1) .. IntMax), from : Optional(Int),
            offset : Optional(-(IntMax + 1) .. IntMax), to : Optional(Int)]

ASSUME QueryAssumption ==
  /\ Ids \subseteq Nat /\ Events \subseteq Rows /\ Filters \subseteq Options
  /\ Absent # Error /\ Absent \notin Filters /\ {Absent, Error} \cap Seq(Rows) = {}

VARIABLES
  table,     \* events JOIN payloads
  request,   \* the filter typed last
  answer,    \* what was printed for it
  seen,      \* everything printed by the commands that lead to it page by page
  first,     \* the table when the first of these pages was read
  last,      \* the table when the last of them was read
  appended   \* whether all that was saved between two of them was the latest

vars == <<table, request, answer, seen, first, last, appended>>

Init == /\ table = {} /\ first = {} /\ last = {} /\ appended = TRUE
        /\ request = Absent /\ answer = Absent /\ seen = Absent

-------------------------------------------------------------------------------
\* Some client's SaveEvents commits an event. Its id was drawn when it was
\* inserted, so ids leave gaps where a transaction rolled back and transactions
\* commit in another order. (A batch that commits more leaves the tables of as
\* many such steps, but for those in between, which no Get is bound to see.)
Save(e) ==
  \E n \in Ids \ {row.id : row \in table} :
    /\ table' = table \cup {[e EXCEPT !.id = n]}
    /\ UNCHANGED <<request, answer, seen, first, last, appended>>

\* f asks for the page that follows what has been seen.
FirstPage(f) == f.offset = Absent
NextPage(f) ==
  /\ request # Absent /\ seen # Absent
  /\ f.offset = Len(seen)
  /\ [f EXCEPT !.offset = Absent] = [request EXCEPT !.offset = Absent]

Later(S, T) == \A x \in S, y \in T : y.timestamp_utc < x.timestamp_utc

\* The command Get.
Get(f) ==
  \E s \in Ordered(table, Conveyed(f)) :
    LET got == Received(GetEvents(Conveyed(f), s)) IN
    /\ request' = f /\ answer' = got
    /\ seen' = IF got = Error THEN Absent
               ELSE IF FirstPage(f) THEN got
               ELSE IF NextPage(f) THEN seen \o got
               ELSE Absent
    /\ first' = IF FirstPage(f) THEN table ELSE IF seen' = Absent THEN {} ELSE first
    /\ last' = table
    /\ appended' = \/ FirstPage(f) \/ seen' = Absent
                   \/ appended /\ Later(table \ last, last)
    /\ UNCHANGED table

Next == \/ \E e \in Events : Save(e)
        \/ \E f \in Filters : Get(f)

Spec == Init /\ [][Next]_vars

-------------------------------------------------------------------------------
(* Properties.                                                             *)

TypeOK ==
  /\ table \subseteq Rows
  /\ request \in Filters \cup {Absent}
  /\ first \subseteq table /\ last \subseteq table
  /\ \/ answer \in {Absent, Error}
     \/ ToSet(answer) \subseteq last /\ Len(answer) <= MaxMessage
  /\ appended \in BOOLEAN

Lowest(M, n) ==   \* the sets of n rows of M with no later one than those outside
  {L \in SUBSET M : /\ Cardinality(L) = Lesser(n, Cardinality(M))
                    /\ \A x \in L : \A y \in M \ L : x.timestamp_utc <= y.timestamp_utc}

Wanted(f) ==   \* what the filter asks for, read off the filter as it was typed
  {row \in last : /\ f.source_service \in {Absent, row.source_service}
                  /\ f.status \in {Absent, row.status}
                  /\ f.from # Absent => row.timestamp_utc >= f.from
                  /\ f.to # Absent => row.timestamp_utc <= f.to}

\* The answer is the window of the wanted events that limit and offset describe,
\* in order and each once. There is none if and only if it does not fit into a
\* message.
AnswerFits(f) ==
  LET skip  == IF f.offset = Absent THEN 0 ELSE f.offset
      limit == IF f.limit = Absent THEN MaxEvents ELSE f.limit
      size  == Lesser(limit, Cardinality(Wanted(f)) - Lesser(skip, Cardinality(Wanted(f))))
  IN  IF size > MaxMessage
        THEN answer = Error
        ELSE /\ answer # Error
             /\ IsInjective(answer) /\ Ascending(answer) /\ Len(answer) = size
             /\ \E before \in Lowest(Wanted(f), skip) :
                  ToSet(answer) \in Lowest(Wanted(f) \ before, size)

\* The filters for which the documents and the code agree on what they mean.
Documented(f) ==
  /\ f.status # "unspecified"
  /\ f.limit = Absent \/ f.limit >= 0
  /\ f.offset = Absent \/ f.offset >= 0

\* Across five conversions, the statement and the response, the answer is the
\* window of the events that was asked for.
AnswerIsWindow ==
  request # Absent /\ Documented(request) => AnswerFits(request)

\* What the documents say of the others: "UNSPECIFIED /*ALL*/" (event.h:23), and
\* "OFFSET GREATEST(COALESCE($6, 0), 0)" (postgres_events_repo.cc:32).
Meant(f) ==
  [f EXCEPT !.status = IF @ = "unspecified" THEN Absent ELSE @,
            !.offset = IF @ # Absent /\ @ < 0 THEN 0 ELSE @]

\* Every answer is what the documents say: the status "unspecified" selects all, a
\* negative offset skips nothing, and a negative limit is refused, since limits
\* are "sql like" (README.md:62).
AnswerAsDocumented ==
  request # Absent =>
    IF request.limit # Absent /\ request.limit < 0
      THEN answer = Error
      ELSE AnswerFits(Meant(request))

\* The last page of a list read with --limit and --offset has been printed.
ListEnds ==
  /\ request # Absent /\ seen # Absent
  /\ request.limit # Absent /\ request.limit > Len(answer)

ListIsComplete ==
  IsInjective(seen) /\ ToSet(seen) = Wanted(request)

NoTies == \A x, y \in last : x.timestamp_utc = y.timestamp_utc => x = y

\* Pages show every event once, those saved between two of them included, as
\* long as no two events share a timestamp and what is saved is the latest.
StablePagesComplete == ListEnds /\ NoTies /\ appended => ListIsComplete

\* Whatever is saved between the pages, with a timestamp however early: it moves
\* the start of the next page, but no event is lost that was there from the
\* beginning. (Some are shown again, and the new one may be missed.)
OldRowsAreShown ==
  ListEnds /\ NoTies => Wanted(request) \cap first \subseteq ToSet(seen)

\* "--offset <number> - Offset for pagination" (services/ipv4_filter/main.cc:110):
\* pages show every event once whenever nothing is saved in between.
PagesComplete == ListEnds /\ first = last => ListIsComplete
===============================================================================
