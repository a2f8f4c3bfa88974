------------------------------ MODULE EventFilter ------------------------------
(***************************************************************************)
(* dto::EventFilter on its way from the one who asks to the statement      *)
(* get_events, and the answer on its way back: the conversions of          *)
(* shared/utils/utils.cc with the widths of limit and offset, scaled down  *)
(* together, the statement itself (postgres_events_repo.cc), and the       *)
(* response, which gRPC refuses beyond a size.                             *)
(***************************************************************************)
EXTENDS EventCodec, Sequences, SequencesExt

CONSTANTS IntMax,      \* 2^31 - 1
          MaxEvents,   \* the 1e9 of the statement
          MaxMessage,  \* the events that fit into gRPC's 4 MiB for a received message
          Error        \* the answer std::nullopt

UintSize == 2 * (IntMax + 1)
SizeSize == UintSize * UintSize

ASSUME FilterAssumption ==
  /\ IntMax \in Nat /\ MaxEvents \in 1 .. IntMax /\ MaxMessage \in 0 .. MaxEvents - 1
  /\ Absent \notin Int \cup [seconds : Int] \cup {"UNSPECIFIED", "SUCCESS", "ERROR"}

-------------------------------------------------------------------------------
(* The filter on its way.                                                  *)

\* What is typed: text, and numbers that std::stoi reads as int and that are
\* assigned to a size_t.
Typed(f) ==
  LET ToSize(n) == n % SizeSize
      ToStatus(s) == StrToStatus[s]
  IN  [f EXCEPT !.limit = Map(@, ToSize), !.offset = Map(@, ToSize),
                !.status = Map(@, ToStatus)]

\* RFC 3339 text; the seconds and nanoseconds of the message lose nothing of it.
ToTimestampFromStr(str) == [seconds |-> str]
FromTimestampToStr(timestamp) == timestamp.seconds

\* The fields limit and offset of the message are uint32.
ToProtoEventFilter(f) ==
  LET ToUint(n) == n % UintSize
  IN  [f EXCEPT !.limit = Map(@, ToUint), !.offset = Map(@, ToUint),
                !.status = Map(@, ToProtoEventStatus),
                !.from = Map(@, ToTimestampFromStr), !.to = Map(@, ToTimestampFromStr)]

\* has_status() holds for an UNSPECIFIED that was set.
FromProtoEventFilter(m) ==
  [m EXCEPT !.status = Map(@, FromProtoEventStatus),
            !.from = Map(@, FromTimestampToStr), !.to = Map(@, FromTimestampToStr)]

Conveyed(f) == FromProtoEventFilter(ToProtoEventFilter(Typed(f)))

-------------------------------------------------------------------------------
(* The get_events statement.                                               *)

\* WHERE column = COALESCE(parameter, column)
Matching(rows, f) ==
  {row \in rows : /\ f.source_service \in {Absent, row.source_service}
                  /\ Map(f.status, StatusToStr) \in {Absent, row.status}
                  /\ f.from = Absent \/ row.timestamp_utc >= f.from
                  /\ f.to = Absent \/ row.timestamp_utc <= f.to}

Ascending(s) == \A i, j \in DOMAIN s : i < j => s[i].timestamp_utc <= s[j].timestamp_utc

Bug_NoOrderBy(rows, f) == SetToSeqs(Matching(rows, f))

\* ORDER BY timestamp_utc: rows with equal timestamps come in any order, and in
\* another one the next time.
Ordered(rows, f) == {s \in SetToSeqs(Matching(rows, f)) : Ascending(s)}

Lesser(m, n) == IF m < n THEN m ELSE n

Bug_OneBased(s, limit, offset) == SubSeq(s, offset + 2, Lesser(offset + limit, Len(s)))

\* LIMIT and OFFSET.
Slice(s, limit, offset) == SubSeq(s, offset + 1, Lesser(offset + limit, Len(s)))

\* The limit is compared with 1e9 and is numeric, the offset with 0 and is int4.
Selected(s, limit, offset) ==
  IF offset # Absent /\ offset > IntMax
    THEN Error
    ELSE Slice(s, IF limit = Absent THEN MaxEvents ELSE limit,
                  IF offset = Absent THEN 0 ELSE offset)

Bug_SwapParams(f, s) == Selected(s, f.offset, f.limit)   \* $5 and $6

\* s: the rows in one of the orders of ORDER BY.
GetEvents(f, s) == Selected(s, f.limit, f.offset)

Bug_Unlimited(events) == events   \* SetMaxReceiveMessageSize(-1)

\* A response that is too large ends the call with RESOURCE_EXHAUSTED.
Received(events) ==
  IF events # Error /\ Len(events) > MaxMessage THEN Error ELSE events
===============================================================================
