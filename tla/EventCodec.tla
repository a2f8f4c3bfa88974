------------------------------ MODULE EventCodec ------------------------------
(***************************************************************************)
(* The forms an event takes between a log line and the screen, and the     *)
(* conversions between them: the LogEntry of net_logger, dto::Event (event *)
(* .h), the protobuf Event (event_service.proto) and the row of events     *)
(* JOIN payloads (schema.sql). A dto status is its number, a proto one its *)
(* name in capitals, and the text of the database and of the command line  *)
(* is in small letters. A time is a number of seconds.                     *)
(***************************************************************************)
EXTENDS Integers

CONSTANT Absent    \* std::nullopt, a field that is not set, NULL

Map(v, Op(_)) == IF v = Absent THEN Absent ELSE Op(v)

-------------------------------------------------------------------------------
(* From a log entry, [raw_line, parsed_ip, reason], to the dto.            *)

Bug_SwapBytes(addr) ==
  <<addr % 256, (addr \div 256) % 256, (addr \div 256^2) % 256, (addr \div 256^3) % 256>>

\* The octets of a.b.c.d, the first from the highest byte.
IPv4AddressToString(addr) ==
  <<(addr \div 256^3) % 256, (addr \div 256^2) % 256, (addr \div 256) % 256, addr % 256>>

FilterRejectReasonToStr(reason) ==
  CASE reason = "InvalidFormat" -> "Invalid Format"
    [] reason \in {"InvalidIPAddress", "FilterRejected"} -> reason
    [] OTHER -> Absent

GetFilterDecision(reason) == IF reason = "None" THEN "accepted" ELSE "rejected"

\* std::localtime: what a clock on the wall shows, which then is zone seconds ahead
\* of UTC.
FormatTimestamp(timestamp, zone) == timestamp + zone

Built(service, entry, timestamp_utc) ==
  [source_service |-> service,
   timestamp_utc  |-> timestamp_utc,
   status         |-> IF entry.parsed_ip # Absent THEN 1 ELSE 2,
   payload        |-> [raw_line        |-> entry.raw_line,
                       parsed_ip       |-> Map(entry.parsed_ip, IPv4AddressToString),
                       filter_decision |-> GetFilterDecision(entry.reason),
                       reject_reason   |-> FilterRejectReasonToStr(entry.reason)]]

Bug_BuildEmpty(service, entry, timestamp_utc) == Built(service, entry, timestamp_utc)

\* An empty line becomes no event.
Build(service, entry, timestamp_utc) ==
  IF entry.raw_line = "" THEN Absent ELSE Built(service, entry, timestamp_utc)

-------------------------------------------------------------------------------
(* Between the dto and the message.                                        *)

ToProtoEventStatus(status) == <<"UNSPECIFIED", "SUCCESS", "ERROR">>[status + 1]

FromProtoEventStatus(status) == [UNSPECIFIED |-> 0, SUCCESS |-> 1, ERROR |-> 2][status]

ToProtoFilterDecision(filter_decision) ==
  CASE filter_decision = "accepted" -> "ACCEPTED"
    [] filter_decision = "rejected" -> "REJECTED"
    [] OTHER -> "FILTER_DECISION_UNSPECIFIED"

FromProtoFilterDecision(decision) ==
  CASE decision = "ACCEPTED" -> "accepted"
    [] decision = "REJECTED" -> "rejected"
    [] OTHER -> ""

ToProtoEvent(event) ==
  [event EXCEPT !.status = ToProtoEventStatus(@),
                !.payload.filter_decision = ToProtoFilterDecision(@)]

ToDtoEvent(proto_event) ==
  [proto_event EXCEPT !.status = FromProtoEventStatus(@),
                      !.payload.filter_decision = FromProtoFilterDecision(@)]

\* What the service accepts.
ValidateEvent(proto_event) ==
  /\ proto_event.source_service = "ipv4_filter"
  /\ proto_event.timestamp_utc # Absent
  /\ proto_event.status # "UNSPECIFIED"
  /\ proto_event.payload.raw_line # ""
  /\ proto_event.payload.filter_decision # "FILTER_DECISION_UNSPECIFIED"

Bug_SwapCounts(stats) ==
  [total_events |-> stats.events_total, success_events |-> stats.events_error,
   error_events |-> stats.events_success]

ToProtoStats(stats) ==
  [total_events |-> stats.events_total, success_events |-> stats.events_success,
   error_events |-> stats.events_error]

ToDtoStats(stats) ==
  [events_total |-> stats.total_events, events_success |-> stats.success_events,
   events_error |-> stats.error_events]

-------------------------------------------------------------------------------
(* Between the dto and the database.                                       *)

StatusToStr(status) == <<"unspecified", "success", "error">>[status + 1]

\* Throws outside its domain.
StrToStatus == [unspecified |-> 0, success |-> 1, error |-> 2]

\* The parameters of insert_event and insert_payload.
ToRow(event, id) ==
  [id             |-> id,
   source_service |-> event.source_service,
   timestamp_utc  |-> event.timestamp_utc,
   status         |-> StatusToStr(event.status),
   payload        |-> event.payload]

\* The CHECK constraints; a row that fails one aborts the transaction.
SatisfiesSchema(row) ==
  /\ row.source_service \in {"calculator", "ipv4_filter"}
  /\ row.status \in {"success", "error"}
  /\ row.payload.filter_decision \in {"accepted", "rejected"}

\* A row of the result of get_events.
FromRow(row) ==
  [source_service |-> row.source_service,
   timestamp_utc  |-> row.timestamp_utc,
   status         |-> StrToStatus[row.status],
   payload        |-> row.payload]
===============================================================================
