----------------------------- MODULE MCEventQuery -----------------------------
(***************************************************************************)
(* Small instances of EventQuery: timestamps that coincide, every option   *)
(* given and not given, limits and offsets on both sides of zero, periods  *)
(* that begin and end at a timestamp of an event.                          *)
(***************************************************************************)
EXTENDS EventQuery

\* The id is drawn when the event is saved.
SomeEvents ==
  [id : {0}, timestamp_utc : 1 .. 3, status : {"success"}, source_service : {"ipv4_filter"}]
    \cup [id : {0}, timestamp_utc : {1}, status : {"error"}, source_service : {"calculator"}]

NoFilter == [source_service |-> Absent, status |-> Absent, limit |-> Absent,
             from |-> Absent, to |-> Absent, offset |-> Absent]

SomeFilters ==
  LET WithWindow(fs, limits, offsets) ==
        {[f EXCEPT !.limit = l, !.offset = o] : f \in fs, l \in limits, o \in offsets}
      Selective == {[NoFilter EXCEPT !.source_service = "ipv4_filter"],
                    [NoFilter EXCEPT !.status = "success"],
                    [NoFilter EXCEPT !.status = "unspecified"],
                    [NoFilter EXCEPT !.from = 2],
                    [NoFilter EXCEPT !.to = 1]}
  IN  WithWindow({NoFilter}, {Absent, -1, 0, 1, 2}, {Absent, 1, 2, 3})
        \cup WithWindow({NoFilter}, {Absent, 1}, {-1})
        \cup Selective \cup WithWindow(Selective, {1}, {Absent, 1, 2})
        \cup {[NoFilter EXCEPT !.from = 1, !.to = 2, !.limit = -4]}
===============================================================================
