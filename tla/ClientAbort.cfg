SPECIFICATION Spec
CONSTANTS
  Quote = Quote
  Space = Space
  Letters = {"a", "x", "1", "2"}
  Pairs = {"--", "xx", "-1", "my"}
  Lines <- SomeLines
  Lower <- SomeLower
  Number <- SomeNumber
  Files <- SomeFiles
  Services = {"ipv4_filter", "postgres"}
  Zone <- AutumnZone
  Threshold = 2
  Other = Other
  MaxRows = 4
  MaxTime = 2
  IntMax = 7
  MaxEvents = 6
  MaxMessage = 5
  Absent = Absent
  Error = Error
INVARIANTS BadOptionIsReported
CHECK_DEADLOCK FALSE
