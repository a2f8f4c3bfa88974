SPECIFICATION Spec
CONSTANTS
  Events <- SomeEvents
  Filters <- SomeFilters
  Ids = {1, 2, 3}
  IntMax = 3
  MaxEvents = 3
  MaxMessage = 2
  Absent = Absent
  Error = Error
INVARIANTS TypeOK AnswerIsWindow StablePagesComplete OldRowsAreShown
