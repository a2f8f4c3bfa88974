SPECIFICATION Spec
CONSTANTS
  c1 = c1
  c2 = c2
  Clients = {c1, c2}
  MaxCommands <- TwoAndOne
  MaxAttempts = 2
  Parts = 2
INVARIANTS TypeOK
PROPERTIES ImplementsLedger ReadsSeeSaved ReadsNeverGoBack
