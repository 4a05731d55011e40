SPECIFICATION FairSpec
CONSTANTS
  a = a
  b = b
  t = t
  receipt = receipt
  kitchen = kitchen
  Prints = {a, b}
  Tickets = {}
  Scopes = {receipt, kitchen}
  ScopeOf <- ScopesOfPrints
  BatchSize = 2
  MaxAttempts = 2
  Faults = {"busy", "enqueue", "lost", "refused"}
  MaxFaults = 2
  MaxCrashes = 2
INVARIANTS
  TypeOK
  CopiesAreUnique
  CloudNeverContradicted
  SyncedIsOnCloud
PROPERTIES
  KeepsPromise
  TriggeredIsLedgered
CHECK_DEADLOCK FALSE
