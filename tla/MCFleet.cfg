CONSTANTS
  Parts = {"control", "ingest", "inventory", "webhooks"}
  c1 = c1
  c2 = c2
  c3 = c3
  rental1 = rental1
  rental2 = rental2
  Nobody = Nobody
  NoPoller = NoPoller
  Operators = {o1, o2}
  Workers = {w1, w2}
  Cases = {c1, c2}
  Contracts = {rental1}
  ContractOf <- MCContractOf
  MaxSignals = 3
  MaxLapses = 1
  Pollers = {p1, p2}
  Untracked = {2}
  Unusables <- MCUnusables
  MaxFeed = 3
  ResultsLimit = 2
  BulkLimit = 1
  MaxSetbacks = 2
  Reservations = {r1}
  Stock = Stock
  Quantities = {0, 1}
  Dispatchers = {d1, d2}
  ClaimLimit = 2
  MaxAttempts = 2
  MaxChanges = 2
  MaxFaults = 1
  Servers = {a1, a2}
  Endpoints = {shop, cafe, broken}
  Refused = {broken}
  Keyless = {cafe}
  WorkEvents = {e1}
  HookLimit = 2
  HookAttempts = 2
SPECIFICATION MCSpec
INVARIANTS
  MCTypeOK
  SentOnceByTwo
  OneLiveCommand
  NothingSkipped
PROPERTIES
  CuredStaysUnsent
  MCEventuallyStored
  MCEventuallyDecidedRows
  MCHooksDecided
  HookVerdictsStand
CHECK_DEADLOCK FALSE
