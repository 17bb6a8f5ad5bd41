CONSTANTS
  Parts = {"control"}
  c1 = c1
  c2 = c2
  c3 = c3
  rental1 = rental1
  rental2 = rental2
  Nobody = Nobody
  NoPoller = NoPoller
  Operators = {o1, o2}
  Workers = {w1}
  Cases = {c1}
  Contracts = {rental1}
  ContractOf <- MCContractOf
  MaxSignals = 1
  MaxLapses = 0
  Pollers = {p1}
  Untracked = {}
  Unusables <- MCUnusables
  MaxFeed = 1
  ResultsLimit = 1
  BulkLimit = 1
  MaxSetbacks = 0
  Reservations = {r1}
  Stock = Stock
  Quantities = {0, 1}
  Dispatchers = {d1, d2}
  ClaimLimit = 2
  MaxAttempts = 2
  MaxChanges = 0
  MaxFaults = 0
  Servers = {a1, a2}
  Endpoints = {shop, cafe, broken}
  Refused = {broken}
  Keyless = {cafe}
  WorkEvents = {}
  HookLimit = 2
  HookAttempts = 2
SPECIFICATION MCSpec
INVARIANT UnsentFails
CHECK_DEADLOCK FALSE
