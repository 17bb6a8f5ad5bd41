CONSTANTS
  Parts = {"campaign"}
  voucher = voucher
  discount = discount
  send1 = send1
  send2 = send2
  send3 = send3
  NoKey = NoKey
  NoOrder = NoOrder
  NoVariant = NoVariant
  Keys = {redemption, send1, send2, send3}
  RedeemKeys = {redemption}
  Sessions = {s1, s2}
  Users = {u1}
  Rewards = {voucher, discount}
  CostOf <- MCCostOf
  TierNeeded <- MCTierNeeded
  PrizeOf <- MCPrizeOf
  Silver = 2
  Adjustments <- MCAdjustments
  ExpiryJobs = {j1}
  Closers = {c1, c2}
  Periods = 2
  PointBound = 2
  MaxStops = 1
  Recipients = {1, 2}
  SendKey <- MCSendKey
  Runs = {d1}
  PageSize = 2
  MaxStarts = 2
  MaxSwitches = 0
  MaxMoves = 0
  MaxRefusals = 0
  MaxCrashes = 1
  Variants = {v1, v2, v3}
  Editors = {e1, e2}
  Shares = {20, 40, 60}
  Absent <- MCAbsent
  ann = ann
  bob = bob
  root = root
  t1 = t1
  t2 = t2
  crest = crest
  People = {ann, bob, root}
  Tenants = {t1, t2}
  NoTenant = NoTenant
  Bootstrap = root
  NoOne = NoOne
  Deleted = Deleted
  Requests = {q1, q2}
  Presets = {crest}
  PresetTenant <- MCPresetTenant
  Starts <- MCStarts
  MaxRequests = 2
  Reservations = {r1}
  Stock = Stock
  Quantities = {0, 1}
  Dispatchers = {d1, d2}
  ClaimLimit = 2
  MaxAttempts = 2
  MaxChanges = 0
  MaxFaults = 0
  van = van
  Assets = {van}
  Contracts = {k1, k2}
  Blocks = {b1}
  AssetOf <- MCAssetOf
  LastDay = 4
  LongestTerm = 2
SPECIFICATION MCSpec
INVARIANT RerunFinishes
CHECK_DEADLOCK FALSE
