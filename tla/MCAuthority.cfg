CONSTANTS
  t1 = t1
  t2 = t2
  payerA = payerA
  r1 = r1
  r2 = r2
  admin1 = admin1
  admin2 = admin2
  lane1 = lane1
  proc1 = proc1
  NoFsp = NoFsp
  NoOne = NoOne
  NoTransfer = NoTransfer
  Transfers = {t1, t2}
  Replacements = {r1, r2}
  Fsps = {payerA}
  PayerOf <- MCPayerOf
  Reported = {r1, r2}
  OpenTxLimit = 2
  Admins = {admin1, admin2}
  Lanes = {lane1}
  Processes = {proc1}
  ProcessOf <- MCProcessOf
  BatchMax = 2
  MaxAttempts = 1
  Unmapped = {}
  Refused = {}
  MaxFaults = 2
SYMMETRY MCSymmetry
SPECIFICATION Spec
INVARIANTS
  StreamOrder
  ReplacementAuthorised
PROPERTY GateStaysOpen
CHECK_DEADLOCK FALSE
