CONSTANTS
  t1 = t1
  t2 = t2
  t3 = t3
  payerA = payerA
  payerB = payerB
  lane1 = lane1
  lane2 = lane2
  proc1 = proc1
  proc2 = proc2
  NoFsp = NoFsp
  NoOne = NoOne
  NoTransfer = NoTransfer
  Transfers = {t1, t2, t3}
  Replacements = {}
  Fsps = {payerA, payerB}
  PayerOf <- MCPayerOf
  Reported = {}
  OpenTxLimit = 2
  Admins = {}
  Lanes = {lane1, lane2}
  Processes = {proc1, proc2}
  ProcessOf <- MCApart
  BatchMax = 2
  MaxAttempts = 2
  Unmapped = {}
  Refused = {}
  MaxFaults = 0
SPECIFICATION Spec
INVARIANT IdOrder
CHECK_DEADLOCK FALSE
