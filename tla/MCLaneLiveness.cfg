CONSTANTS
  t1 = t1
  t2 = t2
  t3 = t3
  payerA = payerA
  payerB = payerB
  lane1 = lane1
  lane2 = lane2
  proc1 = proc1
  proc2 = proc2
  NoFsp = NoFsp
  NoOne = NoOne
  NoTransfer = NoTransfer
  Transfers = {t1, t2}
  Replacements = {}
  Fsps = {payerA}
  PayerOf <- MCOnePayer
  Reported = {}
  OpenTxLimit = 2
  Admins = {}
  Lanes = {lane1, lane2}
  Processes = {proc1}
  ProcessOf <- MCTogether
  BatchMax = 2
  MaxAttempts = 2
  Unmapped = {t2}
  Refused = {}
  MaxFaults = 3
SPECIFICATION FairSpec
PROPERTY EventuallyDecided
CHECK_DEADLOCK FALSE
