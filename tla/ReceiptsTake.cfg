SPECIFICATION Spec
CONSTANTS
  gen = gen
  crit = crit
  pub = pub
  start = start
  stop = stop
  restart = restart
  lgen = lgen
  lcrit = lcrit
  lpub = lpub
  ltake = ltake
  Ops = {gen, start, stop, restart}
  OpKind <- MCOpKind
  Loans = {lgen, ltake}
  LoanOf <- MCLoanOf
  MaxReceipts = 4
  MaxScopes = 3
  Foreign = 1
  MaxFaults = 1
INVARIANTS ReservedStopHasRoom
CHECK_DEADLOCK FALSE
